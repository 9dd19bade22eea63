---------------------------- MODULE AutomationProofs -------------------------
(* The theorems about what programs other than the pages meet: a call that is *)
(* repeated with its key (CardKeys) is safe, and a dispatch (Webhooks) tells  *)
(* those who may know, and all it owes it to.                                 *)
EXTENDS CardKeys, Webhooks, TLAPS

-----------------------------------------------------------------------------
(* CardKeys, for every set of columns, keys and calls and any number of cards, *)
(* moves and stops.                                                           *)

KeyCardRow ==
  [column : KeyColumns \union {NoAnswer}, for : KeyColumns \union {NoAnswer},
   by : KeyCalls \union {NoAnswer}, key : Keys \union {NoAnswer}, peopled : BOOLEAN, told : Nat]
KeySteps == {"idle", "look", "insert", "refused", "people", "tell", "found", "made", "failed", "cut"}
KeyCallState ==
  [column : KeyColumns \union {NoAnswer}, key : Keys \union {NoAnswer}, step : KeySteps,
   card : KeyIds \union {NoAnswer}]

KeysTypeOK ==
  /\ keyed \in [KeyIds -> KeyCardRow]
  /\ call \in [KeyCalls -> KeyCallState]
  /\ left \subseteq KeyIds

(* A card nobody moved or destroyed is where it was asked for.                *)
CardIsSound(i) ==
  /\ ~KeyMade(i) => keyed[i] = Fresh /\ i \notin left
  /\ KeyMade(i) => keyed[i].for \in KeyColumns
  /\ KeyMade(i) => i \in left \/ keyed[i].column = keyed[i].for

(* The call that made a card asked for it, is past the insert, and what the   *)
(* card has of people and announcements is what the call has got to.          *)
MakerIsSound(i) ==
  LET p == keyed[i].by
  IN KeyMade(i) =>
       /\ call[p].column = keyed[i].for /\ call[p].key = keyed[i].key
       /\ call[p].step \in {"people", "tell", "made", "cut", "failed"}
       /\ call[p].step \in {"people", "tell", "made"} => call[p].card = i
       /\ keyed[i].told = IF call[p].step = "made" THEN 1 ELSE 0
       /\ call[p].step \in {"tell", "made"} => keyed[i].peopled
       /\ call[p].step = "failed" => i \in left

(* A call holds a card that answers it; one that was refused, or failed, met  *)
(* such a card.                                                               *)
AnswersKey(i, p) ==
  KeyMade(i) /\ keyed[i].key = call[p].key /\ (keyed[i].for = call[p].column \/ i \in left)

CallIsSound(p) ==
  /\ call[p].step \in {"look", "insert"} => call[p].column \in KeyColumns
  /\ call[p].step \in {"people", "tell", "made", "found"} =>
       call[p].card \in KeyIds /\ AnswersKey(call[p].card, p)
  /\ call[p].step \in {"people", "tell", "made"} => keyed[call[p].card].by = p
  /\ call[p].step = "refused" => \E i \in KeyIds : AnswersKey(i, p)
  /\ call[p].step = "failed" => \E i \in left : keyed[i].key = call[p].key

OneCardEach ==
  \A i, j \in KeyIds :
    (KeyMade(i) /\ KeyMade(j) /\ keyed[i].for = keyed[j].for /\ keyed[i].key = keyed[j].key)
      => i = j \/ i \in left \/ j \in left

KeysInv ==
  /\ KeysTypeOK
  /\ \A i \in KeyIds : CardIsSound(i) /\ MakerIsSound(i)
  /\ \A p \in KeyCalls : CallIsSound(p)
  /\ OneCardEach

-----------------------------------------------------------------------------
(* Nothing is made or asked for at first.                                     *)
LEMMA KeysInitInv == KeysInit => KeysInv
<1> SUFFICES ASSUME KeysInit PROVE KeysInv
  OBVIOUS
<1>1. Fresh \in KeyCardRow /\ Idle \in KeyCallState
  BY DEF Fresh, Idle, KeyCardRow, KeyCallState, KeySteps
<1>2. KeysTypeOK
  BY <1>1 DEF KeysInit, KeysTypeOK
<1>3. \A i \in KeyIds : keyed[i] = Fresh /\ ~KeyMade(i)
  BY DEF KeysInit, KeyMade, Fresh
<1>4. \A p \in KeyCalls : call[p].step = "idle"
  BY DEF KeysInit, Idle
<1> QED
  BY <1>2, <1>3, <1>4 DEF KeysInit, KeysInv, CardIsSound, MakerIsSound, CallIsSound, OneCardEach

-----------------------------------------------------------------------------
(* A call that goes a step on.                                                *)
LEMMA CallGoesOn ==
  ASSUME KeysTypeOK, NEW p \in KeyCalls, NEW step \in KeySteps, NEW i \in KeyIds \union {NoAnswer},
         CallGoes(p, step, i)
  PROVE  /\ call' \in [KeyCalls -> KeyCallState]
         /\ call'[p].step = step /\ call'[p].card = i
         /\ call'[p].column = call[p].column /\ call'[p].key = call[p].key
         /\ \A q \in KeyCalls \ {p} : call'[q] = call[q]
  BY DEF CallGoes, KeysTypeOK, KeyCallState

(* A step that makes no card and takes none away leaves the parts about cards *)
(* and the calls it does not touch alone.                                     *)
LEMMA OtherCalls ==
  ASSUME KeysInv, UNCHANGED <<keyed, left>>, NEW q \in KeyCalls, call'[q] = call[q]
  PROVE  CallIsSound(q)'
<1>1. CallIsSound(q)
  BY DEF KeysInv
<1> QED
  BY <1>1 DEF CallIsSound, AnswersKey, KeyMade

(* A call that made no card yet may go on as it likes: no card is about it.   *)
LEMMA CardsStay ==
  ASSUME KeysInv, UNCHANGED <<keyed, left>>, NEW p \in KeyCalls,
         call[p].step \in {"idle", "look", "insert", "refused"},
         \A q \in KeyCalls \ {p} : call'[q] = call[q]
  PROVE  (\A i \in KeyIds : CardIsSound(i) /\ MakerIsSound(i))' /\ OneCardEach'
<1>1. ASSUME NEW i \in KeyIds PROVE CardIsSound(i)' /\ MakerIsSound(i)'
  <2>1. CardIsSound(i) /\ MakerIsSound(i)
    BY DEF KeysInv
  <2>2. CardIsSound(i)'
    BY <2>1 DEF CardIsSound, KeyMade
  <2>3. ASSUME KeyMade(i) PROVE keyed[i].by \in KeyCalls \ {p}
    <3>1. keyed[i].by \in KeyCalls
      BY <2>3 DEF KeysInv, KeysTypeOK, KeyCardRow, KeyMade
    <3>2. keyed[i].by # p
      BY <2>1, <2>3 DEF MakerIsSound
    <3> QED
      BY <3>1, <3>2
  <2>4. MakerIsSound(i)'
    BY <2>1, <2>3 DEF MakerIsSound, KeyMade
  <2> QED
    BY <2>2, <2>4
<1>2. OneCardEach'
  BY DEF KeysInv, OneCardEach, KeyMade
<1> QED
  BY <1>1, <1>2

(* A card a call finds answers it.                                            *)
LEMMA HeldAnswers ==
  ASSUME KeysInv, NEW p \in KeyCalls, NEW i \in Holding(p)
  PROVE  i \in KeyIds /\ AnswersKey(i, p)
<1>1. i \in KeyIds /\ There(i) /\ keyed[i].column = call[p].column /\ keyed[i].key = call[p].key
  BY DEF Holding
<1>2. KeyMade(i)
  BY <1>1 DEF KeysInv, CardIsSound, There, Fresh
<1> QED
  BY <1>1, <1>2 DEF KeysInv, CardIsSound, AnswersKey

(* A card that answers a call that finds none has been moved or destroyed.    *)
LEMMA NotHeldLeft ==
  ASSUME KeysInv, NEW p \in KeyCalls, Holding(p) = {}, NEW i \in KeyIds, AnswersKey(i, p)
  PROVE  i \in left
<1>1. CASE i \notin left
  <2>1. keyed[i].column = call[p].column /\ keyed[i].key = call[p].key /\ keyed[i].column \in KeyColumns
    BY <1>1 DEF KeysInv, CardIsSound, AnswersKey
  <2> QED
    BY <2>1, KeyAssumption DEF Holding, There
<1> QED
  BY <1>1

-----------------------------------------------------------------------------
LEMMA AskKeeps ==
  ASSUME KeysInv, NEW p \in KeyCalls, NEW a \in KeyColumns, NEW k \in Keys, Ask(p, a, k)
  PROVE  KeysInv'
<1> DEFINE new == [Idle EXCEPT !.column = a, !.key = k, !.step = "look"]
<1>1. new \in KeyCallState /\ new.step = "look" /\ new.column = a
  BY DEF Idle, KeyCallState, KeySteps
<1>2. UNCHANGED <<keyed, left>> /\ call' = [call EXCEPT ![p] = new] /\ call[p].step = "idle"
  BY DEF Ask, Idle
<1> HIDE DEF new
<1>3. KeysTypeOK'
  BY <1>1, <1>2 DEF KeysInv, KeysTypeOK
<1>4. call'[p] = new /\ \A q \in KeyCalls \ {p} : call'[q] = call[q]
  BY <1>2 DEF KeysInv, KeysTypeOK
<1>5. (\A i \in KeyIds : CardIsSound(i) /\ MakerIsSound(i))' /\ OneCardEach'
  BY <1>2, <1>4, CardsStay
<1>6. CallIsSound(p)'
  BY <1>1, <1>4 DEF CallIsSound
<1> QED
  BY <1>2, <1>3, <1>4, <1>5, <1>6, OtherCalls DEF KeysInv

LEMMA LookKeeps ==
  ASSUME KeysInv, NEW p \in KeyCalls, LookForKey(p) \/ LookAgain(p)
  PROVE  KeysInv'
<1>1. UNCHANGED <<keyed, left>> /\ call[p].step \in {"look", "refused"}
  BY DEF LookForKey, LookAgain, CallAt
<1>2. PICK step \in {"insert", "found", "failed"}, i \in KeyIds \union {NoAnswer} :
        /\ CallGoes(p, step, i)
        /\ step = "insert" => call[p].step = "look"
        /\ step = "found" => i \in Holding(p)
        /\ step = "failed" => call[p].step = "refused" /\ Holding(p) = {}
  BY DEF LookForKey, LookAgain, CallAt, Holding
<1>3. /\ call' \in [KeyCalls -> KeyCallState]
      /\ call'[p].step = step /\ call'[p].card = i
      /\ call'[p].column = call[p].column /\ call'[p].key = call[p].key
      /\ \A q \in KeyCalls \ {p} : call'[q] = call[q]
  BY <1>2, CallGoesOn DEF KeysInv, KeySteps
<1>4. KeysTypeOK'
  BY <1>1, <1>3 DEF KeysInv, KeysTypeOK
<1>5. (\A j \in KeyIds : CardIsSound(j) /\ MakerIsSound(j))' /\ OneCardEach'
  BY <1>1, <1>3, CardsStay
<1>6. CallIsSound(p)'
  <2>0. CallIsSound(p)
    BY DEF KeysInv
  <2>1. CASE step = "insert"
    BY <1>2, <1>3, <2>0, <2>1 DEF CallIsSound
  <2>2. CASE step = "found"
    <3>1. i \in KeyIds /\ AnswersKey(i, p)
      BY <1>2, <2>2, HeldAnswers
    <3> QED
      BY <1>1, <1>3, <2>2, <3>1 DEF CallIsSound, AnswersKey, KeyMade
  <2>3. CASE step = "failed"
    <3>1. PICK j \in KeyIds : AnswersKey(j, p)
      BY <1>2, <2>0, <2>3 DEF CallIsSound
    <3>2. j \in left /\ keyed[j].key = call[p].key
      BY <1>2, <2>3, <3>1, NotHeldLeft DEF AnswersKey
    <3> QED
      BY <1>1, <1>3, <2>3, <3>2 DEF CallIsSound
  <2> QED
    BY <1>2, <2>1, <2>2, <2>3
<1> QED
  BY <1>1, <1>3, <1>4, <1>5, <1>6, OtherCalls DEF KeysInv

(* The insert: the column has no card with the key, so no card made for it is *)
(* still where it was asked for.                                              *)
LEMMA InsertKeeps ==
  ASSUME KeysInv, NEW p \in KeyCalls, InsertKeyed(p)
  PROVE  KeysInv'
<1>0. call[p].step = "insert" /\ CallIsSound(p) /\ UNCHANGED left
  BY DEF InsertKeyed, CallAt, KeysInv
<1>1. CASE Holding(p) # {}
  <2>1. UNCHANGED keyed /\ CallGoes(p, "refused", NoAnswer)
    BY <1>1 DEF InsertKeyed
  <2>2. /\ call' \in [KeyCalls -> KeyCallState]
        /\ call'[p].step = "refused"
        /\ call'[p].column = call[p].column /\ call'[p].key = call[p].key
        /\ \A q \in KeyCalls \ {p} : call'[q] = call[q]
    BY <2>1, CallGoesOn DEF KeysInv, KeySteps
  <2>3. PICK i \in KeyIds : AnswersKey(i, p)
    BY <1>1, HeldAnswers
  <2>4. CallIsSound(p)'
    BY <1>0, <2>1, <2>2, <2>3 DEF CallIsSound, AnswersKey, KeyMade
  <2>5. (\A j \in KeyIds : CardIsSound(j) /\ MakerIsSound(j))' /\ OneCardEach'
    BY <1>0, <2>1, <2>2, CardsStay
  <2> QED
    BY <1>0, <2>1, <2>2, <2>4, <2>5, OtherCalls DEF KeysInv, KeysTypeOK
<1>2. CASE Holding(p) = {}
  <2>1. PICK i \in KeyIds : NextId(i) /\ keyed' = [keyed EXCEPT ![i] = KeyRow(p)] /\ CallGoes(p, "people", i)
    BY <1>2 DEF InsertKeyed
  <2>2. /\ call' \in [KeyCalls -> KeyCallState]
        /\ call'[p].step = "people" /\ call'[p].card = i
        /\ call'[p].column = call[p].column /\ call'[p].key = call[p].key
        /\ \A q \in KeyCalls \ {p} : call'[q] = call[q]
    BY <2>1, CallGoesOn DEF KeysInv, KeySteps
  <2>3. /\ keyed'[i] = KeyRow(p) /\ \A j \in KeyIds \ {i} : keyed'[j] = keyed[j]
        /\ ~KeyMade(i) /\ KeyRow(p) \in KeyCardRow
    BY <2>1 DEF KeysInv, KeysTypeOK, NextId, KeyRow, KeyCardRow, KeyCallState
  <2>4. KeysTypeOK'
    BY <1>0, <2>1, <2>2, <2>3 DEF KeysInv, KeysTypeOK
  <2>5. /\ keyed'[i].by = p /\ keyed'[i].for = call[p].column /\ keyed'[i].key = call[p].key
        /\ keyed'[i].column = call[p].column /\ keyed'[i].told = 0 /\ KeyMade(i)'
        /\ call[p].column \in KeyColumns
    BY <1>0, <2>3, KeyAssumption DEF KeyRow, KeyMade, CallIsSound
  <2>6. ASSUME NEW j \in KeyIds PROVE CardIsSound(j)' /\ MakerIsSound(j)'
    <3>1. CASE j = i
      BY <2>2, <2>5, <3>1 DEF CardIsSound, MakerIsSound
    <3>2. CASE j # i
      <4>0. CardIsSound(j) /\ MakerIsSound(j) /\ keyed'[j] = keyed[j]
        BY <2>3, <3>2 DEF KeysInv
      <4>1. CardIsSound(j)'
        BY <1>0, <4>0 DEF CardIsSound, KeyMade
      <4>2. ASSUME KeyMade(j) PROVE keyed[j].by \in KeyCalls \ {p}
        <5>1. keyed[j].by \in KeyCalls
          BY <4>2 DEF KeysInv, KeysTypeOK, KeyCardRow, KeyMade
        <5>2. keyed[j].by # p
          BY <1>0, <4>0, <4>2 DEF MakerIsSound
        <5> QED
          BY <5>1, <5>2
      <4>3. MakerIsSound(j)'
        BY <1>0, <2>2, <4>0, <4>2 DEF MakerIsSound, KeyMade
      <4> QED
        BY <4>1, <4>3
    <3> QED
      BY <3>1, <3>2
  <2>7. ASSUME NEW q \in KeyCalls PROVE CallIsSound(q)'
    <3>1. CASE q = p
      BY <2>2, <2>5, <3>1 DEF CallIsSound, AnswersKey
    <3>2. CASE q # p
      <4>0. CallIsSound(q) /\ call'[q] = call[q]
        BY <2>2, <3>2 DEF KeysInv
      <4>1. \A j \in KeyIds : AnswersKey(j, q) => AnswersKey(j, q)'
        BY <1>0, <2>3, <4>0 DEF AnswersKey, KeyMade
      <4>2. \A j \in KeyIds : KeyMade(j) => keyed'[j] = keyed[j]
        BY <2>3
      <4>3. \A j \in left : KeyMade(j) /\ j \in KeyIds
        BY DEF KeysInv, KeysTypeOK, CardIsSound
      <4> QED
        BY <1>0, <4>0, <4>1, <4>2, <4>3 DEF CallIsSound, AnswersKey
    <3> QED
      BY <3>1, <3>2
  <2>8. OneCardEach'
    <3>1. ASSUME NEW j \in KeyIds \ {i}, KeyMade(j), keyed[j].for = call[p].column, keyed[j].key = call[p].key
          PROVE  j \in left
      BY <1>2, <3>1, NotHeldLeft DEF AnswersKey
    <3> QED
      BY <1>0, <2>3, <2>5, <3>1 DEF KeysInv, OneCardEach, KeyMade
  <2> QED
    BY <2>4, <2>6, <2>7, <2>8 DEF KeysInv
<1> QED
  BY <1>1, <1>2

(* The call that made a card gives it its people, and announces it, once.     *)
LEMMA MakerGoesOn ==
  ASSUME KeysInv, NEW p \in KeyCalls, call[p].step \in {"people", "tell"}
  PROVE  /\ call[p].card \in KeyIds /\ KeyMade(call[p].card) /\ keyed[call[p].card].by = p
         /\ keyed[call[p].card].for = call[p].column /\ keyed[call[p].card].key = call[p].key
         /\ keyed[call[p].card].told = 0
         /\ call[p].step = "tell" => keyed[call[p].card].peopled
         /\ \A i \in KeyIds \ {call[p].card} : keyed[i].by # p
<1> DEFINE c == call[p].card
<1>1. CallIsSound(p)
  BY DEF KeysInv
<1>2. c \in KeyIds /\ KeyMade(c) /\ keyed[c].by = p
  BY <1>1 DEF CallIsSound, AnswersKey
<1>3. MakerIsSound(c)
  BY <1>2 DEF KeysInv
<1>4. ASSUME NEW i \in KeyIds, keyed[i].by = p PROVE i = c
  <2>1. KeyMade(i) /\ MakerIsSound(i)
    BY <1>4, KeyAssumption DEF KeysInv, KeyMade
  <2> QED
    BY <1>4, <2>1 DEF MakerIsSound
<1> QED
  BY <1>2, <1>3, <1>4 DEF MakerIsSound

(* What is true of a card's maker stays so while neither is written.          *)
LEMMA MakerUntouched ==
  ASSUME NEW i, MakerIsSound(i), keyed'[i] = keyed[i], left' = left,
         KeyMade(i) => call'[keyed[i].by] = call[keyed[i].by]
  PROVE  MakerIsSound(i)'
<1>1. CASE KeyMade(i)
  BY <1>1 DEF MakerIsSound, KeyMade
<1>2. CASE ~KeyMade(i)
  BY <1>2 DEF MakerIsSound, KeyMade
<1> QED
  BY <1>1, <1>2

(* Writing to a card its people or that it was told leaves who it answers and *)
(* where it is.                                                               *)
LEMMA OwnWriteKeeps ==
  ASSUME KeysInv, NEW p \in KeyCalls, call[p].step \in {"people", "tell"},
         NEW c \in KeyIds, c = call[p].card, KeysTypeOK', UNCHANGED left,
         call'[p].column = call[p].column, call'[p].key = call[p].key,
         \A q \in KeyCalls \ {p} : call'[q] = call[q],
         \A i \in KeyIds : /\ keyed'[i].by = keyed[i].by /\ keyed'[i].for = keyed[i].for
                           /\ keyed'[i].key = keyed[i].key /\ keyed'[i].column = keyed[i].column,
         \A i \in KeyIds \ {c} : keyed'[i] = keyed[i],
         MakerIsSound(c)', CallIsSound(p)'
  PROVE  KeysInv'
<1>1. KeyMade(c) /\ \A i \in KeyIds \ {c} : keyed[i].by # p
  BY MakerGoesOn
<1>2. ASSUME NEW i \in KeyIds PROVE CardIsSound(i)' /\ MakerIsSound(i)'
  <2>0. CardIsSound(i) /\ MakerIsSound(i)
    BY DEF KeysInv
  <2>1. CardIsSound(i)'
    <3>1. CASE i = c
      BY <1>1, <2>0, <3>1 DEF CardIsSound, KeyMade
    <3>2. CASE i # c
      BY <2>0, <3>2 DEF CardIsSound, KeyMade
    <3> QED
      BY <3>1, <3>2
  <2>2. CASE i = c
    BY <2>1, <2>2
  <2>3. CASE i # c
    <3>1. keyed'[i] = keyed[i] /\ keyed[i].by # p
      BY <1>1, <2>3
    <3>2. KeyMade(i) => keyed[i].by \in KeyCalls
      BY DEF KeysInv, KeysTypeOK, KeyCardRow, KeyMade
    <3>3. MakerIsSound(i)'
      <4>1. left' = left /\ (KeyMade(i) => call'[keyed[i].by] = call[keyed[i].by])
        BY <3>1, <3>2
      <4> QED
        BY <2>0, <3>1, <4>1, MakerUntouched
    <3> QED
      BY <2>1, <3>3
  <2> QED
    BY <2>2, <2>3
<1>3. ASSUME NEW q \in KeyCalls PROVE CallIsSound(q)'
  <2>1. CASE q # p
    <3>1. CallIsSound(q) /\ call'[q] = call[q]
      BY <2>1 DEF KeysInv
    <3>2. \A i \in KeyIds : AnswersKey(i, q) => AnswersKey(i, q)'
      BY <3>1 DEF AnswersKey, KeyMade
    <3>3. left \subseteq KeyIds
      BY DEF KeysInv, KeysTypeOK
    <3> QED
      BY <3>1, <3>2, <3>3 DEF CallIsSound
  <2> QED
    BY <2>1
<1>4. OneCardEach'
  BY DEF KeysInv, OneCardEach, KeyMade
<1> QED
  BY <1>2, <1>3, <1>4 DEF KeysInv

LEMMA PeopleKeeps ==
  ASSUME KeysInv, NEW p \in KeyCalls, PutPeople(p)
  PROVE  KeysInv'
<1>0. PICK c : c = call[p].card
  OBVIOUS
<1>1. call[p].step = "people" /\ UNCHANGED left
  BY DEF PutPeople, CallAt
<1>2. c \in KeyIds /\ KeyMade(c) /\ keyed[c].by = p /\ keyed[c].for = call[p].column
      /\ keyed[c].key = call[p].key /\ keyed[c].told = 0
  BY <1>0, <1>1, MakerGoesOn
<1>3. keyed' = [keyed EXCEPT ![c].peopled = TRUE] /\ CallGoes(p, "tell", c)
  BY <1>0 DEF PutPeople
<1>4. /\ call' \in [KeyCalls -> KeyCallState]
      /\ call'[p].step = "tell" /\ call'[p].card = c
      /\ call'[p].column = call[p].column /\ call'[p].key = call[p].key
      /\ \A q \in KeyCalls \ {p} : call'[q] = call[q]
  BY <1>2, <1>3, CallGoesOn DEF KeysInv, KeySteps
<1>5. /\ keyed' \in [KeyIds -> KeyCardRow]
      /\ keyed'[c] = [keyed[c] EXCEPT !.peopled = TRUE]
      /\ \A i \in KeyIds \ {c} : keyed'[i] = keyed[i]
  BY <1>2, <1>3 DEF KeysInv, KeysTypeOK, KeyCardRow
<1>6. /\ keyed'[c].by = keyed[c].by /\ keyed'[c].for = keyed[c].for /\ keyed'[c].key = keyed[c].key
      /\ keyed'[c].column = keyed[c].column /\ keyed'[c].told = 0 /\ keyed'[c].peopled
  BY <1>2, <1>5 DEF KeysInv, KeysTypeOK, KeyCardRow
<1>7. MakerIsSound(c)' /\ CallIsSound(p)'
  BY <1>2, <1>4, <1>6 DEF MakerIsSound, CallIsSound, AnswersKey, KeyMade
<1>8. \A i \in KeyIds : /\ keyed'[i].by = keyed[i].by /\ keyed'[i].for = keyed[i].for
                        /\ keyed'[i].key = keyed[i].key /\ keyed'[i].column = keyed[i].column
  BY <1>5, <1>6
<1>9. KeysTypeOK'
  BY <1>1, <1>4, <1>5 DEF KeysInv, KeysTypeOK
<1> QED
  BY <1>1, <1>4, <1>5, <1>7, <1>8, <1>9, <1>0, <1>2, OwnWriteKeeps

LEMMA TellKeeps ==
  ASSUME KeysInv, NEW p \in KeyCalls, TellOfCard(p)
  PROVE  KeysInv'
<1>0. PICK c : c = call[p].card
  OBVIOUS
<1>1. call[p].step = "tell" /\ UNCHANGED left
  BY DEF TellOfCard, CallAt
<1>2. c \in KeyIds /\ KeyMade(c) /\ keyed[c].by = p /\ keyed[c].for = call[p].column
      /\ keyed[c].key = call[p].key /\ keyed[c].told = 0 /\ keyed[c].peopled
  BY <1>0, <1>1, MakerGoesOn
<1>3. CASE There(c)
  <2>1. keyed' = [keyed EXCEPT ![c].told = @ + 1] /\ CallGoes(p, "made", c)
    BY <1>0, <1>3 DEF TellOfCard
  <2>2. /\ call' \in [KeyCalls -> KeyCallState]
        /\ call'[p].step = "made" /\ call'[p].card = c
        /\ call'[p].column = call[p].column /\ call'[p].key = call[p].key
        /\ \A q \in KeyCalls \ {p} : call'[q] = call[q]
    BY <1>2, <2>1, CallGoesOn DEF KeysInv, KeySteps
  <2>3. /\ keyed' \in [KeyIds -> KeyCardRow]
        /\ keyed'[c] = [keyed[c] EXCEPT !.told = 1]
        /\ \A i \in KeyIds \ {c} : keyed'[i] = keyed[i]
    BY <1>2, <2>1 DEF KeysInv, KeysTypeOK, KeyCardRow
  <2>4. /\ keyed'[c].by = keyed[c].by /\ keyed'[c].for = keyed[c].for /\ keyed'[c].key = keyed[c].key
        /\ keyed'[c].column = keyed[c].column /\ keyed'[c].told = 1 /\ keyed'[c].peopled
    BY <1>2, <2>3 DEF KeysInv, KeysTypeOK, KeyCardRow
  <2>5. MakerIsSound(c)' /\ CallIsSound(p)'
    BY <1>2, <2>2, <2>4 DEF MakerIsSound, CallIsSound, AnswersKey, KeyMade
  <2>6. \A i \in KeyIds : /\ keyed'[i].by = keyed[i].by /\ keyed'[i].for = keyed[i].for
                          /\ keyed'[i].key = keyed[i].key /\ keyed'[i].column = keyed[i].column
    BY <2>3, <2>4
  <2>7. KeysTypeOK'
    BY <1>1, <2>2, <2>3 DEF KeysInv, KeysTypeOK
  <2> QED
    BY <1>1, <2>2, <2>3, <2>5, <2>6, <2>7, <1>0, <1>2, OwnWriteKeeps
<1>4. CASE ~There(c)
  <2>1. UNCHANGED keyed /\ CallGoes(p, "failed", NoAnswer)
    BY <1>0, <1>4 DEF TellOfCard
  <2>2. c \in left
    BY <1>2, <1>4, KeyAssumption DEF KeysInv, CardIsSound, There
  <2>3. /\ call' \in [KeyCalls -> KeyCallState]
        /\ call'[p].step = "failed"
        /\ call'[p].column = call[p].column /\ call'[p].key = call[p].key
        /\ \A q \in KeyCalls \ {p} : call'[q] = call[q]
    BY <2>1, CallGoesOn DEF KeysInv, KeySteps
  <2>4. MakerIsSound(c)' /\ CallIsSound(p)'
    BY <1>1, <1>2, <2>1, <2>2, <2>3 DEF MakerIsSound, CallIsSound, KeyMade
  <2>5. KeysTypeOK'
    BY <1>1, <2>1, <2>3 DEF KeysInv, KeysTypeOK
  <2> QED
    BY <1>1, <2>1, <2>3, <2>4, <2>5, <1>0, <1>2, OwnWriteKeeps
<1> QED
  BY <1>3, <1>4

-----------------------------------------------------------------------------
(* A card that is moved or destroyed has left, and is otherwise what it was.  *)
LEMMA LeavingKeeps ==
  ASSUME KeysInv, NEW i \in KeyIds, There(i), NEW a \in KeyColumns \union {NoAnswer},
         keyed' = [keyed EXCEPT ![i].column = a], left' = left \union {i}, UNCHANGED call
  PROVE  KeysInv'
<1>1. /\ keyed' \in [KeyIds -> KeyCardRow]
      /\ keyed'[i] = [keyed[i] EXCEPT !.column = a]
      /\ \A j \in KeyIds \ {i} : keyed'[j] = keyed[j]
  BY DEF KeysInv, KeysTypeOK, KeyCardRow
<1>2. \A j \in KeyIds : /\ keyed'[j].by = keyed[j].by /\ keyed'[j].for = keyed[j].for
                        /\ keyed'[j].key = keyed[j].key /\ keyed'[j].told = keyed[j].told
                        /\ keyed'[j].peopled = keyed[j].peopled
  BY <1>1 DEF KeysInv, KeysTypeOK, KeyCardRow
<1>3. KeyMade(i)
  BY DEF KeysInv, CardIsSound, There, Fresh
<1>4. KeysTypeOK'
  BY <1>1 DEF KeysInv, KeysTypeOK
<1>5. ASSUME NEW j \in KeyIds PROVE CardIsSound(j)' /\ MakerIsSound(j)'
  <2>1. CardIsSound(j) /\ MakerIsSound(j)
    BY DEF KeysInv
  <2>2. MakerIsSound(j)'
    BY <1>2, <2>1 DEF MakerIsSound, KeyMade
  <2>3. CardIsSound(j)'
    BY <1>1, <1>2, <1>3, <2>1 DEF CardIsSound, KeyMade
  <2> QED
    BY <2>2, <2>3
<1>6. ASSUME NEW p \in KeyCalls PROVE CallIsSound(p)'
  <2>1. CallIsSound(p)
    BY DEF KeysInv
  <2>2. \A j \in KeyIds : AnswersKey(j, p) => AnswersKey(j, p)'
    BY <1>2 DEF AnswersKey, KeyMade
  <2>3. left \subseteq KeyIds
    BY DEF KeysInv, KeysTypeOK
  <2> QED
    BY <1>2, <2>1, <2>2, <2>3 DEF CallIsSound
<1>7. OneCardEach'
  BY <1>2 DEF KeysInv, OneCardEach, KeyMade
<1> QED
  BY <1>4, <1>5, <1>6, <1>7 DEF KeysInv

(* A stop cuts the calls under way; what they made stays as it is.            *)
LEMMA StopKeeps == ASSUME KeysInv, StopServer PROVE KeysInv'
<1>1. /\ UNCHANGED <<keyed, left>>
      /\ call' = [p \in KeyCalls |-> IF UnderWay(p) THEN [call[p] EXCEPT !.step = "cut"] ELSE call[p]]
  BY DEF StopServer
<1>2. ASSUME NEW p \in KeyCalls
      PROVE  /\ call'[p] \in KeyCallState
             /\ call'[p].column = call[p].column /\ call'[p].key = call[p].key /\ call'[p].card = call[p].card
             /\ call'[p].step = IF UnderWay(p) THEN "cut" ELSE call[p].step
  BY <1>1 DEF KeysInv, KeysTypeOK, KeyCallState, KeySteps
<1>3. KeysTypeOK'
  BY <1>1, <1>2 DEF KeysInv, KeysTypeOK
<1>4. ASSUME NEW i \in KeyIds PROVE CardIsSound(i)' /\ MakerIsSound(i)'
  <2>1. CardIsSound(i) /\ MakerIsSound(i) /\ (KeyMade(i) => keyed[i].by \in KeyCalls)
    BY DEF KeysInv, KeysTypeOK, KeyCardRow, KeyMade
  <2>2. CardIsSound(i)'
    BY <1>1, <2>1 DEF CardIsSound, KeyMade
  <2>3. MakerIsSound(i)'
    BY <1>1, <1>2, <2>1 DEF MakerIsSound, KeyMade, UnderWay
  <2> QED
    BY <2>2, <2>3
<1>5. ASSUME NEW p \in KeyCalls PROVE CallIsSound(p)'
  <2>1. CallIsSound(p)
    BY DEF KeysInv
  <2>2. CASE UnderWay(p)
    BY <1>2, <2>2 DEF CallIsSound
  <2>3. CASE ~UnderWay(p)
    <3>1. \A i \in KeyIds : AnswersKey(i, p) => AnswersKey(i, p)'
      BY <1>1, <1>2 DEF AnswersKey, KeyMade
    <3> QED
      BY <1>1, <1>2, <2>1, <2>3, <3>1 DEF CallIsSound
  <2> QED
    BY <2>2, <2>3
<1>6. OneCardEach'
  BY <1>1 DEF KeysInv, OneCardEach, KeyMade
<1> QED
  BY <1>3, <1>4, <1>5, <1>6 DEF KeysInv

LEMMA KeysStep == KeysInv /\ [KeysNext]_keyVars => KeysInv'
<1> SUFFICES ASSUME KeysInv, [KeysNext]_keyVars PROVE KeysInv'
  OBVIOUS
<1>1. ASSUME NEW p \in KeyCalls, NEW a \in KeyColumns, NEW k \in Keys, Ask(p, a, k) PROVE KeysInv'
  BY <1>1, AskKeeps
<1>2. ASSUME NEW p \in KeyCalls, LookForKey(p) \/ LookAgain(p) PROVE KeysInv'
  BY <1>2, LookKeeps
<1>3. ASSUME NEW p \in KeyCalls, InsertKeyed(p) PROVE KeysInv'
  BY <1>3, InsertKeeps
<1>4. ASSUME NEW p \in KeyCalls, PutPeople(p) PROVE KeysInv'
  BY <1>4, PeopleKeeps
<1>5. ASSUME NEW p \in KeyCalls, TellOfCard(p) PROVE KeysInv'
  BY <1>5, TellKeeps
<1>6. ASSUME NEW i \in KeyIds, DropKeyed(i) PROVE KeysInv'
  BY <1>6, LeavingKeeps DEF DropKeyed
<1>7. ASSUME NEW i \in KeyIds, NEW a \in KeyColumns, ShiftCard(i, a) PROVE KeysInv'
  BY <1>7, LeavingKeeps DEF ShiftCard
<1>8. CASE StopServer
  BY <1>8, StopKeeps
<1>9. CASE UNCHANGED keyVars
  BY <1>9 DEF keyVars, KeysInv, KeysTypeOK, CardIsSound, MakerIsSound, CallIsSound, AnswersKey, OneCardEach, KeyMade
<1> QED
  BY <1>1, <1>2, <1>3, <1>4, <1>5, <1>6, <1>7, <1>8, <1>9 DEF KeysNext

LEMMA KeysInvariant == KeysSpec => []KeysInv
  BY KeysInitInv, KeysStep, PTL DEF KeysSpec

(* However calls with one key overlap, fail and are cut off: one card each,   *)
(* the right answer to everybody, nobody refused for nothing, and when all    *)
(* calls ended by themselves every card has its people and one announcement   *)
(* (createCard with an idempotencyKey).                                       *)
THEOREM RepeatedCallsAreSafe == KeysSpec => []RetryIsSafe
<1>1. KeysInv => RetryIsSafe
  <2> SUFFICES ASSUME KeysInv PROVE RetryIsSafe
    OBVIOUS
  <2>1. \A i, j \in KeyIds :
          (KeyMade(i) /\ KeyMade(j) /\ keyed[i].for = keyed[j].for /\ keyed[i].key = keyed[j].key)
            => i = j \/ i \in left \/ j \in left
    BY DEF KeysInv, OneCardEach
  <2>2. \A p \in KeyCalls :
          /\ call[p].step \in {"found", "made"} =>
               LET i == call[p].card
               IN keyed[i].key = call[p].key /\ (keyed[i].for = call[p].column \/ i \in left)
          /\ call[p].step = "failed" => \E i \in left : keyed[i].key = call[p].key
    BY DEF KeysInv, CallIsSound, AnswersKey
  <2>3. ASSUME NEW i \in KeyIds
        PROVE  /\ keyed[i].told <= 1
               /\ (\A p \in KeyCalls : ~UnderWay(p) /\ call[p].step # "cut") =>
                    (KeyMade(i) => Whole(i) \/ i \in left)
    <3>1. CASE ~KeyMade(i)
      BY <3>1 DEF KeysInv, CardIsSound, Fresh
    <3>2. CASE KeyMade(i)
      <4>1. MakerIsSound(i) /\ keyed[i].by \in KeyCalls
        BY <3>2 DEF KeysInv, KeysTypeOK, KeyCardRow, KeyMade
      <4> QED
        BY <3>2, <4>1 DEF MakerIsSound, UnderWay, Whole
    <3> QED
      BY <3>1, <3>2
  <2> QED
    BY <2>1, <2>2, <2>3 DEF RetryIsSafe
<1> QED
  BY <1>1, KeysInvariant, PTL

-----------------------------------------------------------------------------
(* Webhooks, for every set of people, subscriptions and events.               *)

Hook == [id : Nat, user : HookPeople, own : BOOLEAN]
Reasons == {"public", "invited"}
DispatchState ==
  [by : HookPeople \union {Nobody}, step : {"none", "hooks", "board", "access", "over"},
   status : {"private", "public", "gone"}, ask : SUBSET Hook, to : SUBSET Hook,
   could : SUBSET HookPeople, sure : SUBSET (Hook \X Reasons)]

HooksTypeOK ==
  /\ seenBy \in {"private", "public", "gone"} /\ guests \subseteq HookPeople
  /\ hooks \subseteq Hook /\ hooksMade \in Nat
  /\ subscribing \in [HookPeople -> [step : {"none", "insert"}, own : BOOLEAN]]
  /\ dispatch \in [HookEvents -> DispatchState]
  /\ sent \subseteq HookEvents \X Hook

(* While a dispatch runs, those who may read the board now are among those    *)
(* who could, and what is surely owed is there and still allowed.             *)
KeepsUp(d) ==
  Running(d) =>
    /\ guests \union {HookOwner} \subseteq d.could
    /\ seenBy = "public" => HookPeople \subseteq d.could
    /\ \A s \in d.sure : s[1] \in hooks /\ Because(s[2], s[1].user, seenBy, guests)

(* What is still to be asked for and to be sent is nobody's own; the board    *)
(* may have changed since its status was read, but whoever that status lets   *)
(* in could read it then.                                                     *)
AsksRightly(d) ==
  /\ d.step \in {"hooks", "board"} => d.to = {}
  /\ d.step \in {"board", "access"} => \A h \in d.ask : ~Owns(h, d)
  /\ d.step = "access" =>
       /\ d.status # "gone"
       /\ d.status = "public" => HookPeople \subseteq d.could
       /\ \A h \in d.to : h.user \in d.could /\ ~Owns(h, d)
       /\ \A s \in d.sure : s[2] = "public" => d.status = "public"

(* What is surely owed is still to be asked for, or to be sent, or sent.      *)
Owed(d, h) ==
  \/ d.step \in {"board", "access"} /\ h \in d.ask
  \/ d.step = "access" /\ h \in d.to
ForgetsNobody(e, d) ==
  d.step \in {"board", "access", "over"} =>
    \A s \in d.sure : Owns(s[1], d) \/ Owed(d, s[1]) \/ <<e, s[1]>> \in sent

SentRightly ==
  \A m \in sent : LET d == dispatch[m[1]] IN
    d.step # "none" /\ m[2].user \in d.could /\ ~Owns(m[2], d)

HooksInv ==
  /\ HooksTypeOK
  /\ \A e \in HookEvents :
       KeepsUp(dispatch[e]) /\ AsksRightly(dispatch[e]) /\ ForgetsNobody(e, dispatch[e])
  /\ SentRightly

-----------------------------------------------------------------------------
(* Nothing is subscribed to and nothing dispatched at first.                  *)
LEMMA HooksInitInv == HooksInit => HooksInv
<1> SUFFICES ASSUME HooksInit PROVE HooksInv
  OBVIOUS
<1>1. NoDispatch \in DispatchState /\ NoDispatch.step = "none"
  BY DEF NoDispatch, DispatchState
<1>2. HooksTypeOK
  BY <1>1 DEF HooksInit, HooksTypeOK, NoRequest
<1>3. \A e \in HookEvents : dispatch[e].step = "none"
  BY <1>1 DEF HooksInit
<1>4. sent = {}
  BY DEF HooksInit
<1> QED
  BY <1>2, <1>3, <1>4 DEF HooksInv, KeepsUp, Running, AsksRightly, ForgetsNobody, SentRightly

(* What happens to the board is noted in the dispatches that run.             *)
LEMMA NoteWrites ==
  ASSUME HooksTypeOK, NEW status \in {"private", "public", "gone"}, NEW invited \in SUBSET HookPeople,
         NEW rows, Note(status, invited, rows), NEW e \in HookEvents
  PROVE  LET d == dispatch[e]  n == dispatch'[e]
         IN /\ n \in DispatchState
            /\ n.by = d.by /\ n.step = d.step /\ n.status = d.status /\ n.ask = d.ask /\ n.to = d.to
            /\ d.could \subseteq n.could /\ n.sure \subseteq d.sure
            /\ ~Running(d) => n = d
            /\ Running(d) =>
                 /\ \A u \in HookPeople : Allowed(u, status, invited) => u \in n.could
                 /\ \A s \in n.sure : s[1] \in rows /\ Because(s[2], s[1].user, status, invited)
<1> DEFINE d == dispatch[e]
<1>1. d \in DispatchState
  BY DEF HooksTypeOK
<1>2. CASE ~Running(d)
  BY <1>1, <1>2 DEF Note
<1>3. CASE Running(d)
  <2>1. PICK could : could = {u \in HookPeople : Allowed(u, status, invited)}
    OBVIOUS
  <2>2. PICK sure : sure = {s \in d.sure : s[1] \in rows /\ Because(s[2], s[1].user, status, invited)}
    OBVIOUS
  <2>3. dispatch'[e] = [d EXCEPT !.could = d.could \union could, !.sure = sure]
    BY <1>3, <2>1, <2>2 DEF Note
  <2>4. could \subseteq HookPeople /\ sure \subseteq d.sure
    BY <2>1, <2>2
  <2>5. PICK f \in DispatchState : f = d
    BY <1>1
  <2>6. PICK n : n = [f EXCEPT !.could = f.could \union could, !.sure = sure]
    OBVIOUS
  <2>7. /\ n \in DispatchState /\ n.could = f.could \union could /\ n.sure = sure
        /\ n.by = f.by /\ n.step = f.step /\ n.status = f.status /\ n.ask = f.ask /\ n.to = f.to
    BY <2>4, <2>5, <2>6 DEF DispatchState
  <2>8. dispatch'[e] = n
    BY <2>3, <2>5, <2>6
  <2> QED
    BY <1>3, <2>1, <2>2, <2>4, <2>5, <2>7, <2>8
<1> QED
  BY <1>2, <1>3

(* Whatever happens to the board: nobody gets in once it is gone.             *)
LEMMA BoardChanges ==
  ASSUME HooksInv, NEW status \in {"private", "public", "gone"}, NEW invited \in SUBSET HookPeople,
         NEW rows \in SUBSET Hook, Note(status, invited, rows),
         seenBy' = status, guests' = invited, hooks' = rows,
         invited \subseteq guests \/ status # "gone",
         hooksMade' = hooksMade, subscribing' = subscribing, sent' = sent
  PROVE  HooksInv'
<1>0. HooksTypeOK
  BY DEF HooksInv
<1>1. HooksTypeOK'
  <2>1. dispatch' \in [HookEvents -> DispatchState]
    <3>1. \A e \in HookEvents : dispatch'[e] \in DispatchState
      BY <1>0, NoteWrites
    <3>2. DOMAIN dispatch' = HookEvents /\ dispatch' = [e \in HookEvents |-> dispatch'[e]]
      BY DEF Note
    <3> QED
      BY <3>1, <3>2
  <2> QED
    BY <1>0, <2>1 DEF HooksTypeOK
<1>2. ASSUME NEW e \in HookEvents
      PROVE  (KeepsUp(dispatch[e]) /\ AsksRightly(dispatch[e]) /\ ForgetsNobody(e, dispatch[e]))'
  <2>1. PICK d : d = dispatch[e]
    OBVIOUS
  <2>2. PICK n : n = dispatch'[e]
    OBVIOUS
  <2>3. KeepsUp(d) /\ AsksRightly(d) /\ ForgetsNobody(e, d)
    BY <2>1 DEF HooksInv
  <2>4. /\ n.by = d.by /\ n.step = d.step /\ n.status = d.status /\ n.ask = d.ask /\ n.to = d.to
        /\ d.could \subseteq n.could /\ n.sure \subseteq d.sure
        /\ Running(d) =>
             /\ \A u \in HookPeople : Allowed(u, status, invited) => u \in n.could
             /\ \A s \in n.sure : s[1] \in rows /\ Because(s[2], s[1].user, status, invited)
    BY <1>0, <2>1, <2>2, NoteWrites
  <2>5. KeepsUp(n)'
    <3> SUFFICES ASSUME Running(d)
                 PROVE  /\ invited \union {HookOwner} \subseteq n.could
                        /\ status = "public" => HookPeople \subseteq n.could
                        /\ \A s \in n.sure : s[1] \in rows /\ Because(s[2], s[1].user, status, invited)
      BY <2>4 DEF KeepsUp, Running, Because
    <3>1. CASE status = "gone"
      <4>1. guests \union {HookOwner} \subseteq d.could
        BY <2>3 DEF KeepsUp
      <4> QED
        BY <2>4, <3>1, <4>1
    <3>2. CASE status # "gone"
      BY <2>4, <3>2, HooksAssumption DEF Allowed, Because
    <3> QED
      BY <3>1, <3>2
  <2>6. AsksRightly(n)'
    BY <2>3, <2>4 DEF AsksRightly, Owns
  <2>7. ForgetsNobody(e, n)'
    BY <2>3, <2>4 DEF ForgetsNobody, Owed, Owns
  <2> QED
    BY <2>2, <2>5, <2>6, <2>7 DEF KeepsUp, AsksRightly, ForgetsNobody, Running, Owed
<1>3. SentRightly'
  <2> SUFFICES ASSUME NEW m \in sent
               PROVE  /\ dispatch'[m[1]].step # "none" /\ m[2].user \in dispatch'[m[1]].could
                      /\ ~Owns(m[2], dispatch'[m[1]])
    BY DEF SentRightly
  <2>1. m[1] \in HookEvents
    BY <1>0 DEF HooksTypeOK
  <2>2. /\ dispatch[m[1]].step # "none" /\ m[2].user \in dispatch[m[1]].could
        /\ ~Owns(m[2], dispatch[m[1]])
    BY DEF HooksInv, SentRightly
  <2>3. /\ dispatch'[m[1]].by = dispatch[m[1]].by /\ dispatch'[m[1]].step = dispatch[m[1]].step
        /\ dispatch[m[1]].could \subseteq dispatch'[m[1]].could
    BY <1>0, <2>1, NoteWrites
  <2> QED
    BY <2>2, <2>3 DEF Owns
<1> QED
  BY <1>1, <1>2, <1>3 DEF HooksInv

(* A step of one dispatch leaves the others alone.                            *)
LEMMA DispatchGoesOn ==
  ASSUME HooksInv, NEW e \in HookEvents, NEW d \in DispatchState, Step(e, d),
         UNCHANGED <<seenBy, guests, hooks, hooksMade, subscribing>>,
         KeepsUp(d), AsksRightly(d), ForgetsNobody(e, d)',
         sent' = sent \/ \E h \in Hook : sent' = sent \union {<<e, h>>},
         \A m \in sent' : m[1] = e => d.step # "none" /\ m[2].user \in d.could /\ ~Owns(m[2], d)
  PROVE  HooksInv'
<1>0. HooksTypeOK
  BY DEF HooksInv
<1>1. dispatch'[e] = d /\ \A f \in HookEvents \ {e} : dispatch'[f] = dispatch[f]
  BY <1>0 DEF Step, HooksTypeOK
<1>2. HooksTypeOK'
  BY <1>0 DEF Step, HooksTypeOK
<1>3. ASSUME NEW f \in HookEvents
      PROVE  (KeepsUp(dispatch[f]) /\ AsksRightly(dispatch[f]) /\ ForgetsNobody(f, dispatch[f]))'
  <2>1. CASE f = e
    BY <1>1, <2>1 DEF KeepsUp, AsksRightly, ForgetsNobody, Running, Owed, Because
  <2>2. CASE f # e
    <3>1. dispatch'[f] = dispatch[f]
      BY <1>1, <2>2
    <3>2. KeepsUp(dispatch[f]) /\ AsksRightly(dispatch[f]) /\ ForgetsNobody(f, dispatch[f])
      BY DEF HooksInv
    <3> QED
      BY <3>1, <3>2 DEF KeepsUp, AsksRightly, ForgetsNobody, Running, Owed, Because
  <2> QED
    BY <2>1, <2>2
<1>4. SentRightly'
  <2> SUFFICES ASSUME NEW m \in sent'
               PROVE  /\ dispatch'[m[1]].step # "none" /\ m[2].user \in dispatch'[m[1]].could
                      /\ ~Owns(m[2], dispatch'[m[1]])
    BY DEF SentRightly
  <2>1. CASE m[1] = e
    BY <1>1, <2>1
  <2>2. CASE m[1] # e
    <3>1. m \in sent /\ m[1] \in HookEvents
      BY <1>0, <2>2 DEF HooksTypeOK
    <3>2. dispatch'[m[1]] = dispatch[m[1]]
      BY <1>1, <2>2, <3>1
    <3> QED
      BY <3>1, <3>2 DEF HooksInv, SentRightly
  <2> QED
    BY <2>1, <2>2
<1> QED
  BY <1>2, <1>3, <1>4 DEF HooksInv

-----------------------------------------------------------------------------
(* Subscribing: a subscription more is owed to nobody under way.              *)
LEMMA SubscribingKeeps ==
  ASSUME HooksInv, NEW u \in HookPeople, InsertHook(u) \/ \E own \in BOOLEAN : AskForHook(u, own)
  PROVE  HooksInv'
<1>0. HooksTypeOK
  BY DEF HooksInv
<1>1. HooksTypeOK' /\ hooks \subseteq hooks' /\ UNCHANGED <<seenBy, guests, dispatch, sent>>
  <2>1. CASE InsertHook(u)
    <3>1. PICK h : h = [id |-> hooksMade + 1, user |-> u, own |-> subscribing[u].own]
      OBVIOUS
    <3>2. h \in Hook
      BY <1>0, <3>1 DEF HooksTypeOK, Hook
    <3>3. hooks' = hooks \union {h} /\ hooksMade' = hooksMade + 1
          /\ subscribing' = [subscribing EXCEPT ![u] = NoRequest]
      BY <2>1, <3>1 DEF InsertHook
    <3> QED
      BY <1>0, <2>1, <3>2, <3>3 DEF InsertHook, HooksTypeOK, NoRequest
  <2>2. CASE \E own \in BOOLEAN : AskForHook(u, own)
    BY <1>0, <2>2 DEF AskForHook, HooksTypeOK
  <2> QED
    BY <2>1, <2>2
<1>2. ASSUME NEW e \in HookEvents
      PROVE  (KeepsUp(dispatch[e]) /\ AsksRightly(dispatch[e]) /\ ForgetsNobody(e, dispatch[e]))'
  <2>1. KeepsUp(dispatch[e]) /\ AsksRightly(dispatch[e]) /\ ForgetsNobody(e, dispatch[e])
    BY DEF HooksInv
  <2> QED
    BY <1>1, <2>1 DEF KeepsUp, AsksRightly, ForgetsNobody, Running, Owed, Because
<1>3. SentRightly'
  BY <1>1 DEF HooksInv, SentRightly
<1> QED
  BY <1>1, <1>2, <1>3 DEF HooksInv

(* The dispatch, step by step.                                                *)
LEMMA HappenKeeps ==
  ASSUME HooksInv, NEW e \in HookEvents, NEW u \in HookPeople, Happen(e, u)
  PROVE  HooksInv'
<1>0. HooksTypeOK
  BY DEF HooksInv
<1>1. PICK could : could = {v \in HookPeople : MayRead(v, seenBy)}
  OBVIOUS
<1>2. PICK sure : sure = {s \in hooks \X {"public", "invited"} : Because(s[2], s[1].user, seenBy, guests)}
  OBVIOUS
<1>3. PICK d : d = [NoDispatch EXCEPT !.by = u, !.step = "hooks", !.could = could, !.sure = sure]
  OBVIOUS
<1>4. sure \in SUBSET (Hook \X Reasons) /\ could \in SUBSET HookPeople
  BY <1>0, <1>1, <1>2 DEF HooksTypeOK, Reasons
<1>5. /\ d \in DispatchState /\ d.step = "hooks" /\ d.could = could /\ d.sure = sure /\ d.to = {}
  BY <1>3, <1>4 DEF NoDispatch, DispatchState
<1>6. KeepsUp(d)
  <2>1. seenBy # "gone"
    BY DEF Happen
  <2>2. guests \union {HookOwner} \subseteq could
    BY <1>0, <1>1, <2>1, HooksAssumption DEF HooksTypeOK, MayRead, Allowed, Because
  <2>3. seenBy = "public" => HookPeople \subseteq could
    BY <1>1, <2>1 DEF MayRead, Allowed, Because
  <2>4. \A s \in sure : s[1] \in hooks /\ Because(s[2], s[1].user, seenBy, guests)
    BY <1>2
  <2> QED
    BY <1>5, <2>2, <2>3, <2>4 DEF KeepsUp
<1>7. AsksRightly(d) /\ ForgetsNobody(e, d)'
  BY <1>5 DEF AsksRightly, ForgetsNobody
<1>8. \A m \in sent : m[1] # e
  BY DEF Happen, HooksInv, SentRightly
<1>9. Step(e, d) /\ UNCHANGED <<seenBy, guests, hooks, hooksMade, subscribing, sent>>
  BY <1>1, <1>2, <1>3 DEF Happen
<1> QED
  BY <1>5, <1>6, <1>7, <1>8, <1>9, DispatchGoesOn

LEMMA SubscriptionsKeep ==
  ASSUME HooksInv, NEW e \in HookEvents, ReadSubscriptions(e)
  PROVE  HooksInv'
<1>0. HooksTypeOK /\ KeepsUp(dispatch[e]) /\ AsksRightly(dispatch[e]) /\ dispatch[e].step = "hooks"
  BY DEF HooksInv, ReadSubscriptions
<1>1. PICK c : c = {h \in hooks : ~Owns(h, dispatch[e])}
  OBVIOUS
<1>2. PICK o : o = dispatch[e]
  OBVIOUS
<1>3. o \in DispatchState /\ c \in SUBSET Hook
  BY <1>0, <1>1, <1>2 DEF HooksTypeOK
<1>4. PICK d : d = IF c = {} THEN [o EXCEPT !.step = "over"] ELSE [o EXCEPT !.step = "board", !.ask = c]
  OBVIOUS
<1>5. /\ d \in DispatchState /\ d.by = o.by /\ d.could = o.could /\ d.sure = o.sure /\ d.to = o.to
      /\ c = {} => d.step = "over"
      /\ c # {} => d.step = "board" /\ d.ask = c
  BY <1>3, <1>4 DEF DispatchState
<1>6. Step(e, d) /\ UNCHANGED <<seenBy, guests, hooks, hooksMade, subscribing, sent>>
  BY <1>1, <1>2, <1>4 DEF ReadSubscriptions
<1>7. \A s \in d.sure : Owns(s[1], d) \/ s[1] \in c
  BY <1>0, <1>1, <1>2, <1>5 DEF KeepsUp, Running, Owns
<1>8. KeepsUp(d)
  BY <1>0, <1>2, <1>5 DEF KeepsUp, Running
<1>9. AsksRightly(d)
  BY <1>0, <1>1, <1>2, <1>5 DEF AsksRightly, Owns
<1>10. ForgetsNobody(e, d)'
  BY <1>5, <1>7 DEF ForgetsNobody, Owed
<1>11. \A m \in sent : m[1] = e => d.step # "none" /\ m[2].user \in d.could /\ ~Owns(m[2], d)
  BY <1>2, <1>5 DEF HooksInv, SentRightly, Owns
<1> QED
  BY <1>5, <1>6, <1>8, <1>9, <1>10, <1>11, DispatchGoesOn

LEMMA BoardReadKeeps ==
  ASSUME HooksInv, NEW e \in HookEvents, ReadTheBoard(e)
  PROVE  HooksInv'
<1>0. /\ HooksTypeOK /\ KeepsUp(dispatch[e]) /\ AsksRightly(dispatch[e]) /\ ForgetsNobody(e, dispatch[e])
      /\ dispatch[e].step = "board"
  BY DEF HooksInv, ReadTheBoard
<1>1. PICK o : o = dispatch[e]
  OBVIOUS
<1>2. o \in DispatchState
  BY <1>0, <1>1 DEF HooksTypeOK
<1>3. PICK d : d = IF seenBy = "gone" THEN [o EXCEPT !.step = "over"]
                   ELSE [o EXCEPT !.step = "access", !.status = seenBy]
  OBVIOUS
<1>4. /\ d \in DispatchState /\ d.by = o.by /\ d.could = o.could /\ d.sure = o.sure /\ d.to = o.to /\ d.ask = o.ask
      /\ seenBy = "gone" => d.step = "over"
      /\ seenBy # "gone" => d.step = "access" /\ d.status = seenBy
  BY <1>0, <1>2, <1>3 DEF DispatchState, HooksTypeOK
<1>5. Step(e, d) /\ UNCHANGED <<seenBy, guests, hooks, hooksMade, subscribing, sent>>
  BY <1>1, <1>3 DEF ReadTheBoard
<1>6. /\ guests \union {HookOwner} \subseteq o.could
      /\ seenBy = "public" => HookPeople \subseteq o.could
      /\ \A s \in o.sure : s[1] \in hooks /\ Because(s[2], s[1].user, seenBy, guests)
  BY <1>0, <1>1 DEF KeepsUp, Running
<1>7. /\ seenBy = "gone" => o.sure = {}
      /\ \A s \in o.sure : s[2] = "public" => seenBy = "public"
  BY <1>6 DEF Because
<1>8. KeepsUp(d)
  BY <1>4, <1>6 DEF KeepsUp, Running
<1>9. AsksRightly(d)
  BY <1>0, <1>1, <1>4, <1>6, <1>7 DEF AsksRightly, Owns
<1>10. ForgetsNobody(e, d)'
  BY <1>0, <1>1, <1>4, <1>5, <1>7 DEF ForgetsNobody, Owed, Owns
<1>11. \A m \in sent : m[1] = e => d.step # "none" /\ m[2].user \in d.could /\ ~Owns(m[2], d)
  BY <1>1, <1>4 DEF HooksInv, SentRightly, Owns
<1> QED
  BY <1>4, <1>5, <1>8, <1>9, <1>10, <1>11, DispatchGoesOn

LEMMA AccessKeeps ==
  ASSUME HooksInv, NEW e \in HookEvents, NEW h \in dispatch[e].ask, AskAccess(e, h)
  PROVE  HooksInv'
<1>0. /\ HooksTypeOK /\ KeepsUp(dispatch[e]) /\ AsksRightly(dispatch[e]) /\ ForgetsNobody(e, dispatch[e])
      /\ dispatch[e].step = "access"
  BY DEF HooksInv, AskAccess
<1>1. PICK o : o = dispatch[e]
  OBVIOUS
<1>2. o \in DispatchState /\ h \in o.ask /\ h \in Hook
  BY <1>0, <1>1 DEF HooksTypeOK, DispatchState
<1>3. PICK to : to = IF MayRead(h.user, o.status) THEN o.to \union {h} ELSE o.to
  OBVIOUS
<1>4. PICK d : d = [o EXCEPT !.ask = o.ask \ {h}, !.to = to]
  OBVIOUS
<1>5. /\ d \in DispatchState /\ d.by = o.by /\ d.could = o.could /\ d.sure = o.sure /\ d.step = "access"
      /\ d.status = o.status /\ d.ask = o.ask \ {h} /\ d.to = to
  BY <1>0, <1>1, <1>2, <1>3, <1>4 DEF DispatchState
<1>6. Step(e, d) /\ UNCHANGED <<seenBy, guests, hooks, hooksMade, subscribing, sent>>
  BY <1>1, <1>3, <1>4 DEF AskAccess
<1>7. h.user \in HookPeople
  BY <1>2 DEF Hook
<1>8. MayRead(h.user, o.status) => h.user \in o.could
  BY <1>0, <1>1, <1>7 DEF MayRead, Allowed, Because, KeepsUp, Running, AsksRightly
<1>9. \A s \in o.sure : s[1] = h => MayRead(h.user, o.status)
  <2> SUFFICES ASSUME NEW s \in o.sure, s[1] = h PROVE MayRead(h.user, o.status)
    OBVIOUS
  <2>1. Because(s[2], h.user, seenBy, guests) /\ (s[2] = "public" => o.status = "public") /\ o.status # "gone"
    BY <1>0, <1>1 DEF KeepsUp, Running, AsksRightly
  <2>2. s[2] \in {"public", "invited"}
    BY <1>2 DEF DispatchState, Reasons
  <2> QED
    BY <2>1, <2>2 DEF MayRead, Allowed, Because
<1>10. KeepsUp(d)
  BY <1>0, <1>1, <1>5 DEF KeepsUp, Running
<1>11. AsksRightly(d)
  BY <1>0, <1>1, <1>2, <1>3, <1>5, <1>8 DEF AsksRightly, Owns
<1>12. ForgetsNobody(e, d)'
  <2> SUFFICES ASSUME NEW s \in o.sure PROVE Owns(s[1], d) \/ Owed(d, s[1]) \/ <<e, s[1]>> \in sent
    BY <1>5, <1>6 DEF ForgetsNobody, Owns, Owed
  <2>1. Owns(s[1], o) \/ s[1] \in o.ask \/ s[1] \in o.to \/ <<e, s[1]>> \in sent
    BY <1>0, <1>1 DEF ForgetsNobody, Owed
  <2>2. s[1] \in o.ask \/ s[1] \in o.to => s[1] \in d.ask \/ s[1] \in d.to
    BY <1>3, <1>5, <1>9
  <2> QED
    BY <1>5, <2>1, <2>2 DEF Owns, Owed
<1>13. \A m \in sent : m[1] = e => d.step # "none" /\ m[2].user \in d.could /\ ~Owns(m[2], d)
  BY <1>1, <1>5 DEF HooksInv, SentRightly, Owns
<1> QED
  BY <1>5, <1>6, <1>10, <1>11, <1>12, <1>13, DispatchGoesOn

LEMMA DeliverKeeps ==
  ASSUME HooksInv, NEW e \in HookEvents, NEW h \in dispatch[e].to, Deliver(e, h)
  PROVE  HooksInv'
<1>0. /\ HooksTypeOK /\ KeepsUp(dispatch[e]) /\ AsksRightly(dispatch[e]) /\ ForgetsNobody(e, dispatch[e])
      /\ dispatch[e].step = "access"
  BY DEF HooksInv, Deliver
<1>1. PICK o : o = dispatch[e]
  OBVIOUS
<1>2. o \in DispatchState /\ h \in o.to /\ h \in Hook
  BY <1>0, <1>1 DEF HooksTypeOK, DispatchState
<1>3. PICK d : d = [o EXCEPT !.to = o.to \ {h}]
  OBVIOUS
<1>4. /\ d \in DispatchState /\ d.by = o.by /\ d.could = o.could /\ d.sure = o.sure /\ d.step = "access"
      /\ d.status = o.status /\ d.ask = o.ask /\ d.to = o.to \ {h}
  BY <1>0, <1>1, <1>2, <1>3 DEF DispatchState
<1>5. /\ Step(e, d) /\ UNCHANGED <<seenBy, guests, hooks, hooksMade, subscribing>>
      /\ sent' = sent \union {<<e, h>>}
  BY <1>1, <1>3 DEF Deliver
<1>6. KeepsUp(d) /\ AsksRightly(d)
  BY <1>0, <1>1, <1>4 DEF KeepsUp, Running, AsksRightly, Owns
<1>7. ForgetsNobody(e, d)'
  <2> SUFFICES ASSUME NEW s \in o.sure PROVE Owns(s[1], d) \/ Owed(d, s[1]) \/ <<e, s[1]>> \in sent'
    BY <1>4 DEF ForgetsNobody, Owns, Owed
  <2>1. Owns(s[1], o) \/ s[1] \in o.ask \/ s[1] \in o.to \/ <<e, s[1]>> \in sent
    BY <1>0, <1>1 DEF ForgetsNobody, Owed
  <2> QED
    BY <1>4, <1>5, <2>1 DEF Owns, Owed
<1>8. \A m \in sent' : m[1] = e => d.step # "none" /\ m[2].user \in d.could /\ ~Owns(m[2], d)
  BY <1>0, <1>1, <1>2, <1>4, <1>5 DEF HooksInv, SentRightly, Owns, AsksRightly
<1> QED
  BY <1>2, <1>4, <1>5, <1>6, <1>7, <1>8, DispatchGoesOn

LEMMA OverKeeps ==
  ASSUME HooksInv, NEW e \in HookEvents, AllSent(e)
  PROVE  HooksInv'
<1>0. /\ HooksTypeOK /\ KeepsUp(dispatch[e]) /\ ForgetsNobody(e, dispatch[e])
      /\ dispatch[e].step = "access" /\ dispatch[e].ask = {} /\ dispatch[e].to = {}
  BY DEF HooksInv, AllSent
<1>1. PICK o : o = dispatch[e]
  OBVIOUS
<1>2. PICK d : d = [o EXCEPT !.step = "over"]
  OBVIOUS
<1>3. d \in DispatchState /\ d.by = o.by /\ d.could = o.could /\ d.sure = o.sure /\ d.step = "over"
  BY <1>0, <1>1, <1>2 DEF DispatchState, HooksTypeOK
<1>4. Step(e, d) /\ UNCHANGED <<seenBy, guests, hooks, hooksMade, subscribing, sent>>
  BY <1>1, <1>2 DEF AllSent
<1>5. KeepsUp(d) /\ AsksRightly(d)
  BY <1>3 DEF KeepsUp, Running, AsksRightly
<1>6. ForgetsNobody(e, d)'
  BY <1>0, <1>1, <1>3, <1>4 DEF ForgetsNobody, Owns, Owed
<1>7. \A m \in sent : m[1] = e => d.step # "none" /\ m[2].user \in d.could /\ ~Owns(m[2], d)
  BY <1>1, <1>3 DEF HooksInv, SentRightly, Owns
<1> QED
  BY <1>3, <1>4, <1>5, <1>6, <1>7, DispatchGoesOn

-----------------------------------------------------------------------------
(* Every step keeps the inductive invariant.                                  *)
LEMMA HooksStep == HooksInv /\ [HooksNext]_hookVars => HooksInv'
<1> SUFFICES ASSUME HooksInv, [HooksNext]_hookVars PROVE HooksInv'
  OBVIOUS
<1>0. HooksTypeOK
  BY DEF HooksInv
<1>1. ASSUME NEW u \in HookPeople, InsertHook(u) \/ \E own \in BOOLEAN : AskForHook(u, own) PROVE HooksInv'
  BY <1>1, SubscribingKeeps
<1>2. ASSUME NEW u \in HookPeople, NEW h \in hooks, RemoveHook(u, h) PROVE HooksInv'
  BY <1>0, <1>2, BoardChanges DEF RemoveHook, HooksTypeOK
<1>3. ASSUME NEW u \in HookPeople, Invite(u) PROVE HooksInv'
  BY <1>0, <1>3, BoardChanges DEF Invite, BoardAct, HooksTypeOK
<1>4. ASSUME NEW u \in HookPeople, RemoveGuest(u) PROVE HooksInv'
  BY <1>0, <1>4, BoardChanges DEF RemoveGuest, HooksTypeOK
<1>5. ASSUME NEW u \in HookPeople, RemoveTheirHooks(u) PROVE HooksInv'
  BY <1>0, <1>5, BoardChanges DEF RemoveTheirHooks, HooksTypeOK
<1>6. CASE ChangeStatus
  <2>1. PICK status \in {"private", "public"} : status = IF seenBy = "public" THEN "private" ELSE "public"
    OBVIOUS
  <2>2. Note(status, guests, hooks) /\ seenBy' = status
    BY <1>6, <2>1 DEF ChangeStatus
  <2> QED
    BY <1>0, <1>6, <2>2, BoardChanges DEF ChangeStatus, HooksTypeOK
<1>7. CASE DestroyRows
  BY <1>0, <1>7, BoardChanges DEF DestroyRows, HooksTypeOK
<1>8. CASE DestroyHookedBoard
  BY <1>0, <1>8, BoardChanges DEF DestroyHookedBoard, HooksTypeOK
<1>9. ASSUME NEW e \in HookEvents, NEW u \in HookPeople, Happen(e, u) PROVE HooksInv'
  BY <1>9, HappenKeeps
<1>10. ASSUME NEW e \in HookEvents, ReadSubscriptions(e) PROVE HooksInv'
  BY <1>10, SubscriptionsKeep
<1>11. ASSUME NEW e \in HookEvents, ReadTheBoard(e) PROVE HooksInv'
  BY <1>11, BoardReadKeeps
<1>12. ASSUME NEW e \in HookEvents, NEW h \in dispatch[e].ask, AskAccess(e, h) PROVE HooksInv'
  BY <1>12, AccessKeeps
<1>13. ASSUME NEW e \in HookEvents, NEW h \in dispatch[e].to, Deliver(e, h) PROVE HooksInv'
  BY <1>13, DeliverKeeps
<1>14. ASSUME NEW e \in HookEvents, AllSent(e) PROVE HooksInv'
  BY <1>14, OverKeeps
<1>15. CASE UNCHANGED hookVars
  <2>1. UNCHANGED <<seenBy, guests, hooks, hooksMade, subscribing, dispatch, sent>>
    BY <1>15 DEF hookVars
  <2> QED
    BY <2>1 DEF HooksInv, HooksTypeOK, KeepsUp, AsksRightly, ForgetsNobody, SentRightly, Running, Owed, Because
<1> QED
  BY <1>1, <1>2, <1>3, <1>4, <1>5, <1>6, <1>7, <1>8, <1>9, <1>10, <1>11, <1>12, <1>13, <1>14, <1>15 DEF HooksNext

LEMMA HooksInvariant == HooksSpec => []HooksInv
  BY HooksInitInv, HooksStep, PTL DEF HooksSpec

(* However people come and go, subscribe and unsubscribe while a change is    *)
(* dispatched: only those who could read the board at some moment since the   *)
(* change are told, and all who could all the time for one reason are         *)
(* (dispatchWebhooks).                                                        *)
THEOREM HooksTellTheRight == HooksSpec => []ToldWhoMayKnow
<1>1. HooksInv => ToldWhoMayKnow
  <2> SUFFICES ASSUME HooksInv PROVE ToldWhoMayKnow
    OBVIOUS
  <2>1. \A d \in sent : d[2].user \in dispatch[d[1]].could /\ ~Owns(d[2], dispatch[d[1]])
    BY DEF HooksInv, SentRightly
  <2>2. ASSUME NEW e \in HookEvents, dispatch[e].step = "over", NEW s \in dispatch[e].sure
        PROVE  Owns(s[1], dispatch[e]) \/ <<e, s[1]>> \in sent
    BY <2>2 DEF HooksInv, ForgetsNobody, Owed
  <2> QED
    BY <2>1, <2>2 DEF ToldWhoMayKnow
<1> QED
  BY <1>1, HooksInvariant, PTL

=============================================================================
