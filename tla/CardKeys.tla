------------------------------- MODULE CardKeys --------------------------------
(* Making a card with a key that makes the call safe to repeat                *)
(* (server/mcp/tools/createCard.ts, idempotencyKey), while cards are moved    *)
(* and destroyed and servers stop.  The card is looked for, inserted, given   *)
(* its people and announced, one statement after the other; the table has a   *)
(* unique index over column and key.                                          *)

EXTENDS Naturals, FiniteSets

CONSTANTS
  KeyColumns,     \* columns of the board
  Keys,           \* keys agents give
  KeyCalls,       \* calls that may be made; an agent repeats one by another
  NoAnswer,       \* nothing found, nothing answered, no card
  MaxKeyCards,    \* bound: cards
  MaxShifts,      \* bound: cards moved or destroyed
  MaxServerStops  \* bound: times the server stops

ASSUME KeyAssumption == NoAnswer \notin KeyColumns \union KeyCalls

VARIABLES
  keyed,          \* cards that were ever made: where and what for, and what became of them
  call,           \* the calls: what is asked for, how far they are, what was answered
  left,           \* cards that were moved or destroyed
  keyBudget       \* what is left of the bounds

keyVars == <<keyed, call, left, keyBudget>>

KeyIds == 1..MaxKeyCards
Fresh == [column |-> NoAnswer, for |-> NoAnswer, by |-> NoAnswer, key |-> NoAnswer, peopled |-> FALSE, told |-> 0]
Idle == [column |-> NoAnswer, key |-> NoAnswer, step |-> "idle", card |-> NoAnswer]

KeysInit ==
  /\ keyed = [i \in KeyIds |-> Fresh] /\ call = [p \in KeyCalls |-> Idle] /\ left = {}
  /\ keyBudget = [shifts |-> MaxShifts, stops |-> MaxServerStops]

KeySpends(what) == keyBudget[what] > 0 /\ keyBudget' = [keyBudget EXCEPT ![what] = @ - 1]

KeyMade(i) == keyed[i].by # NoAnswer
There(i) == keyed[i].column # NoAnswer
Holding(p) == {i \in KeyIds : There(i) /\ keyed[i].column = call[p].column /\ keyed[i].key = call[p].key}

UnderWay(p) == call[p].step \in {"look", "insert", "refused", "people", "tell"}
CallAt(p, step) == call[p].step = step
CallGoes(p, step, i) == call' = [call EXCEPT ![p].step = step, ![p].card = i]

-----------------------------------------------------------------------------
Ask(p, a, k) ==
  /\ call[p] = Idle
  /\ call' = [call EXCEPT ![p] = [Idle EXCEPT !.column = a, !.key = k, !.step = "look"]]
  /\ UNCHANGED <<keyed, left, keyBudget>>

(* SELECT ... WHERE area = ? AND idempotencyKey = ?; a card that is found is   *)
(* the answer, whether its people are on it already or not.                   *)
LookForKey(p) ==
  /\ CallAt(p, "look")
  /\ IF Holding(p) = {} THEN CallGoes(p, "insert", NoAnswer)
     ELSE \E i \in Holding(p) : CallGoes(p, "found", i)
  /\ UNCHANGED <<keyed, left, keyBudget>>

(* The row a card gets.                                                       *)
KeyRow(p) == [column |-> call[p].column, for |-> call[p].column, by |-> p, key |-> call[p].key,
           peopled |-> FALSE, told |-> 0]

NextId(i) == ~KeyMade(i) /\ \A j \in KeyIds : j < i => KeyMade(j)

(* A slip: there is no unique index.                                          *)
InsertAnyway(p) ==
  /\ CallAt(p, "insert")
  /\ \E i \in KeyIds : NextId(i) /\ keyed' = [keyed EXCEPT ![i] = KeyRow(p)] /\ CallGoes(p, "people", i)
  /\ UNCHANGED <<left, keyBudget>>

InsertKeyed(p) ==
  /\ CallAt(p, "insert")
  /\ IF Holding(p) = {}
       THEN \E i \in KeyIds : NextId(i) /\ keyed' = [keyed EXCEPT ![i] = KeyRow(p)] /\ CallGoes(p, "people", i)
       ELSE CallGoes(p, "refused", NoAnswer) /\ UNCHANGED keyed
  /\ UNCHANGED <<left, keyBudget>>

(* ER_DUP_ENTRY: the card that won is the answer.  When it has been moved or  *)
(* destroyed since, the call fails.                                           *)
LookAgain(p) ==
  /\ CallAt(p, "refused")
  /\ IF Holding(p) = {} THEN CallGoes(p, "failed", NoAnswer)
     ELSE \E i \in Holding(p) : CallGoes(p, "found", i)
  /\ UNCHANGED <<keyed, left, keyBudget>>

(* setCardAssignees (Assignees); a card that is gone by then gets rows too.   *)
PutPeople(p) ==
  /\ CallAt(p, "people")
  /\ keyed' = [keyed EXCEPT ![call[p].card].peopled = TRUE]
  /\ CallGoes(p, "tell", call[p].card)
  /\ UNCHANGED <<left, keyBudget>>

(* The card is read again; one that is gone ends the call.  Then the others   *)
(* are notified, the board is told, the webhooks are called.                  *)
TellOfCard(p) ==
  /\ CallAt(p, "tell")
  /\ LET i == call[p].card
     IN IF There(i)
          THEN keyed' = [keyed EXCEPT ![i].told = @ + 1] /\ CallGoes(p, "made", i)
          ELSE CallGoes(p, "failed", NoAnswer) /\ UNCHANGED keyed
  /\ UNCHANGED <<left, keyBudget>>

-----------------------------------------------------------------------------
(* putCard: the unique index refuses a column that has the key already.       *)
ShiftCard(i, a) ==
  /\ There(i) /\ keyed[i].column # a /\ KeySpends("shifts")
  /\ ~\E j \in KeyIds : There(j) /\ keyed[j].column = a /\ keyed[j].key = keyed[i].key
  /\ keyed' = [keyed EXCEPT ![i].column = a] /\ left' = left \union {i}
  /\ UNCHANGED call

(* Archiving leaves the row and its key where they are.                       *)
DropKeyed(i) ==
  /\ There(i) /\ KeySpends("shifts")
  /\ keyed' = [keyed EXCEPT ![i].column = NoAnswer] /\ left' = left \union {i}
  /\ UNCHANGED call

(* Calls that were under way are not answered.                                *)
StopServer ==
  /\ KeySpends("stops") /\ \E p \in KeyCalls : UnderWay(p)
  /\ call' = [p \in KeyCalls |-> IF UnderWay(p) THEN [call[p] EXCEPT !.step = "cut"] ELSE call[p]]
  /\ UNCHANGED <<keyed, left>>

KeysNext ==
  \/ \E p \in KeyCalls :
       \/ \E a \in KeyColumns, k \in Keys : Ask(p, a, k)
       \/ LookForKey(p) \/ InsertKeyed(p) \/ LookAgain(p) \/ PutPeople(p) \/ TellOfCard(p)
  \/ \E i \in KeyIds : DropKeyed(i) \/ \E a \in KeyColumns : ShiftCard(i, a)
  \/ StopServer

KeysSpec == KeysInit /\ [][KeysNext]_keyVars

-----------------------------------------------------------------------------
(* Properties *)

Whole(i) == keyed[i].peopled /\ keyed[i].told = 1

(* createCard: the key makes "the create safe to retry: sending the same key  *)
(* for the same area returns the existing card instead of creating a          *)
(* duplicate".  However calls with one key overlap, and servers stop between  *)
(* two of their steps: as long as no card is moved or destroyed there is one  *)
(* card for a column and a key, everybody is answered with it, and nobody is  *)
(* refused; and when no server stopped, it ends up with its people and is     *)
(* announced once.                                                            *)
RetryIsSafe ==
  /\ \A i, j \in KeyIds :
       (KeyMade(i) /\ KeyMade(j) /\ keyed[i].for = keyed[j].for /\ keyed[i].key = keyed[j].key)
         => i = j \/ i \in left \/ j \in left
  /\ \A p \in KeyCalls :
       /\ call[p].step \in {"found", "made"} =>
            LET i == call[p].card
            IN keyed[i].key = call[p].key /\ (keyed[i].for = call[p].column \/ i \in left)
       /\ call[p].step = "failed" => \E i \in left : keyed[i].key = call[p].key
  /\ \A i \in KeyIds : keyed[i].told <= 1
  /\ (\A p \in KeyCalls : ~UnderWay(p) /\ call[p].step # "cut") =>
       \A i \in KeyIds : KeyMade(i) => Whole(i) \/ i \in left

(* And also after a server stopped: the card a repeated call is answered with *)
(* is the card that was asked for.  It does not hold (README): the people and *)
(* the announcement of the first call are not made up for.                    *)
RetryFinishes ==
  (\A p \in KeyCalls : ~UnderWay(p)) =>
    \A p \in KeyCalls : call[p].step = "found" => Whole(call[p].card) \/ call[p].card \in left

(* moveCard: "Move a card": a card can be moved to any column of its board.   *)
(* It does not hold (README): the index refuses a column that has its key.    *)
EveryMoveWorks ==
  \A i, j \in KeyIds : (There(i) /\ There(j) /\ i # j) => keyed[i].key # keyed[j].key
=============================================================================
