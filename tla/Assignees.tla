------------------------------ MODULE Assignees ------------------------------
(* Who a card is on: the table `card_assignees` and the calls that write it.  *)
(* Every action is one SQL statement (the pool runs statements in autocommit) *)
(* or one statement of claimCardFor's transaction, so calls of different      *)
(* requests interleave between any two of them.  The calls:                   *)
(*   claim    claimCard (MCP): lock the card's row, ask, insert, commit       *)
(*   edit     card PUT and updateCard (MCP): setCardAssignees                 *)
(*   release  releaseCard (MCP): one DELETE                                   *)
(*   copy     a duplicate, or the next card of a series: INSERT the card,     *)
(*            then copyCardAssignees                                          *)
(*   destroy  card DELETE with `permanent`: removeCardData, then the card     *)
(* and the board's membership changing underneath them.  One board.           *)

EXTENDS Naturals, FiniteSets

CONSTANTS
  Cards,      \* card ids; an id is never given out twice
  Users,      \* the people and agents the board can be shared with
  Owner,      \* the board's owner
  Calls,      \* request handlers running at the same time
  NoCard,     \* the card of a handler that is not running
  NoUser      \* the user of a handler that claims nothing

ASSUME OwnerAssumption == Owner \in Users
ASSUME NoCardAssumption == NoCard \notin Cards
ASSUME NoUserAssumption == NoUser \notin Users

VARIABLES
  made,       \* ids given out by INSERT INTO cards so far
  cards,      \* the rows of `cards`
  people,     \* the rows of `card_assignees`, as the users of each card
  claimed,    \* of those, the ones a claim inserted (history: no column says so)
  members,    \* the owner and the users of `invitations`
  call        \* what each handler is about to do

vars == <<made, cards, people, claimed, members, call>>

Steps == {"idle",
          "claim.lock", "claim.ask", "claim.insert", "claim.commit",
          "edit.members", "edit.before", "edit.write",
          "copy", "destroy.data", "destroy.card"}

CallState == [step : Steps, card : Cards \cup {NoCard}, from : Cards \cup {NoCard},
              user : Users \cup {NoUser}, off : SUBSET Users, on : SUBSET Users]

Idle == [step |-> "idle", card |-> NoCard, from |-> NoCard, user |-> NoUser,
         off |-> {}, on |-> {}]

(* Every invariant below starts from a board that may already hold cards with *)
(* people on them.                                                            *)
Init ==
  /\ cards \in SUBSET Cards
  /\ made = cards
  /\ people \in [Cards -> SUBSET {Owner}]
  /\ \A c \in Cards \ cards : people[c] = {}
  /\ claimed = [c \in Cards |-> {}]
  /\ members = {Owner}
  /\ call = [p \in Calls |-> Idle]

Doing(p, s) == call[p].step = s

(* The transactions between their SELECT ... FOR UPDATE and their end.        *)
InClaim(p) == call[p].step \in {"claim.ask", "claim.insert", "claim.commit"}

(* The row lock on card c: held by a claim that found the row there.          *)
RowLocked(c) == c \in cards /\ \E p \in Calls : InClaim(p) /\ call[p].card = c

End(p) == call' = [call EXCEPT ![p] = Idle]

-----------------------------------------------------------------------------
(* claimCard *)

(* requireCard(id, userId, "edit"): the card is there and the caller may edit *)
(* its board.                                                                 *)
StartClaim(p, c, u) ==
  /\ Doing(p, "idle")
  /\ c \in cards
  /\ u \in members
  /\ call' = [call EXCEPT ![p] = [Idle EXCEPT !.step = "claim.lock",
                                              !.card = c, !.user = u]]
  /\ UNCHANGED <<made, cards, people, claimed, members>>

(* A variant of a definition, with one plausible slip, stands before it; the  *)
(* properties below are there to notice it.  Here: a SELECT without FOR       *)
(* UPDATE.                                                                    *)
LockWithoutWaiting(p) ==
  /\ Doing(p, "claim.lock")
  /\ call' = [call EXCEPT ![p].step = "claim.ask"]
  /\ UNCHANGED <<made, cards, people, claimed, members>>

(* BEGIN; SELECT id FROM cards WHERE id = ? FOR UPDATE.  Waits for another    *)
(* transaction's lock; a card deleted since is no row and nothing to lock,    *)
(* and the code does not look at the answer.                                  *)
ClaimLock(p) ==
  /\ Doing(p, "claim.lock")
  /\ ~ RowLocked(call[p].card)
  /\ call' = [call EXCEPT ![p].step = "claim.ask"]
  /\ UNCHANGED <<made, cards, people, claimed, members>>

(* Only asks whether the caller is on the card already.                       *)
AskForCallerOnly(p) ==
  /\ Doing(p, "claim.ask")
  /\ call' = [call EXCEPT ![p].step =
                IF call[p].user \notin people[call[p].card] THEN "claim.insert" ELSE "claim.commit"]
  /\ UNCHANGED <<made, cards, people, claimed, members>>

(* SELECT user FROM card_assignees: the transaction's first plain read, so    *)
(* its snapshot is taken here, inside the lock.                               *)
ClaimAsk(p) ==
  /\ Doing(p, "claim.ask")
  /\ call' = [call EXCEPT ![p].step =
                IF people[call[p].card] = {} THEN "claim.insert" ELSE "claim.commit"]
  /\ UNCHANGED <<made, cards, people, claimed, members>>

(* INSERT INTO card_assignees; COMMIT.  A row the unique key already has (an  *)
(* edit put this very user on the card meanwhile) is an error: rolled back.   *)
(* The uncommitted row is seen by nobody and only delays writers of the same  *)
(* row, so inserting and committing are one step.                             *)
ClaimInsert(p) ==
  LET c == call[p].card
      u == call[p].user
  IN
  /\ Doing(p, "claim.insert")
  /\ IF u \in people[c]
       THEN UNCHANGED <<people, claimed>>
       ELSE /\ people' = [people EXCEPT ![c] = people[c] \cup {u}]
            /\ claimed' = [claimed EXCEPT ![c] = claimed[c] \cup {u}]
  /\ End(p)
  /\ UNCHANGED <<made, cards, members>>

(* COMMIT of a claim that found somebody: nothing was written.                *)
ClaimRefused(p) ==
  /\ Doing(p, "claim.commit")
  /\ End(p)
  /\ UNCHANGED <<made, cards, people, claimed, members>>

-----------------------------------------------------------------------------
(* releaseCard: DELETE FROM card_assignees WHERE card = ? AND user = ?        *)
Release(c, u) ==
  /\ c \in cards
  /\ u \in people[c]
  /\ people' = [people EXCEPT ![c] = people[c] \ {u}]
  /\ claimed' = [claimed EXCEPT ![c] = claimed[c] \ {u}]
  /\ UNCHANGED <<made, cards, members, call>>

-----------------------------------------------------------------------------
(* setCardAssignees, from card PUT and from updateCard *)

StartEdit(p, c, wanted) ==
  /\ Doing(p, "idle")
  /\ c \in cards
  /\ call' = [call EXCEPT ![p] = [Idle EXCEPT !.step = "edit.members",
                                              !.card = c, !.on = wanted]]
  /\ UNCHANGED <<made, cards, people, claimed, members>>

(* boardMemberIds, and `wanted` cut down to them. *)
EditMembers(p) ==
  /\ Doing(p, "edit.members")
  /\ call' = [call EXCEPT ![p].step = "edit.before", ![p].on = @ \cap members]
  /\ UNCHANGED <<made, cards, people, claimed, members>>

(* assigneeIdsOf, and the difference in both directions. *)
EditBefore(p) ==
  LET before == people[call[p].card]
      next   == call[p].on
  IN
  /\ Doing(p, "edit.before")
  /\ call' = [call EXCEPT ![p].step = "edit.write",
                          ![p].off = before \ next, ![p].on = next \ before]
  /\ UNCHANGED <<made, cards, people, claimed, members>>

(* One DELETE per person taken off, ... *)
EditRemove(p, u) ==
  LET c == call[p].card IN
  /\ Doing(p, "edit.write")
  /\ u \in call[p].off
  /\ people' = [people EXCEPT ![c] = people[c] \ {u}]
  /\ claimed' = [claimed EXCEPT ![c] = claimed[c] \ {u}]
  /\ call' = [call EXCEPT ![p].off = @ \ {u}]
  /\ UNCHANGED <<made, cards, members>>

(* ... then one INSERT IGNORE per person put on, whether or not the card is   *)
(* still there.                                                               *)
EditAdd(p, u) ==
  LET c == call[p].card IN
  /\ Doing(p, "edit.write")
  /\ call[p].off = {}
  /\ u \in call[p].on
  /\ people' = [people EXCEPT ![c] = people[c] \cup {u}]
  /\ call' = [call EXCEPT ![p].on = @ \ {u}]
  /\ UNCHANGED <<made, cards, claimed, members>>

EditDone(p) ==
  /\ Doing(p, "edit.write")
  /\ call[p].off = {} /\ call[p].on = {}
  /\ End(p)
  /\ UNCHANGED <<made, cards, people, claimed, members>>

-----------------------------------------------------------------------------
(* A duplicate or the next card of a series.  The new row is on the board,    *)
(* and open to every other call, before its people are copied onto it.  Its   *)
(* id is a fresh one; the variant gives an id out again.                      *)
CopyToFreedId(p, from, to) ==
  /\ Doing(p, "idle")
  /\ from \in cards
  /\ to \in Cards \ cards
  /\ made' = made \cup {to}
  /\ cards' = cards \cup {to}
  /\ call' = [call EXCEPT ![p] = [Idle EXCEPT !.step = "copy",
                                              !.card = to, !.from = from]]
  /\ UNCHANGED <<people, claimed, members>>

StartCopy(p, from, to) ==
  /\ Doing(p, "idle")
  /\ from \in cards
  /\ to \in Cards \ made
  /\ made' = made \cup {to}
  /\ cards' = cards \cup {to}
  /\ call' = [call EXCEPT ![p] = [Idle EXCEPT !.step = "copy",
                                              !.card = to, !.from = from]]
  /\ UNCHANGED <<people, claimed, members>>

(* copyCardAssignees: one INSERT IGNORE ... SELECT. *)
CopyPeople(p) ==
  LET c == call[p].card IN
  /\ Doing(p, "copy")
  /\ people' = [people EXCEPT ![c] = people[c] \cup people[call[p].from]]
  /\ End(p)
  /\ UNCHANGED <<made, cards, claimed, members>>

-----------------------------------------------------------------------------
(* card DELETE, permanent *)

StartDestroy(p, c) ==
  /\ Doing(p, "idle")
  /\ c \in cards
  /\ call' = [call EXCEPT ![p] = [Idle EXCEPT !.step = "destroy.data", !.card = c]]
  /\ UNCHANGED <<made, cards, people, claimed, members>>

(* removeCardData: DELETE FROM card_assignees WHERE card IN (...) *)
DestroyData(p) ==
  LET c == call[p].card IN
  /\ Doing(p, "destroy.data")
  /\ people' = [people EXCEPT ![c] = {}]
  /\ claimed' = [claimed EXCEPT ![c] = {}]
  /\ call' = [call EXCEPT ![p].step = "destroy.card"]
  /\ UNCHANGED <<made, cards, members>>

(* DELETE FROM cards WHERE id = ?: waits for the row lock. *)
DestroyCard(p) ==
  LET c == call[p].card IN
  /\ Doing(p, "destroy.card")
  /\ ~ RowLocked(c)
  /\ cards' = cards \ {c}
  /\ End(p)
  /\ UNCHANGED <<made, people, claimed, members>>

-----------------------------------------------------------------------------
(* invite POST, and removeBoardMember (invite DELETE and leaveBoard): the     *)
(* clean-up there takes webhooks, notifications and placements, and leaves    *)
(* `card_assignees` alone.                                                    *)
Invite(u) ==
  /\ u \notin members
  /\ members' = members \cup {u}
  /\ UNCHANGED <<made, cards, people, claimed, call>>

RemoveMember(u) ==
  /\ u \in members \ {Owner}
  /\ members' = members \ {u}
  /\ UNCHANGED <<made, cards, people, claimed, call>>

(* A handler dies: its connection is lost, or the server restarts.  An open   *)
(* transaction is rolled back and has written nothing yet; statements that    *)
(* ran in autocommit stay.                                                    *)
Die(p) ==
  /\ ~ Doing(p, "idle")
  /\ End(p)
  /\ UNCHANGED <<made, cards, people, claimed, members>>

Claiming(p) ==
  \/ ClaimLock(p) \/ ClaimAsk(p) \/ ClaimInsert(p) \/ ClaimRefused(p)

Editing(p) ==
  \/ EditMembers(p) \/ EditBefore(p) \/ EditDone(p)
  \/ \E u \in Users : EditRemove(p, u) \/ EditAdd(p, u)

Copying(p) == CopyPeople(p)

Destroying(p) == DestroyData(p) \/ DestroyCard(p)

Starting(p) ==
  \E c \in Cards :
    \/ \E u \in Users : StartClaim(p, c, u)
    \/ \E wanted \in SUBSET Users : StartEdit(p, c, wanted)
    \/ \E to \in Cards : StartCopy(p, c, to)
    \/ StartDestroy(p, c)

Next ==
  \/ \E p \in Calls :
       Starting(p) \/ Claiming(p) \/ Editing(p) \/ Copying(p) \/ Destroying(p) \/ Die(p)
  \/ \E c \in Cards, u \in Users : Release(c, u)
  \/ \E u \in Users : Invite(u) \/ RemoveMember(u)

Spec == Init /\ [][Next]_vars

-----------------------------------------------------------------------------
(* Rows are of users and cards, and a handler that is under way has a card    *)
(* whose id was given out.                                                    *)
TypeOK ==
  /\ made \subseteq Cards
  /\ cards \subseteq made
  /\ people \in [Cards -> SUBSET Users]
  /\ claimed \in [Cards -> SUBSET Users]
  /\ members \subseteq Users
  /\ call \in [Calls -> CallState]
  /\ \A p \in Calls : ~ Doing(p, "idle") => call[p].card \in made
  /\ \A p \in Calls : Doing(p, "copy") => call[p].from \in made
  /\ \A p \in Calls : call[p].step \in {"claim.lock", "claim.ask", "claim.insert", "claim.commit"}
                        => call[p].user \in Users

(* cardAssignees.ts:164-172: two agents never pick up the same work.  Of the  *)
(* people on a card that exists at most one got there by claiming it, however *)
(* claims, edits, releases, copies and deletions interleave.                  *)
OneClaimant ==
  \A c \in cards : \A u, v \in claimed[c] : u = v

(* The same promise step by step: the statements of all handlers together do  *)
(* nothing but what ClaimSpec allows as one atomic step.  A card that is gone *)
(* counts as on nobody, whatever rows a late statement left for its id.       *)
OnLive(f) == [c \in Cards |-> IF c \in cards THEN f[c] ELSE {}]

Promise == INSTANCE ClaimSpec WITH
  live <- cards, people <- OnLive(people), taken <- OnLive(claimed)

ImplementsPromise == Promise!Spec

(* Why OneClaimant is kept, as a conjunction that every single statement     *)
(* preserves: one transaction at a time holds the lock of a card that exists; *)
(* a claim about to insert has found nobody, so no claimant, and nobody can   *)
(* become one before it; a claimant is on the card; an id not given out yet   *)
(* has no rows.                                                               *)
LockIsExclusive ==
  \A p, q \in Calls :
    InClaim(p) /\ InClaim(q) /\ call[p].card = call[q].card /\ call[p].card \in cards
      => p = q

InsertsWhenUnclaimed ==
  \A p \in Calls :
    Doing(p, "claim.insert") /\ call[p].card \in cards => claimed[call[p].card] = {}

ClaimantsAreOn == \A c \in Cards : claimed[c] \subseteq people[c]

NoRowsBeforeTheCard == \A c \in Cards \ made : people[c] = {}

ClaimInv ==
  /\ TypeOK
  /\ LockIsExclusive
  /\ InsertsWhenUnclaimed
  /\ ClaimantsAreOn
  /\ NoRowsBeforeTheCard
  /\ OneClaimant

(* mcp/tools/claimCard.ts:22 tells agents that claimCard "Succeeds only if    *)
(* nobody is on the card yet", "so two agents (or an agent and a human) never *)
(* work the same card".                                                       *)
ClaimsOnlyFreeCards ==
  [][\A c \in cards : \A u \in claimed'[c] \ claimed[c] : people[c] = {}]_vars
=============================================================================
