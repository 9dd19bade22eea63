--------------------------- MODULE AssigneesProofs ---------------------------
(* Theorems about Assignees, for every set of cards, users and handlers, and  *)
(* about CardFiles, for every set of tabs, files, pickings and saves.         *)
EXTENDS Assignees, CardFiles, FiniteSetTheorems, SequenceTheorems, TLAPS

(* The state a handler is put into has the shape CallState names. *)
LEMMA IdleType == Idle \in CallState
  BY DEF Idle, CallState, Steps

(* The inductive invariant holds of a board before the first call. *)
LEMMA InitInv == Init => ClaimInv
<1> SUFFICES ASSUME Init PROVE ClaimInv
  OBVIOUS
<1>1. TypeOK
  BY OwnerAssumption, IdleType DEF Init, TypeOK, Doing, Idle
<1>2. LockIsExclusive /\ InsertsWhenUnclaimed
  BY DEF Init, LockIsExclusive, InsertsWhenUnclaimed, InClaim, Doing, Idle
<1>3. ClaimantsAreOn /\ NoRowsBeforeTheCard /\ OneClaimant
  BY <1>1 DEF Init, ClaimantsAreOn, NoRowsBeforeTheCard, OneClaimant, TypeOK
<1> QED
  BY <1>1, <1>2, <1>3 DEF ClaimInv

-----------------------------------------------------------------------------
(* Types *)

(* Reading who was on the card changes nothing but the handler's own plan. *)
LEMMA EditBeforeCall ==
  ASSUME TypeOK, NEW p \in Calls, EditBefore(p)
  PROVE  /\ call' \in [Calls -> CallState]
         /\ call'[p].step = "edit.write"
         /\ \A q \in Calls : call'[q].card = call[q].card
         /\ \A q \in Calls \ {p} : call'[q] = call[q]
<1> DEFINE before == people[call[p].card]
<1>1. call[p] \in CallState /\ call[p].card \in Cards /\ before \subseteq Users
  BY DEF EditBefore, TypeOK, Doing
<1>2. call' \in [Calls -> CallState]
  BY <1>1 DEF EditBefore, CallState, Steps, TypeOK
<1>3. /\ call'[p].step = "edit.write"
      /\ \A q \in Calls : call'[q].card = call[q].card
      /\ \A q \in Calls \ {p} : call'[q] = call[q]
  BY DEF EditBefore, CallState, TypeOK
<1> QED
  BY <1>2, <1>3

(* Every statement keeps the types. *)
LEMMA TypeStep == TypeOK /\ [Next]_vars => TypeOK'
<1> SUFFICES ASSUME TypeOK, [Next]_vars PROVE TypeOK'
  OBVIOUS
<1> USE IdleType DEF TypeOK, Doing
<1>1. ASSUME NEW p \in Calls, Starting(p) PROVE TypeOK'
  <2>1. ASSUME NEW c \in Cards, NEW u \in Users, StartClaim(p, c, u) PROVE TypeOK'
    BY <2>1 DEF StartClaim, Idle, CallState, Steps
  <2>2. ASSUME NEW c \in Cards, NEW wanted \in SUBSET Users, StartEdit(p, c, wanted)
        PROVE TypeOK'
    BY <2>2 DEF StartEdit, Idle, CallState, Steps
  <2>3. ASSUME NEW c \in Cards, NEW to \in Cards, StartCopy(p, c, to) PROVE TypeOK'
    BY <2>3 DEF StartCopy, Idle, CallState, Steps
  <2>4. ASSUME NEW c \in Cards, StartDestroy(p, c) PROVE TypeOK'
    BY <2>4 DEF StartDestroy, Idle, CallState, Steps
  <2> QED
    BY <1>1, <2>1, <2>2, <2>3, <2>4 DEF Starting
<1>2. ASSUME NEW p \in Calls, Claiming(p) PROVE TypeOK'
  <2>1. CASE ClaimLock(p)
    BY <2>1 DEF ClaimLock, CallState, Steps
  <2>2. CASE ClaimAsk(p)
    BY <2>2 DEF ClaimAsk, CallState, Steps
  <2>3. CASE ClaimInsert(p)
    BY <2>3 DEF ClaimInsert, End, Idle
  <2>4. CASE ClaimRefused(p)
    BY <2>4 DEF ClaimRefused, End, Idle
  <2> QED
    BY <1>2, <2>1, <2>2, <2>3, <2>4 DEF Claiming
<1>3. ASSUME NEW p \in Calls, Editing(p) PROVE TypeOK'
  <2>1. CASE EditMembers(p)
    BY <2>1 DEF EditMembers, CallState, Steps
  <2>2. CASE EditBefore(p)
    <3>1. /\ call' \in [Calls -> CallState]
          /\ call'[p].step = "edit.write"
          /\ \A q \in Calls : call'[q].card = call[q].card
          /\ \A q \in Calls \ {p} : call'[q] = call[q]
      BY <2>2, EditBeforeCall
    <3> QED
      BY <2>2, <3>1 DEF EditBefore
  <2>3. CASE EditDone(p)
    BY <2>3 DEF EditDone, End, Idle
  <2>4. ASSUME NEW u \in Users, EditRemove(p, u) PROVE TypeOK'
    BY <2>4 DEF EditRemove, CallState, Steps
  <2>5. ASSUME NEW u \in Users, EditAdd(p, u) PROVE TypeOK'
    BY <2>5 DEF EditAdd, CallState, Steps
  <2> QED
    BY <1>3, <2>1, <2>2, <2>3, <2>4, <2>5 DEF Editing
<1>4. ASSUME NEW p \in Calls, Copying(p) PROVE TypeOK'
  BY <1>4 DEF Copying, CopyPeople, End, Idle
<1>5. ASSUME NEW p \in Calls, Destroying(p) PROVE TypeOK'
  <2>1. CASE DestroyData(p)
    BY <2>1 DEF DestroyData, CallState, Steps
  <2>2. CASE DestroyCard(p)
    BY <2>2 DEF DestroyCard, End, Idle
  <2> QED
    BY <1>5, <2>1, <2>2 DEF Destroying
<1>6. ASSUME NEW p \in Calls, Die(p) PROVE TypeOK'
  BY <1>6 DEF Die, End, Idle
<1>7. ASSUME NEW c \in Cards, NEW u \in Users, Release(c, u) PROVE TypeOK'
  BY <1>7 DEF Release
<1>8. ASSUME NEW u \in Users, Invite(u) \/ RemoveMember(u) PROVE TypeOK'
  BY <1>8 DEF Invite, RemoveMember
<1>9. CASE UNCHANGED vars
  BY <1>9 DEF vars
<1> QED
  BY <1>1, <1>2, <1>3, <1>4, <1>5, <1>6, <1>7, <1>8, <1>9 DEF Next

-----------------------------------------------------------------------------
(* The inductive invariant *)

(* ClaimInv without the type invariant: what is left to show of each step.    *)
Rest ==
  /\ LockIsExclusive
  /\ InsertsWhenUnclaimed
  /\ ClaimantsAreOn
  /\ NoRowsBeforeTheCard
  /\ OneClaimant

(* Every statement of every handler keeps the inductive invariant. *)
LEMMA InvStep == ClaimInv /\ [Next]_vars => ClaimInv'
<1> SUFFICES ASSUME ClaimInv, [Next]_vars PROVE Rest'
  BY TypeStep DEF ClaimInv, Rest
<1>0. TypeOK /\ TypeOK' /\ Rest
  BY TypeStep DEF ClaimInv, Rest
<1> USE <1>0 DEF Rest, LockIsExclusive, InsertsWhenUnclaimed, ClaimantsAreOn,
                 NoRowsBeforeTheCard, OneClaimant, TypeOK, Doing, InClaim
<1>1. ASSUME NEW p \in Calls, Starting(p) PROVE Rest'
  <2>1. ASSUME NEW c \in Cards, NEW u \in Users, StartClaim(p, c, u) PROVE Rest'
    BY <2>1 DEF StartClaim, Idle
  <2>2. ASSUME NEW c \in Cards, NEW wanted \in SUBSET Users, StartEdit(p, c, wanted)
        PROVE Rest'
    BY <2>2 DEF StartEdit, Idle
  <2>3. ASSUME NEW c \in Cards, NEW to \in Cards, StartCopy(p, c, to) PROVE Rest'
    BY <2>3 DEF StartCopy, Idle
  <2>4. ASSUME NEW c \in Cards, StartDestroy(p, c) PROVE Rest'
    BY <2>4 DEF StartDestroy, Idle
  <2> QED
    BY <1>1, <2>1, <2>2, <2>3, <2>4 DEF Starting
<1>2. ASSUME NEW p \in Calls, Claiming(p) PROVE Rest'
  <2>1. CASE ClaimLock(p)
    BY <2>1 DEF ClaimLock, RowLocked, CallState
  <2>2. CASE ClaimAsk(p)
    BY <2>2 DEF ClaimAsk, CallState
  <2>3. CASE ClaimInsert(p)
    BY <2>3 DEF ClaimInsert, End, Idle
  <2>4. CASE ClaimRefused(p)
    BY <2>4 DEF ClaimRefused, End, Idle
  <2> QED
    BY <1>2, <2>1, <2>2, <2>3, <2>4 DEF Claiming
<1>3. ASSUME NEW p \in Calls, Editing(p) PROVE Rest'
  <2>1. CASE EditMembers(p)
    BY <2>1 DEF EditMembers, CallState
  <2>2. CASE EditBefore(p)
    <3>1. /\ call'[p].step = "edit.write"
          /\ \A q \in Calls : call'[q].card = call[q].card
          /\ \A q \in Calls \ {p} : call'[q] = call[q]
      BY <2>2, EditBeforeCall
    <3>2. \A q \in Calls : InClaim(q)' => InClaim(q) /\ q # p
      BY <3>1
    <3>3. UNCHANGED <<made, cards, people, claimed>>
      BY <2>2 DEF EditBefore
    <3>4. LockIsExclusive'
      BY <3>1, <3>2, <3>3
    <3>5. InsertsWhenUnclaimed'
      BY <3>1, <3>3
    <3>6. (ClaimantsAreOn /\ NoRowsBeforeTheCard /\ OneClaimant)'
      BY <3>3
    <3> QED
      BY <3>4, <3>5, <3>6
  <2>3. CASE EditDone(p)
    BY <2>3 DEF EditDone, End, Idle
  <2>4. ASSUME NEW u \in Users, EditRemove(p, u) PROVE Rest'
    BY <2>4 DEF EditRemove, CallState
  <2>5. ASSUME NEW u \in Users, EditAdd(p, u) PROVE Rest'
    BY <2>5 DEF EditAdd, CallState
  <2> QED
    BY <1>3, <2>1, <2>2, <2>3, <2>4, <2>5 DEF Editing
<1>4. ASSUME NEW p \in Calls, Copying(p) PROVE Rest'
  BY <1>4 DEF Copying, CopyPeople, End, Idle
<1>5. ASSUME NEW p \in Calls, Destroying(p) PROVE Rest'
  <2>1. CASE DestroyData(p)
    BY <2>1 DEF DestroyData, CallState
  <2>2. CASE DestroyCard(p)
    BY <2>2 DEF DestroyCard, End, Idle
  <2> QED
    BY <1>5, <2>1, <2>2 DEF Destroying
<1>6. ASSUME NEW p \in Calls, Die(p) PROVE Rest'
  BY <1>6 DEF Die, End, Idle
<1>7. ASSUME NEW c \in Cards, NEW u \in Users, Release(c, u) PROVE Rest'
  BY <1>7 DEF Release
<1>8. ASSUME NEW u \in Users, Invite(u) \/ RemoveMember(u) PROVE Rest'
  BY <1>8 DEF Invite, RemoveMember
<1>9. CASE UNCHANGED vars
  BY <1>9 DEF vars
<1> QED
  BY <1>1, <1>2, <1>3, <1>4, <1>5, <1>6, <1>7, <1>8, <1>9 DEF Next

(* ClaimInv holds in every reachable state. *)
THEOREM ClaimInvariant == Spec => []ClaimInv
  BY InitInv, InvStep, PTL DEF Spec

(* Two claims never both hold a card that exists (cardAssignees.ts:164-172):  *)
(* for every number of cards, people and handlers, and with edits, releases,  *)
(* copies, deletions, membership changes and dying handlers in between.       *)
THEOREM AtMostOneClaimant == Spec => []OneClaimant
<1>1. ClaimInv => OneClaimant
  BY DEF ClaimInv
<1> QED
  BY <1>1, ClaimInvariant, PTL

-----------------------------------------------------------------------------
(* The statements implement the atomic promise *)

(* The change a statement makes to the people of one card, seen from ClaimSpec: *)
(* a Reassign of that card if it exists, and nothing at all if it does not.   *)
LEMMA WritesMap ==
  ASSUME ClaimInv, NEW c \in Cards, NEW others \in SUBSET Users,
         cards' = cards,
         people' = [people EXCEPT ![c] = others],
         claimed' = [claimed EXCEPT ![c] = claimed[c] \cap others]
  PROVE  [Promise!Next]_(Promise!vars)
<1> USE DEF ClaimInv, TypeOK, OnLive
<1>1. CASE c \in cards
  <2>1. /\ OnLive(people)' = [OnLive(people) EXCEPT ![c] = others]
        /\ OnLive(claimed)' = [OnLive(claimed) EXCEPT ![c] = OnLive(claimed)[c] \cap others]
    BY <1>1
  <2>2. Promise!Reassign(c, others)
    BY <1>1, <2>1 DEF Promise!Reassign
  <2> QED
    BY <2>2 DEF Promise!Next
<1>2. CASE c \notin cards
  <2>1. OnLive(people)' = OnLive(people) /\ OnLive(claimed)' = OnLive(claimed)
    BY <1>2
  <2> QED
    BY <2>1 DEF Promise!vars
<1> QED
  BY <1>1, <1>2

(* A statement that leaves the tables alone is a stutter of ClaimSpec. *)
LEMMA StutterMap ==
  ASSUME UNCHANGED <<cards, people, claimed>>
  PROVE  [Promise!Next]_(Promise!vars)
BY DEF Promise!vars, OnLive

(* Nobody is on any card as a claimant at the start. *)
LEMMA InitMap == Init => Promise!Init
<1> SUFFICES ASSUME Init PROVE Promise!Init
  OBVIOUS
<1>1. OnLive(people) \in [Cards -> SUBSET Users]
  BY OwnerAssumption DEF Init, OnLive
<1>2. OnLive(claimed) = [c \in Cards |-> {}]
  BY DEF Init, OnLive
<1> QED
  BY <1>1, <1>2 DEF Init, Promise!Init

(* The INSERT of a claim is a Take, or a stutter when the user was put on the *)
(* card meanwhile or the card is gone.                                        *)
LEMMA InsertMap ==
  ASSUME ClaimInv, NEW p \in Calls, ClaimInsert(p)
  PROVE  [Promise!Next]_(Promise!vars)
<1> DEFINE c == call[p].card
           u == call[p].user
<1>0. c \in Cards /\ u \in Users
  BY DEF ClaimInsert, ClaimInv, TypeOK, Doing
<1>1. CASE u \in people[c]
  BY <1>1, StutterMap DEF ClaimInsert
<1>2. CASE u \notin people[c] /\ c \notin cards
  <2>1. OnLive(people)' = OnLive(people) /\ OnLive(claimed)' = OnLive(claimed)
    BY <1>0, <1>2 DEF ClaimInsert, OnLive, ClaimInv, TypeOK
  <2> QED
    BY <2>1 DEF Promise!vars, ClaimInsert
<1>3. CASE u \notin people[c] /\ c \in cards
  <2>1. claimed[c] = {}
    BY <1>3 DEF ClaimInsert, ClaimInv, InsertsWhenUnclaimed
  <2>2. /\ OnLive(people)' = [OnLive(people) EXCEPT ![c] = OnLive(people)[c] \cup {u}]
        /\ OnLive(claimed)' = [OnLive(claimed) EXCEPT ![c] = {u}]
    BY <1>0, <1>3, <2>1 DEF ClaimInsert, OnLive, ClaimInv, TypeOK
  <2>3. Promise!Take(c, u)
    BY <1>0, <1>3, <2>1, <2>2 DEF Promise!Take, ClaimInsert, OnLive
  <2> QED
    BY <1>0, <2>3 DEF Promise!Next
<1> QED
  BY <1>1, <1>2, <1>3

(* Every step of the handlers is a step of ClaimSpec or a stutter. *)
LEMMA StepMap == ClaimInv /\ [Next]_vars => [Promise!Next]_(Promise!vars)
<1> SUFFICES ASSUME ClaimInv, [Next]_vars PROVE [Promise!Next]_(Promise!vars)
  OBVIOUS
<1> USE DEF ClaimInv, TypeOK, Doing
<1>1. ASSUME NEW p \in Calls, Starting(p) PROVE [Promise!Next]_(Promise!vars)
  <2>1. ASSUME NEW c \in Cards, NEW to \in Cards, StartCopy(p, c, to)
        PROVE  [Promise!Next]_(Promise!vars)
    <3>1. people[to] = {} /\ claimed[to] = {} /\ to \notin cards
      BY <2>1 DEF StartCopy, NoRowsBeforeTheCard, ClaimantsAreOn
    <3>2. OnLive(people)' = OnLive(people) /\ OnLive(claimed)' = OnLive(claimed)
      BY <2>1, <3>1 DEF StartCopy, OnLive
    <3>3. Promise!Make(to)
      BY <2>1, <3>1, <3>2 DEF StartCopy, Promise!Make
    <3> QED
      BY <3>3 DEF Promise!Next
  <2> QED
    BY <1>1, <2>1, StutterMap DEF Starting, StartClaim, StartEdit, StartDestroy
<1>2. ASSUME NEW p \in Calls, Claiming(p) PROVE [Promise!Next]_(Promise!vars)
  BY <1>2, InsertMap, StutterMap DEF Claiming, ClaimLock, ClaimAsk, ClaimRefused
<1>3. ASSUME NEW p \in Calls, Editing(p) PROVE [Promise!Next]_(Promise!vars)
  <2>1. ASSUME NEW u \in Users, EditRemove(p, u) PROVE [Promise!Next]_(Promise!vars)
    <3> DEFINE c == call[p].card
               others == people[c] \ {u}
    <3>1. c \in Cards /\ others \in SUBSET Users
      BY <2>1 DEF EditRemove
    <3>2. claimed[c] \ {u} = claimed[c] \cap others
      BY <3>1 DEF ClaimantsAreOn
    <3> QED
      BY <2>1, <3>1, <3>2, WritesMap DEF EditRemove
  <2>2. ASSUME NEW u \in Users, EditAdd(p, u) PROVE [Promise!Next]_(Promise!vars)
    <3> DEFINE c == call[p].card
               others == people[c] \cup {u}
    <3>1. c \in Cards /\ others \in SUBSET Users
      BY <2>2 DEF EditAdd
    <3>2. claimed' = [claimed EXCEPT ![c] = claimed[c] \cap others]
      BY <2>2, <3>1 DEF EditAdd, ClaimantsAreOn
    <3> QED
      BY <2>2, <3>1, <3>2, WritesMap DEF EditAdd
  <2> QED
    BY <1>3, <2>1, <2>2, StutterMap DEF Editing, EditMembers, EditBefore, EditDone
<1>4. ASSUME NEW p \in Calls, Copying(p) PROVE [Promise!Next]_(Promise!vars)
  <2> DEFINE c == call[p].card
             others == people[c] \cup people[call[p].from]
  <2>1. c \in Cards /\ others \in SUBSET Users
    BY <1>4 DEF Copying, CopyPeople
  <2>2. claimed' = [claimed EXCEPT ![c] = claimed[c] \cap others]
    BY <1>4, <2>1 DEF Copying, CopyPeople, ClaimantsAreOn
  <2>3. cards' = cards /\ people' = [people EXCEPT ![c] = others]
    BY <1>4 DEF Copying, CopyPeople
  <2> HIDE DEF c, others
  <2> QED
    BY <2>1, <2>2, <2>3, WritesMap
<1>5. ASSUME NEW p \in Calls, Destroying(p) PROVE [Promise!Next]_(Promise!vars)
  <2> DEFINE c == call[p].card
  <2>0. c \in Cards
    BY <1>5 DEF Destroying, DestroyData, DestroyCard
  <2>1. CASE DestroyData(p)
    <3>1. claimed' = [claimed EXCEPT ![c] = claimed[c] \cap {}]
      BY <2>1 DEF DestroyData
    <3> QED
      BY <2>0, <2>1, <3>1, WritesMap DEF DestroyData
  <2>2. CASE DestroyCard(p) /\ c \in cards
    <3>1. /\ OnLive(people)' = [OnLive(people) EXCEPT ![c] = {}]
          /\ OnLive(claimed)' = [OnLive(claimed) EXCEPT ![c] = {}]
      BY <2>0, <2>2 DEF DestroyCard, OnLive
    <3>2. Promise!Destroy(c)
      BY <2>2, <3>1 DEF DestroyCard, Promise!Destroy
    <3> QED
      BY <2>0, <3>2 DEF Promise!Next
  <2>3. CASE DestroyCard(p) /\ c \notin cards
    BY <2>3, StutterMap DEF DestroyCard
  <2> QED
    BY <1>5, <2>1, <2>2, <2>3 DEF Destroying
<1>6. ASSUME NEW p \in Calls, Die(p) PROVE [Promise!Next]_(Promise!vars)
  BY <1>6, StutterMap DEF Die
<1>7. ASSUME NEW c \in Cards, NEW u \in Users, Release(c, u)
      PROVE  [Promise!Next]_(Promise!vars)
  <2> DEFINE others == people[c] \ {u}
  <2>1. others \in SUBSET Users /\ claimed[c] \ {u} = claimed[c] \cap others
    BY DEF ClaimantsAreOn
  <2> QED
    BY <1>7, <2>1, WritesMap DEF Release
<1>8. ASSUME NEW u \in Users, Invite(u) \/ RemoveMember(u)
      PROVE  [Promise!Next]_(Promise!vars)
  BY <1>8, StutterMap DEF Invite, RemoveMember
<1>9. CASE UNCHANGED vars
  BY <1>9, StutterMap DEF vars
<1> QED
  BY <1>1, <1>2, <1>3, <1>4, <1>5, <1>6, <1>7, <1>8, <1>9 DEF Next

(* The statements of all handlers together implement ClaimSpec: seen from     *)
(* outside, every claim is one atomic Take of a card without a claimant.      *)
THEOREM StatementsImplementPromise == Spec => ImplementsPromise
<1>1. ClaimInv /\ [Next]_vars => [Promise!Next]_(Promise!vars)
  BY StepMap
<1>2. Init => Promise!Init
  BY InitMap
<1> QED
  BY <1>1, <1>2, ClaimInvariant, PTL DEF Spec, ImplementsPromise, Promise!Spec
-----------------------------------------------------------------------------
(* Files picked in the open card: the inductive invariant of CardFiles.       *)
FileBatch == [tab : FileTabs \cup {Pending}, rest : Seq(PickedFiles), step : {"idle", "next", "upload", "save"}]
FilePut == [by : FileTabs, for : FileBatches \cup {Pending}, files : Seq(Accepted),
            answer : Seq(Nat) \cup {Pending}, twin : {1, 2}]
FileNews == [to : FileTabs, ids : Seq(Nat)]

FilesTypes ==
  /\ attached \in Seq(Accepted) /\ listed \in [FileTabs -> Seq(Nat)] /\ toSave \in [FileTabs -> Seq(Accepted)]
  /\ batch \in [FileBatches -> FileBatch]
  /\ \A b \in FileBatches : batch[b].rest # << >> => batch[b].tab \in FileTabs
  /\ \A b \in FileBatches : batch[b].step = "upload" => batch[b].rest # << >> /\ Head(batch[b].rest) \in Accepted
  /\ puts \subseteq FilePut /\ news \subseteq FileNews
  /\ reading \in [FileTabs -> Seq(Nat) \cup {Pending}]
  /\ picked \subseteq FileTabs \X PickedFiles /\ marks \subseteq {"crossed", "lost"}

(* A file that is picked is yet to be uploaded, attached, or both carried by a *)
(* save and waiting in its tab: the first unless saves were lost, the second  *)
(* unless saves crossed.                                                      *)
Ahead(t, f) == \E b \in FileBatches : batch[b].tab = t /\ f \in ToSet(batch[b].rest)
Carried(f) == \E p \in puts : p.answer = Pending /\ f \in ToSet(p.files)
NothingForgotten ==
  \A w \in Wanted :
    \/ Ahead(w[1], w[2]) \/ w[2] \in ToSet(attached)
    \/ /\ "lost" \notin marks => Carried(w[2])
       /\ "crossed" \notin marks => w[2] \in ToSet(toSave[w[1]])

(* Saves that do not cross are one at a time, each with all that waits.       *)
OneSave ==
  /\ \A p, q \in puts : p = q
  /\ \A p \in puts : IF p.answer = Pending THEN p.files = toSave[p.by]
                     ELSE ToSet(toSave[p.by]) \subseteq ToSet(attached)

(* What is yet to be uploaded is nowhere else, and was picked.                *)
Seen == {f \in Accepted : \/ f \in ToSet(attached) \/ \E t \in FileTabs : f \in ToSet(toSave[t])
                          \/ \E p \in puts : f \in ToSet(p.files)}
AheadIsNew ==
  /\ \A b \in FileBatches : \A i \in DOMAIN batch[b].rest : batch[b].rest[i] \notin Seen
  /\ \A b, c \in FileBatches : \A i \in DOMAIN batch[b].rest, j \in DOMAIN batch[c].rest :
       batch[b].rest[i] = batch[c].rest[j] => b = c /\ i = j
HavePicked == {f \in PickedFiles : \E t \in FileTabs : <<t, f>> \in picked}
AllArePicked == Seen \subseteq HavePicked /\ \A b \in FileBatches : ToSet(batch[b].rest) \subseteq HavePicked

(* When nothing crossed and nothing was lost.                                 *)
OnceEach ==
  /\ \A i, j \in DOMAIN attached : attached[i] = attached[j] => i = j
  /\ \A t \in FileTabs : toSave[t] # << >> => \E p \in puts : p.by = t
  /\ \A p \in puts : p.answer = Pending => p.files = << >> \/ \E f \in Accepted : p.files = <<f>> /\ f \notin ToSet(attached)
Everything == [i \in 1..Len(attached) |-> i]
ListsFollow ==
  /\ puts # {} => news = {} /\ \A t \in FileTabs : reading[t] = Pending
  /\ \A p \in puts : \A t \in (FileTabs \ offline) \cup {p.by} :
       (IF p.answer = Pending THEN listed[t] ELSE listed[t] \o p.answer) = Everything
  /\ \A m \in news : m.ids = Everything
  /\ \A t \in FileTabs : reading[t] # Pending => reading[t] = Everything
  /\ puts = {} => \A t \in FileTabs \ offline :
       listed[t] = Everything \/ (\E m \in news : m.to = t) \/ reading[t] # Pending

FilesInv ==
  /\ FilesTypes /\ NothingForgotten /\ AheadIsNew /\ AllArePicked
  /\ "crossed" \notin marks => OneSave
  /\ marks = {} => OnceEach /\ ListsFollow

-----------------------------------------------------------------------------
(* What a sequence holds after an append, without its head, after a join.     *)
LEMMA Appended ==
  ASSUME NEW S, NEW s \in Seq(S), NEW x \in S
  PROVE  Append(s, x) \in Seq(S) /\ ToSet(Append(s, x)) = ToSet(s) \cup {x}
<1>1. Append(s, x) \in Seq(S) /\ Len(s) \in Nat /\ DOMAIN s = 1..Len(s)
  OBVIOUS
<1>2. /\ DOMAIN Append(s, x) = 1..(Len(s) + 1)
      /\ \A i \in 1..Len(s) : Append(s, x)[i] = s[i]
      /\ Append(s, x)[Len(s) + 1] = x
  OBVIOUS
<1>3. 1..(Len(s) + 1) = 1..Len(s) \cup {Len(s) + 1}
  BY <1>1
<1> QED
  BY <1>1, <1>2, <1>3 DEF ToSet

LEMMA Tailed ==
  ASSUME NEW S, NEW s \in Seq(S), s # << >>
  PROVE  /\ Tail(s) \in Seq(S) /\ Head(s) \in S /\ ToSet(s) = ToSet(Tail(s)) \cup {Head(s)}
         /\ 1 \in DOMAIN s /\ Head(s) = s[1]
         /\ \A i \in DOMAIN Tail(s) : i + 1 \in DOMAIN s /\ Tail(s)[i] = s[i + 1] /\ i + 1 # 1
         /\ \A i, j \in DOMAIN Tail(s) : i + 1 = j + 1 => i = j
<1>1. Len(s) \in Nat /\ Len(s) # 0 /\ DOMAIN s = 1..Len(s) /\ Head(s) = s[1] /\ Tail(s) \in Seq(S)
  OBVIOUS
<1>2. /\ DOMAIN Tail(s) = 1..(Len(s) - 1)
      /\ \A i \in 1..(Len(s) - 1) : Tail(s)[i] = s[i + 1]
  OBVIOUS
<1>3. 1 \in DOMAIN s /\ s[1] \in S
  BY <1>1
<1>4. \A i \in DOMAIN Tail(s) : i + 1 \in DOMAIN s /\ Tail(s)[i] = s[i + 1] /\ i + 1 # 1
  BY <1>1, <1>2
<1>5. \A i \in DOMAIN s : i = 1 \/ (i - 1 \in DOMAIN Tail(s) /\ Tail(s)[i - 1] = s[i])
  BY <1>1, <1>2
<1>6. ToSet(s) \subseteq ToSet(Tail(s)) \cup {Head(s)}
  BY <1>1, <1>5 DEF ToSet
<1>7. ToSet(Tail(s)) \cup {Head(s)} \subseteq ToSet(s)
  BY <1>1, <1>3, <1>4 DEF ToSet
<1>8. \A i, j \in DOMAIN Tail(s) : i + 1 = j + 1 => i = j
  BY <1>1, <1>2
<1> QED
  BY <1>1, <1>3, <1>4, <1>6, <1>7, <1>8

LEMMA Joined ==
  ASSUME NEW S, NEW s \in Seq(S), NEW u \in Seq(S)
  PROVE  s \o u \in Seq(S) /\ ToSet(s \o u) = ToSet(s) \cup ToSet(u)
<1>1. s \o u \in Seq(S) /\ Len(s) \in Nat /\ Len(u) \in Nat /\ DOMAIN s = 1..Len(s) /\ DOMAIN u = 1..Len(u)
  OBVIOUS
<1>2. /\ DOMAIN (s \o u) = 1..(Len(s) + Len(u))
      /\ \A i \in 1..(Len(s) + Len(u)) : (s \o u)[i] = IF i <= Len(s) THEN s[i] ELSE u[i - Len(s)]
  OBVIOUS
<1>3. ASSUME NEW i \in 1..(Len(s) + Len(u)) PROVE (s \o u)[i] \in ToSet(s) \cup ToSet(u)
  <2>1. CASE i <= Len(s)
    BY <1>1, <1>2, <2>1 DEF ToSet
  <2>2. CASE ~(i <= Len(s))
    <3>1. i - Len(s) \in DOMAIN u
      BY <1>1, <2>2
    <3> QED
      BY <1>2, <2>2, <3>1 DEF ToSet
  <2> QED
    BY <2>1, <2>2
<1>4. ASSUME NEW i \in DOMAIN s PROVE s[i] \in ToSet(s \o u)
  <2>1. i \in 1..(Len(s) + Len(u)) /\ i <= Len(s)
    BY <1>1
  <2> QED
    BY <1>2, <2>1 DEF ToSet
<1>5. ASSUME NEW i \in DOMAIN u PROVE u[i] \in ToSet(s \o u)
  <2>1. Len(s) + i \in 1..(Len(s) + Len(u)) /\ ~(Len(s) + i <= Len(s)) /\ Len(s) + i - Len(s) = i
    BY <1>1
  <2>2. (s \o u)[Len(s) + i] = u[i]
    BY <1>2, <2>1
  <2> QED
    BY <1>2, <2>1, <2>2 DEF ToSet
<1> QED
  BY <1>1, <1>2, <1>3, <1>4, <1>5 DEF ToSet

(* Members of a sequence are what stands at its places.                       *)
LEMMA InTheSet ==
  ASSUME NEW S, NEW s \in Seq(S)
  PROVE  ToSet(s) \subseteq S /\ (s = << >> => ToSet(s) = {}) /\ (ToSet(s) = {} => s = << >>)
<1>1. Len(s) \in Nat /\ DOMAIN s = 1..Len(s) /\ \A i \in DOMAIN s : s[i] \in S
  OBVIOUS
<1>2. ASSUME ToSet(s) = {} PROVE s = << >>
  <2>1. DOMAIN s = {}
    BY <1>2 DEF ToSet
  <2>2. Len(s) = 0
    BY <1>1, <2>1
  <2> QED
    BY <2>2
<1>3. s = << >> => ToSet(s) = {}
  BY DEF ToSet
<1> QED
  BY <1>1, <1>2, <1>3 DEF ToSet

LEMMA EverythingIsIds ==
  ASSUME FilesTypes
  PROVE  Everything \in Seq(Nat) /\ Len(Everything) = Len(attached)
<1>1. Len(attached) \in Nat
  BY DEF FilesTypes
<1> QED
  BY <1>1 DEF Everything

-----------------------------------------------------------------------------
(* Steps that write nothing: what tabs are told, read and list.               *)
LEMMA OnlyLists ==
  ASSUME FilesInv, FilesTypes', UNCHANGED <<attached, toSave, batch, puts, picked>>,
         marks \subseteq marks', marks' = {} => ListsFollow'
  PROVE  FilesInv'
<1>1. NothingForgotten' /\ AheadIsNew' /\ AllArePicked'
  <2>1. NothingForgotten'
    BY DEF FilesInv, NothingForgotten, Ahead, Carried, Wanted
  <2>2. AheadIsNew'
    BY DEF FilesInv, AheadIsNew, Seen
  <2>3. AllArePicked'
    BY DEF FilesInv, AllArePicked, Seen, HavePicked
  <2> QED
    BY <2>1, <2>2, <2>3
<1>2. "crossed" \notin marks' => OneSave'
  BY DEF FilesInv, OneSave
<1>3. marks' = {} => OnceEach'
  BY DEF FilesInv, OnceEach
<1> QED
  BY <1>1, <1>2, <1>3 DEF FilesInv

(* One lemma per action: messages, connections and lists first.               *)
LEMMA HearFilesKeeps ==
  ASSUME FilesInv, NEW m \in news, HearFiles(m)
  PROVE  FilesInv'
<1>1. m \in FileNews /\ m.to \in FileTabs /\ m.ids \in Seq(Nat)
  BY DEF FilesInv, FilesTypes, FileNews
<1>2. /\ news' = news \ {m} /\ listed' = [listed EXCEPT ![m.to] = m.ids]
      /\ UNCHANGED <<attached, toSave, batch, puts, reading, offline, picked, marks>>
  BY DEF HearFiles
<1>3. FilesTypes'
  BY <1>1, <1>2 DEF FilesInv, FilesTypes
<1>4. ASSUME marks' = {} PROVE ListsFollow'
  <2>1. ListsFollow /\ listed \in [FileTabs -> Seq(Nat)]
    BY <1>2, <1>4 DEF FilesInv, FilesTypes
  <2>2. Everything' = Everything
    BY <1>2 DEF Everything
  <2>3. puts = {} /\ m.ids = Everything
    BY <2>1 DEF ListsFollow
  <2>4. \A t \in FileTabs : listed'[t] = IF t = m.to THEN Everything ELSE listed[t]
    BY <1>2, <2>1, <2>3
  <2> QED
    BY <1>2, <2>1, <2>2, <2>3, <2>4 DEF ListsFollow
<1> QED
  BY <1>2, <1>3, <1>4, OnlyLists

LEMMA GoOfflineKeeps ==
  ASSUME FilesInv, NEW t \in FileTabs, GoOffline(t)
  PROVE  FilesInv'
<1>1. /\ t \notin offline /\ offline' = offline \cup {t} /\ news' = {m \in news : m.to # t}
      /\ UNCHANGED <<attached, listed, toSave, batch, puts, reading, picked, marks>>
  BY DEF GoOffline
<1>2. FilesTypes'
  BY <1>1 DEF FilesInv, FilesTypes
<1>3. ASSUME marks' = {} PROVE ListsFollow'
  <2>1. ListsFollow
    BY <1>1, <1>3 DEF FilesInv
  <2>2. Everything' = Everything
    BY <1>1 DEF Everything
  <2>3. /\ \A u \in (FileTabs \ offline') : u \in FileTabs \ offline
        /\ \A u \in FileTabs \ offline' : (\E m \in news : m.to = u) => \E m \in news' : m.to = u
    BY <1>1
  <2> QED
    BY <1>1, <2>1, <2>2, <2>3 DEF ListsFollow
<1> QED
  BY <1>1, <1>2, <1>3, OnlyLists

LEMMA BackOnlineKeeps ==
  ASSUME FilesInv, NEW t \in FileTabs, BackOnline(t)
  PROVE  FilesInv'
<1>1. FilesTypes
  BY DEF FilesInv
<1>2. /\ offline' = offline \ {t} /\ reading' = [reading EXCEPT ![t] = Everything]
      /\ UNCHANGED <<attached, listed, toSave, batch, puts, news, picked>>
  BY DEF BackOnline, Everything
<1>3. /\ marks \subseteq marks' /\ marks' \subseteq {"crossed", "lost"}
      /\ "crossed" \notin marks' => ~GoingRound
  BY <1>1 DEF BackOnline, FilesTypes, SaveBegins
<1>4. Everything \in Seq(Nat) /\ Everything # Pending
  BY <1>1, EverythingIsIds, FilesAssumption DEF FilesAssumption
<1>5. FilesTypes'
  BY <1>1, <1>2, <1>3, <1>4 DEF FilesTypes
<1>6. ASSUME marks' = {} PROVE ListsFollow'
  <2>1. ListsFollow /\ ~GoingRound
    BY <1>3, <1>6 DEF FilesInv
  <2>2. puts = {} /\ news = {} /\ \A u \in FileTabs : reading[u] = Pending
    BY <2>1 DEF GoingRound
  <2>3. Everything' = Everything
    BY <1>2 DEF Everything
  <2>4. \A u \in FileTabs : reading'[u] = IF u = t THEN Everything ELSE Pending
    BY <1>1, <1>2, <2>2 DEF FilesTypes
  <2> QED
    BY <1>2, <1>4, <2>1, <2>2, <2>3, <2>4 DEF ListsFollow
<1> QED
  BY <1>2, <1>3, <1>5, <1>6, OnlyLists

LEMMA ReadAgainKeeps ==
  ASSUME FilesInv, NEW t \in FileTabs, ReadAgain(t)
  PROVE  FilesInv'
<1>1. FilesTypes
  BY DEF FilesInv
<1>2. /\ reading[t] # Pending /\ listed' = [listed EXCEPT ![t] = reading[t]]
      /\ reading' = [reading EXCEPT ![t] = Pending]
      /\ UNCHANGED <<attached, toSave, batch, puts, news, offline, picked, marks>>
  BY DEF ReadAgain
<1>3. reading[t] \in Seq(Nat)
  BY <1>1, <1>2 DEF FilesTypes
<1>4. FilesTypes'
  BY <1>1, <1>2, <1>3 DEF FilesTypes
<1>5. ASSUME marks' = {} PROVE ListsFollow'
  <2>1. ListsFollow
    BY <1>2, <1>5 DEF FilesInv
  <2>2. puts = {} /\ reading[t] = Everything
    BY <1>2, <2>1 DEF ListsFollow
  <2>3. Everything' = Everything
    BY <1>2 DEF Everything
  <2>4. \A u \in FileTabs : /\ listed'[u] = IF u = t THEN Everything ELSE listed[u]
                            /\ reading'[u] = IF u = t THEN Pending ELSE reading[u]
    BY <1>1, <1>2, <2>2 DEF FilesTypes
  <2> QED
    BY <1>2, <2>1, <2>2, <2>3, <2>4 DEF ListsFollow
<1> QED
  BY <1>2, <1>4, <1>5, OnlyLists

-----------------------------------------------------------------------------
(* Pickings.                                                                  *)
LEMMA RestsAreSeqs ==
  ASSUME FilesTypes, NEW b \in FileBatches
  PROVE  /\ batch[b] \in FileBatch /\ batch[b].rest \in Seq(PickedFiles)
         /\ \A i \in DOMAIN batch[b].rest : batch[b].rest[i] \in ToSet(batch[b].rest) /\ batch[b].rest[i] \in PickedFiles
BY DEF FilesTypes, FileBatch, ToSet

LEMMA RestsStay ==
  ASSUME FilesInv, \A b \in FileBatches : batch'[b].rest = batch[b].rest,
         Seen' \subseteq Seen, picked' = picked
  PROVE  AheadIsNew' /\ AllArePicked'
<1>1. FilesTypes /\ AheadIsNew /\ AllArePicked
  BY DEF FilesInv
<1>2. AheadIsNew'
  <2>1. ASSUME NEW b \in FileBatches, NEW i \in DOMAIN batch'[b].rest PROVE batch'[b].rest[i] \notin Seen'
    BY <1>1, <2>1 DEF AheadIsNew
  <2> QED
    BY <1>1, <2>1 DEF AheadIsNew
<1>3. AllArePicked'
  <2>1. HavePicked' = HavePicked
    BY DEF HavePicked
  <2> QED
    BY <1>1, <2>1 DEF AllArePicked
<1> QED
  BY <1>2, <1>3

(* The first file of a picking leaves it.                                     *)
LEMMA RestShrinks ==
  ASSUME FilesInv, NEW b \in FileBatches, batch[b].rest # << >>,
         batch'[b].rest = Tail(batch[b].rest), \A c \in FileBatches \ {b} : batch'[c].rest = batch[c].rest,
         Seen' \subseteq Seen \cup {Head(batch[b].rest)}, picked' = picked
  PROVE  AheadIsNew' /\ AllArePicked'
<1>1. FilesTypes /\ AheadIsNew /\ AllArePicked
  BY DEF FilesInv
<1>2. PICK rest : rest = batch[b].rest
  OBVIOUS
<1>3. rest \in Seq(PickedFiles) /\ rest # << >>
  BY <1>1, <1>2, RestsAreSeqs
<1>4. /\ ToSet(rest) = ToSet(Tail(rest)) \cup {Head(rest)}
      /\ 1 \in DOMAIN rest /\ Head(rest) = rest[1] /\ Head(rest) \in PickedFiles
      /\ \A i \in DOMAIN Tail(rest) : i + 1 \in DOMAIN rest /\ Tail(rest)[i] = rest[i + 1] /\ i + 1 # 1
      /\ \A i, j \in DOMAIN Tail(rest) : i + 1 = j + 1 => i = j
  BY <1>3, Tailed
<1>5. /\ \A c \in FileBatches : \A i \in DOMAIN batch[c].rest : batch[c].rest[i] \notin Seen
      /\ \A c, d \in FileBatches : \A i \in DOMAIN batch[c].rest, j \in DOMAIN batch[d].rest :
           batch[c].rest[i] = batch[d].rest[j] => c = d /\ i = j
  BY <1>1 DEF AheadIsNew
<1>6. ASSUME NEW c \in FileBatches, NEW i \in DOMAIN batch'[c].rest
      PROVE  \E k \in DOMAIN batch[c].rest : /\ batch'[c].rest[i] = batch[c].rest[k]
                                             /\ (c = b => k = i + 1) /\ (c # b => k = i) /\ (c = b => k # 1)
  <2>1. CASE c = b
    <3>1. i \in DOMAIN Tail(rest) /\ batch'[c].rest[i] = Tail(rest)[i]
      BY <1>2, <1>6, <2>1
    <3> QED
      BY <1>2, <1>4, <2>1, <3>1
  <2>2. CASE c # b
    BY <1>6, <2>2
  <2> QED
    BY <2>1, <2>2
<1>7. ASSUME NEW c \in FileBatches, NEW i \in DOMAIN batch'[c].rest PROVE batch'[c].rest[i] \notin Seen'
  <2>1. PICK k \in DOMAIN batch[c].rest : batch'[c].rest[i] = batch[c].rest[k] /\ (c = b => k # 1)
    BY <1>6, <1>7
  <2>2. batch[c].rest[k] \notin Seen
    BY <1>5, <2>1
  <2>3. batch[c].rest[k] # Head(rest)
    BY <1>2, <1>4, <1>5, <2>1
  <2> QED
    BY <1>2, <2>1, <2>2, <2>3
<1>8. ASSUME NEW c \in FileBatches, NEW d \in FileBatches,
             NEW i \in DOMAIN batch'[c].rest, NEW j \in DOMAIN batch'[d].rest,
             batch'[c].rest[i] = batch'[d].rest[j]
      PROVE  c = d /\ i = j
  <2>1. PICK k \in DOMAIN batch[c].rest :
          /\ batch'[c].rest[i] = batch[c].rest[k] /\ (c = b => k = i + 1) /\ (c # b => k = i)
    BY <1>6, <1>8
  <2>2. PICK l \in DOMAIN batch[d].rest :
          /\ batch'[d].rest[j] = batch[d].rest[l] /\ (d = b => l = j + 1) /\ (d # b => l = j)
    BY <1>6, <1>8
  <2>3. c = d /\ k = l
    <3>1. batch[c].rest[k] = batch[d].rest[l]
      BY <1>8, <2>1, <2>2
    <3> QED
      BY <1>5, <3>1
  <2>4. CASE c = b
    <3>1. i \in DOMAIN Tail(rest) /\ j \in DOMAIN Tail(rest) /\ i + 1 = j + 1
      BY <1>2, <1>8, <2>1, <2>2, <2>3, <2>4
    <3> QED
      BY <1>4, <2>3, <3>1
  <2>5. CASE c # b
    BY <2>1, <2>2, <2>3, <2>5
  <2> QED
    BY <2>4, <2>5
<1>9. AheadIsNew'
  BY <1>7, <1>8 DEF AheadIsNew
<1>10. AllArePicked'
  <2>1. HavePicked' = HavePicked
    BY DEF HavePicked
  <2>2. Head(rest) \in HavePicked
    BY <1>1, <1>2, <1>4 DEF AllArePicked
  <2>3. Seen' \subseteq HavePicked
    BY <1>1, <1>2, <2>2 DEF AllArePicked
  <2>4. \A c \in FileBatches : ToSet(batch'[c].rest) \subseteq ToSet(batch[c].rest)
    BY <1>2, <1>4
  <2>5. \A c \in FileBatches : ToSet(batch'[c].rest) \subseteq HavePicked
    BY <1>1, <2>4 DEF AllArePicked
  <2> QED
    BY <2>1, <2>3, <2>5 DEF AllArePicked
<1> QED
  BY <1>9, <1>10

LEMMA OnlyPickings ==
  ASSUME FilesInv, UNCHANGED <<attached, listed, toSave, puts, news, reading, offline, marks>>
  PROVE  /\ "crossed" \notin marks' => OneSave'
         /\ marks' = {} => OnceEach' /\ ListsFollow'
         /\ Seen' = Seen /\ \A f : Carried(f)' = Carried(f)
<1>1. "crossed" \notin marks' => OneSave'
  BY DEF FilesInv, OneSave
<1>2. marks' = {} => OnceEach'
  BY DEF FilesInv, OnceEach
<1>3. marks' = {} => ListsFollow'
  BY DEF FilesInv, ListsFollow, Everything
<1>4. Seen' = Seen /\ \A f : Carried(f)' = Carried(f)
  BY DEF Seen, Carried
<1> QED
  BY <1>1, <1>2, <1>3, <1>4

LEMMA PickFilesKeeps ==
  ASSUME FilesInv, NEW t \in FileTabs, NEW b \in FileBatches, NEW files \in Seq(PickedFiles),
         \A i, j \in DOMAIN files : files[i] = files[j] => i = j, PickFiles(t, b, files)
  PROVE  FilesInv'
<1>1. FilesTypes /\ NothingForgotten /\ AheadIsNew /\ AllArePicked
  BY DEF FilesInv
<1>2. PICK new : new = [tab |-> t, rest |-> files, step |-> "next"]
  OBVIOUS
<1>3. new \in FileBatch /\ new.tab = t /\ new.rest = files /\ new.step = "next"
  BY <1>2 DEF FileBatch
<1>4. /\ batch[b] = NoBatch /\ \A f \in ToSet(files) : \A u \in FileTabs : <<u, f>> \notin picked
      /\ batch' = [batch EXCEPT ![b] = new] /\ picked' = picked \cup ({t} \X ToSet(files))
      /\ UNCHANGED <<attached, listed, toSave, puts, news, reading, offline, marks>>
  BY <1>2 DEF PickFiles
<1>5. \A c \in FileBatches : batch'[c] = IF c = b THEN new ELSE batch[c]
  BY <1>1, <1>4 DEF FilesTypes
<1>6. ToSet(files) \subseteq PickedFiles /\ \A i \in DOMAIN files : files[i] \in ToSet(files)
  BY DEF ToSet
<1>7. FilesTypes'
  <2>1. batch' \in [FileBatches -> FileBatch] /\ picked' \subseteq FileTabs \X PickedFiles
    BY <1>1, <1>3, <1>4, <1>6 DEF FilesTypes
  <2>2. \A c \in FileBatches : batch'[c].rest # << >> => batch'[c].tab \in FileTabs
    BY <1>1, <1>3, <1>5 DEF FilesTypes
  <2>3. \A c \in FileBatches : batch'[c].step = "upload" => batch'[c].rest # << >> /\ Head(batch'[c].rest) \in Accepted
    BY <1>1, <1>3, <1>5 DEF FilesTypes
  <2> QED
    BY <1>1, <1>4, <2>1, <2>2, <2>3 DEF FilesTypes
<1>8. /\ "crossed" \notin marks' => OneSave'
      /\ marks' = {} => OnceEach' /\ ListsFollow'
      /\ Seen' = Seen /\ \A f : Carried(f)' = Carried(f)
  BY <1>4, OnlyPickings
<1>9. ToSet(batch[b].rest) = {} /\ DOMAIN batch[b].rest = {}
  BY <1>4 DEF NoBatch, ToSet
<1>10. NothingForgotten'
  <2> SUFFICES ASSUME NEW w \in Wanted'
               PROVE  \/ Ahead(w[1], w[2])' \/ w[2] \in ToSet(attached)
                      \/ /\ "lost" \notin marks => Carried(w[2])
                         /\ "crossed" \notin marks => w[2] \in ToSet(toSave[w[1]])
    BY <1>4, <1>8 DEF NothingForgotten
  <2>1. CASE w \in picked
    <3>1. w \in Wanted
      BY <2>1 DEF Wanted
    <3>2. Ahead(w[1], w[2]) => Ahead(w[1], w[2])'
      BY <1>5, <1>9 DEF Ahead
    <3> QED
      BY <1>1, <3>1, <3>2 DEF NothingForgotten
  <2>2. CASE w \in {t} \X ToSet(files)
    <3>1. w[1] = t /\ w[2] \in ToSet(files)
      BY <2>2
    <3>2. Ahead(w[1], w[2])'
      BY <1>3, <1>5, <3>1 DEF Ahead
    <3> QED
      BY <3>2
  <2> QED
    BY <1>4, <2>1, <2>2 DEF Wanted
<1>11. \A f \in ToSet(files) : f \notin HavePicked /\ f \notin Seen
  BY <1>1, <1>4, <1>6 DEF HavePicked, AllArePicked
<1>12. AheadIsNew'
  <2>1. ASSUME NEW c \in FileBatches, NEW i \in DOMAIN batch'[c].rest PROVE batch'[c].rest[i] \notin Seen
    BY <1>1, <1>3, <1>5, <1>6, <1>11, <2>1 DEF AheadIsNew
  <2>2. ASSUME NEW c \in FileBatches, NEW d \in FileBatches,
               NEW i \in DOMAIN batch'[c].rest, NEW j \in DOMAIN batch'[d].rest,
               batch'[c].rest[i] = batch'[d].rest[j]
        PROVE  c = d /\ i = j
    <3>1. CASE c = b /\ d = b
      BY <1>3, <1>5, <2>2, <3>1
    <3>2. CASE c # b /\ d # b
      BY <1>1, <1>5, <2>2, <3>2 DEF AheadIsNew
    <3>3. ASSUME NEW e \in FileBatches, e # b, NEW k \in DOMAIN batch[e].rest PROVE batch[e].rest[k] \in HavePicked
      BY <1>1, <3>3, RestsAreSeqs DEF AllArePicked
    <3>4. CASE c = b /\ d # b
      BY <1>3, <1>5, <1>6, <1>11, <2>2, <3>3, <3>4
    <3>5. CASE c # b /\ d = b
      BY <1>3, <1>5, <1>6, <1>11, <2>2, <3>3, <3>5
    <3> QED
      BY <3>1, <3>2, <3>4, <3>5
  <2> QED
    BY <1>8, <2>1, <2>2 DEF AheadIsNew
<1>13. AllArePicked'
  <2>1. HavePicked \subseteq HavePicked' /\ ToSet(files) \subseteq HavePicked'
    BY <1>4, <1>6 DEF HavePicked
  <2>2. \A c \in FileBatches : ToSet(batch'[c].rest) \subseteq HavePicked'
    BY <1>1, <1>3, <1>5, <2>1 DEF AllArePicked
  <2> QED
    BY <1>1, <1>8, <2>1, <2>2 DEF AllArePicked
<1> QED
  BY <1>7, <1>8, <1>10, <1>12, <1>13 DEF FilesInv

LEMMA NextFileKeeps ==
  ASSUME FilesInv, NEW b \in FileBatches, NextFile(b)
  PROVE  FilesInv'
<1>1. FilesTypes /\ NothingForgotten
  BY DEF FilesInv
<1>2. PICK old : old = batch[b]
  OBVIOUS
<1>3. PICK new : new = (IF old.rest = << >> THEN NoBatch
                        ELSE IF Head(old.rest) \in Accepted THEN [old EXCEPT !.step = "upload"]
                        ELSE [old EXCEPT !.rest = Tail(old.rest)])
  OBVIOUS
<1>4. /\ batch' = [batch EXCEPT ![b] = new] /\ old.step = "next"
      /\ UNCHANGED <<attached, listed, toSave, puts, news, reading, offline, picked, marks>>
  <2>1. batch' = [batch EXCEPT ![b] = new]
    <3>1. batch' = [batch EXCEPT ![b] =
            IF batch[b].rest = << >> THEN NoBatch
            ELSE IF Head(batch[b].rest) \in Accepted THEN [batch[b] EXCEPT !.step = "upload"]
            ELSE [batch[b] EXCEPT !.rest = Tail(batch[b].rest)]]
      BY DEF NextFile
    <3> QED
      BY <1>2, <1>3, <3>1
  <2> QED
    BY <1>2, <2>1 DEF NextFile
<1>5. \A c \in FileBatches : batch'[c] = IF c = b THEN new ELSE batch[c]
  BY <1>1, <1>4 DEF FilesTypes
<1>6. old \in FileBatch /\ old.rest \in Seq(PickedFiles) /\ (old.rest # << >> => old.tab \in FileTabs)
  BY <1>1, <1>2 DEF FilesTypes, FileBatch
<1>7. \/ /\ old.rest = << >> /\ new = NoBatch
         /\ new \in FileBatch /\ new.rest = << >> /\ new.step # "upload"
      \/ /\ old.rest # << >> /\ Head(old.rest) \in Accepted /\ new \in FileBatch
         /\ new.rest = old.rest /\ new.tab = old.tab
      \/ /\ old.rest # << >> /\ Head(old.rest) \notin Accepted /\ new \in FileBatch
         /\ new.rest = Tail(old.rest) /\ new.tab = old.tab /\ new.step = "next"
  <2>1. CASE old.rest = << >>
    <3>1. << >> \in Seq(PickedFiles)
      OBVIOUS
    <3> QED
      BY <1>3, <2>1, <3>1 DEF NoBatch, FileBatch
  <2>2. CASE old.rest # << >> /\ Head(old.rest) \in Accepted
    BY <1>3, <1>6, <2>2 DEF FileBatch
  <2>3. CASE old.rest # << >> /\ Head(old.rest) \notin Accepted
    <3>1. PICK rest : rest = Tail(old.rest) /\ rest \in Seq(PickedFiles)
      BY <1>6, <2>3, Tailed
    <3>2. new = [old EXCEPT !.rest = rest]
      BY <1>3, <2>3, <3>1
    <3> QED
      BY <1>4, <1>6, <2>3, <3>1, <3>2 DEF FileBatch
  <2> QED
    BY <2>1, <2>2, <2>3
<1>8. FilesTypes'
  <2>1. batch' \in [FileBatches -> FileBatch]
    BY <1>1, <1>4, <1>7 DEF FilesTypes
  <2>2. \A c \in FileBatches : batch'[c].rest # << >> => batch'[c].tab \in FileTabs
    BY <1>1, <1>5, <1>6, <1>7 DEF FilesTypes
  <2>3. \A c \in FileBatches : batch'[c].step = "upload" => batch'[c].rest # << >> /\ Head(batch'[c].rest) \in Accepted
    BY <1>1, <1>5, <1>7 DEF FilesTypes
  <2> QED
    BY <1>1, <1>4, <2>1, <2>2, <2>3 DEF FilesTypes
<1>9. /\ "crossed" \notin marks' => OneSave'
      /\ marks' = {} => OnceEach' /\ ListsFollow'
      /\ Seen' = Seen /\ \A f : Carried(f)' = Carried(f)
  BY <1>4, OnlyPickings
<1>10. ASSUME NEW w \in Wanted, Ahead(w[1], w[2]) PROVE Ahead(w[1], w[2])'
  <2>1. PICK c \in FileBatches : batch[c].tab = w[1] /\ w[2] \in ToSet(batch[c].rest)
    BY <1>10 DEF Ahead
  <2>2. w[2] \in Accepted
    BY DEF Wanted
  <2>3. CASE c # b
    BY <1>5, <2>1, <2>3 DEF Ahead
  <2>4. CASE c = b
    <3>1. old.rest # << >>
      BY <1>2, <1>6, <2>1, <2>4, InTheSet
    <3>2. ToSet(old.rest) = ToSet(Tail(old.rest)) \cup {Head(old.rest)}
      BY <1>6, <3>1, Tailed
    <3>3. w[2] \in ToSet(new.rest) /\ new.tab = w[1]
      BY <1>2, <1>7, <2>1, <2>2, <2>4, <3>1, <3>2
    <3> QED
      BY <1>5, <2>4, <3>3 DEF Ahead
  <2> QED
    BY <2>3, <2>4
<1>11. NothingForgotten'
  BY <1>1, <1>4, <1>9, <1>10 DEF NothingForgotten, Wanted
<1>12. AheadIsNew' /\ AllArePicked'
  <2>1. CASE new.rest = old.rest
    <3>1. \A c \in FileBatches : batch'[c].rest = batch[c].rest
      BY <1>2, <1>5, <2>1
    <3> QED
      BY <1>4, <1>9, <3>1, RestsStay
  <2>2. CASE old.rest # << >> /\ new.rest = Tail(old.rest)
    <3>1. batch'[b].rest = Tail(batch[b].rest) /\ \A c \in FileBatches \ {b} : batch'[c].rest = batch[c].rest
      BY <1>2, <1>5, <2>2
    <3> QED
      BY <1>2, <1>4, <1>9, <2>2, <3>1, RestShrinks
  <2> QED
    BY <1>7, <2>1, <2>2
<1> QED
  BY <1>8, <1>9, <1>11, <1>12 DEF FilesInv

-----------------------------------------------------------------------------
(* Saves.                                                                     *)
LEMMA SendSends ==
  ASSUME NEW t \in FileTabs, NEW b \in FileBatches \cup {Pending}, NEW files \in Seq(Accepted), Send(t, b, files)
  PROVE  \E q \in FilePut : q.by = t /\ q.files = files /\ q.answer = Pending /\ puts' = puts \cup {q}
<1>1. PICK twin \in {1, 2} : twin = IF \E p \in puts : p.by = t /\ p.for = b /\ p.files = files THEN 2 ELSE 1
  OBVIOUS
<1>2. PICK q : q = [by |-> t, for |-> b, files |-> files, answer |-> Pending, twin |-> twin]
  OBVIOUS
<1>3. q \in FilePut /\ q.by = t /\ q.files = files /\ q.answer = Pending
  BY <1>2 DEF FilePut
<1>4. puts' = puts \cup {q}
  BY <1>1, <1>2 DEF Send
<1> QED
  BY <1>3, <1>4

LEMMA SaveStarts ==
  ASSUME FilesInv, NEW q \in FilePut, q.answer = Pending, puts' = puts \cup {q},
         UNCHANGED <<attached, listed, news, reading, offline>>, marks \subseteq marks',
         "crossed" \notin marks' => ~GoingRound /\ q.by \notin offline,
         toSave' \in [FileTabs -> Seq(Accepted)], q.files = toSave'[q.by],
         \A t \in FileTabs \ {q.by} : toSave'[t] = toSave[t],
         q.files = toSave[q.by] \/ \E f \in Accepted : f \notin ToSet(attached) /\ q.files = Append(toSave[q.by], f)
  PROVE  /\ "crossed" \notin marks' => OneSave'
         /\ marks' = {} => OnceEach' /\ ListsFollow'
<1>1. q.by \in FileTabs
  BY DEF FilePut
<1>2. "crossed" \notin marks' =>
         puts = {} /\ news = {} /\ (\A t \in FileTabs : reading[t] = Pending) /\ q.by \notin offline
  BY DEF GoingRound
<1>3. "crossed" \notin marks' => OneSave'
  BY <1>2 DEF OneSave
<1>4. ASSUME marks' = {} PROVE OnceEach'
  <2>1. OnceEach /\ puts = {}
    BY <1>2, <1>4 DEF FilesInv
  <2>2. \A t \in FileTabs : toSave[t] = << >>
    BY <2>1 DEF OnceEach
  <2>3. q.files = << >> \/ \E f \in Accepted : q.files = <<f>> /\ f \notin ToSet(attached)
    <3>1. \A f : Append(<< >>, f) = <<f>>
      OBVIOUS
    <3> QED
      BY <1>1, <2>2, <3>1
  <2>4. \A t \in FileTabs : toSave'[t] # << >> => t = q.by
    BY <2>2
  <2> QED
    BY <2>1, <2>3, <2>4 DEF OnceEach
<1>5. ASSUME marks' = {} PROVE ListsFollow'
  <2>1. ListsFollow /\ puts = {} /\ news = {} /\ (\A t \in FileTabs : reading[t] = Pending) /\ q.by \notin offline
    BY <1>2, <1>5 DEF FilesInv
  <2>2. \A t \in FileTabs \ offline : listed[t] = Everything
    BY <2>1 DEF ListsFollow
  <2>3. Everything' = Everything
    BY DEF Everything
  <2>4. \A t \in (FileTabs \ offline) \cup {q.by} : listed[t] = Everything
    BY <1>1, <2>1, <2>2
  <2> QED
    BY <2>1, <2>3, <2>4 DEF ListsFollow
<1> QED
  BY <1>3, <1>4, <1>5

LEMMA UploadedKeeps ==
  ASSUME FilesInv, NEW b \in FileBatches, Uploaded(b)
  PROVE  FilesInv'
<1>1. FilesTypes /\ NothingForgotten /\ AheadIsNew
  BY DEF FilesInv
<1>2. PICK old : old = batch[b]
  OBVIOUS
<1>3. /\ old \in FileBatch /\ old.rest \in Seq(PickedFiles) /\ old.rest # << >> /\ old.tab \in FileTabs
      /\ Head(old.rest) \in Accepted
  BY <1>1, <1>2 DEF Uploaded, FilesTypes, FileBatch
<1>4. PICK t \in FileTabs, f \in Accepted : t = old.tab /\ f = Head(old.rest)
  BY <1>3
<1>5. PICK rest \in Seq(PickedFiles) : rest = Tail(old.rest) /\ ToSet(old.rest) = ToSet(rest) \cup {f}
  BY <1>3, <1>4, Tailed
<1>6. toSave[t] \in Seq(Accepted)
  BY <1>1 DEF FilesTypes
<1>7. PICK waiting \in Seq(Accepted) : waiting = Append(toSave[t], f) /\ ToSet(waiting) = ToSet(toSave[t]) \cup {f}
  BY <1>6, Appended
<1>8. /\ toSave' = [toSave EXCEPT ![t] = waiting] /\ Send(t, b, waiting)
      /\ SaveBegins(t \in offline)
      /\ UNCHANGED <<attached, listed, news, reading, offline, picked>>
  BY <1>2, <1>4, <1>7 DEF Uploaded
<1>9. PICK new : new = [old EXCEPT !.step = "save", !.rest = rest]
  OBVIOUS
<1>10. batch' = [batch EXCEPT ![b] = new]
  <2>1. batch' = [batch EXCEPT ![b].step = "save", ![b].rest = Tail(@)] /\ batch \in [FileBatches -> FileBatch]
    BY <1>1 DEF Uploaded, FilesTypes
  <2> QED
    BY <1>2, <1>5, <1>9, <2>1
<1>11. new \in FileBatch /\ new.tab = t /\ new.rest = rest /\ new.step = "save"
  BY <1>3, <1>4, <1>9 DEF FileBatch
<1>12. \A c \in FileBatches : batch'[c] = IF c = b THEN new ELSE batch[c]
  BY <1>1, <1>10 DEF FilesTypes
<1>13. PICK q \in FilePut : q.by = t /\ q.files = waiting /\ q.answer = Pending /\ puts' = puts \cup {q}
  BY <1>8, SendSends
<1>14. /\ marks \subseteq marks' /\ marks' \subseteq {"crossed", "lost"}
       /\ "lost" \in marks' => "lost" \in marks
       /\ "crossed" \notin marks' => ~GoingRound /\ t \notin offline
  BY <1>1, <1>8 DEF FilesTypes, SaveBegins
<1>15. \A u \in FileTabs : toSave'[u] = IF u = t THEN waiting ELSE toSave[u]
  BY <1>1, <1>8 DEF FilesTypes
<1>16. FilesTypes'
  <2>1. batch' \in [FileBatches -> FileBatch] /\ toSave' \in [FileTabs -> Seq(Accepted)] /\ puts' \subseteq FilePut
    BY <1>1, <1>8, <1>10, <1>11, <1>13 DEF FilesTypes
  <2>2. \A c \in FileBatches : batch'[c].rest # << >> => batch'[c].tab \in FileTabs
    BY <1>1, <1>11, <1>12 DEF FilesTypes
  <2>3. \A c \in FileBatches : batch'[c].step = "upload" => batch'[c].rest # << >> /\ Head(batch'[c].rest) \in Accepted
    BY <1>1, <1>11, <1>12 DEF FilesTypes
  <2> QED
    BY <1>1, <1>8, <1>14, <2>1, <2>2, <2>3 DEF FilesTypes
<1>17. NothingForgotten'
  <2> SUFFICES ASSUME NEW w \in Wanted
               PROVE  \/ Ahead(w[1], w[2])' \/ w[2] \in ToSet(attached)
                      \/ /\ "lost" \notin marks' => Carried(w[2])'
                         /\ "crossed" \notin marks' => w[2] \in ToSet(toSave'[w[1]])
    BY <1>8 DEF NothingForgotten, Wanted
  <2>1. w[1] \in FileTabs
    BY <1>1 DEF FilesTypes, Wanted
  <2>2. ASSUME Ahead(w[1], w[2]) PROVE Ahead(w[1], w[2])' \/ (w[2] = f /\ w[1] = t)
    <3>1. PICK c \in FileBatches : batch[c].tab = w[1] /\ w[2] \in ToSet(batch[c].rest)
      BY <2>2 DEF Ahead
    <3>2. CASE c # b
      BY <1>12, <3>1, <3>2 DEF Ahead
    <3>3. CASE c = b
      <4>1. w[1] = t /\ (w[2] \in ToSet(rest) \/ w[2] = f)
        BY <1>2, <1>4, <1>5, <3>1, <3>3
      <4> QED
        BY <1>11, <1>12, <3>3, <4>1 DEF Ahead
    <3> QED
      BY <3>2, <3>3
  <2>3. Carried(f)' /\ f \in ToSet(toSave'[t])
    BY <1>7, <1>13, <1>15 DEF Carried
  <2>4. Carried(w[2]) => Carried(w[2])'
    BY <1>13 DEF Carried
  <2>5. w[2] \in ToSet(toSave[w[1]]) => w[2] \in ToSet(toSave'[w[1]])
    BY <1>7, <1>15, <2>1
  <2>6. \/ Ahead(w[1], w[2]) \/ w[2] \in ToSet(attached)
        \/ /\ "lost" \notin marks => Carried(w[2])
           /\ "crossed" \notin marks => w[2] \in ToSet(toSave[w[1]])
    BY <1>1 DEF NothingForgotten
  <2> QED
    BY <1>14, <2>2, <2>3, <2>4, <2>5, <2>6
<1>18. AheadIsNew' /\ AllArePicked'
  <2>1. Seen' \subseteq Seen \cup {f}
    BY <1>7, <1>8, <1>13, <1>15 DEF Seen
  <2>2. batch'[b].rest = Tail(batch[b].rest) /\ \A c \in FileBatches \ {b} : batch'[c].rest = batch[c].rest
    BY <1>2, <1>5, <1>11, <1>12
  <2> QED
    BY <1>2, <1>3, <1>4, <1>8, <2>1, <2>2, RestShrinks
<1>19. f \notin ToSet(attached)
  <2>1. 1 \in DOMAIN batch[b].rest /\ batch[b].rest[1] = f
    BY <1>2, <1>3, <1>4, Tailed
  <2> QED
    BY <1>1, <2>1 DEF AheadIsNew, Seen
<1>20. /\ "crossed" \notin marks' => OneSave'
       /\ marks' = {} => OnceEach' /\ ListsFollow'
  <2>1. toSave' \in [FileTabs -> Seq(Accepted)] /\ q.files = toSave'[q.by]
    BY <1>13, <1>15, <1>16 DEF FilesTypes
  <2>2. \A u \in FileTabs \ {q.by} : toSave'[u] = toSave[u]
    BY <1>13, <1>15
  <2>3. \E g \in Accepted : g \notin ToSet(attached) /\ q.files = Append(toSave[q.by], g)
    BY <1>7, <1>13, <1>19
  <2> QED
    BY <1>8, <1>13, <1>14, <2>1, <2>2, <2>3, SaveStarts
<1> QED
  BY <1>16, <1>17, <1>18, <1>20 DEF FilesInv

LEMMA SaveAnotherKeeps ==
  ASSUME FilesInv, NEW t \in FileTabs, SaveAnother(t)
  PROVE  FilesInv'
<1>1. FilesTypes /\ NothingForgotten /\ toSave[t] \in Seq(Accepted)
  BY DEF FilesInv, FilesTypes
<1>2. /\ Send(t, Pending, toSave[t]) /\ SaveBegins(t \in offline)
      /\ UNCHANGED <<attached, listed, toSave, batch, news, reading, offline, picked>>
  BY DEF SaveAnother
<1>3. PICK q \in FilePut : q.by = t /\ q.files = toSave[t] /\ q.answer = Pending /\ puts' = puts \cup {q}
  BY <1>1, <1>2, SendSends
<1>4. /\ marks \subseteq marks' /\ marks' \subseteq {"crossed", "lost"}
      /\ "lost" \in marks' => "lost" \in marks
      /\ "crossed" \notin marks' => ~GoingRound /\ t \notin offline
  BY <1>1, <1>2 DEF FilesTypes, SaveBegins
<1>5. FilesTypes'
  BY <1>1, <1>2, <1>3, <1>4 DEF FilesTypes
<1>6. NothingForgotten'
  <2>1. \A f : Carried(f) => Carried(f)'
    BY <1>3 DEF Carried
  <2>2. \A u, f : Ahead(u, f)' = Ahead(u, f)
    BY <1>2 DEF Ahead
  <2> QED
    BY <1>1, <1>2, <1>4, <2>1, <2>2 DEF NothingForgotten, Wanted
<1>7. AheadIsNew' /\ AllArePicked'
  <2>1. Seen' \subseteq Seen
    BY <1>2, <1>3 DEF Seen
  <2> QED
    BY <1>2, <2>1, RestsStay
<1>8. /\ "crossed" \notin marks' => OneSave'
      /\ marks' = {} => OnceEach' /\ ListsFollow'
  BY <1>1, <1>2, <1>3, <1>4, SaveStarts DEF FilesTypes
<1> QED
  BY <1>5, <1>6, <1>7, <1>8 DEF FilesInv

-----------------------------------------------------------------------------
(* The row of a file, and the answer.                                         *)
LEMMA StoreFilesKeeps ==
  ASSUME FilesInv, NEW p \in puts, StoreFiles(p)
  PROVE  FilesInv'
<1>1. FilesTypes /\ NothingForgotten /\ p \in FilePut /\ attached \in Seq(Accepted) /\ Len(attached) \in Nat
  BY DEF FilesInv, FilesTypes
<1>2. p.by \in FileTabs /\ p.files \in Seq(Accepted)
  BY <1>1 DEF FilePut
<1>3. PICK answer \in Seq(Nat) : answer = IF p.files = << >> THEN << >> ELSE <<Len(attached) + 1>>
  <2>1. << >> \in Seq(Nat)
    OBVIOUS
  <2>2. PICK n \in Nat : n = Len(attached) + 1
    BY <1>1
  <2>3. <<n>> \in Seq(Nat)
    OBVIOUS
  <2> QED
    BY <2>1, <2>2, <2>3
<1>4. PICK q : q = [p EXCEPT !.answer = answer]
  OBVIOUS
<1>5. q \in FilePut /\ q.by = p.by /\ q.files = p.files /\ q.answer = answer /\ answer # Pending
  <2>1. answer # Pending
    BY <1>3, FilesAssumption DEF FilesAssumption
  <2> QED
    BY <1>1, <1>3, <1>4, <2>1 DEF FilePut
<1>6. /\ p.answer = Pending /\ attached' = attached \o p.files /\ puts' = (puts \ {p}) \cup {q}
      /\ UNCHANGED <<listed, toSave, batch, news, reading, offline, picked, marks>>
  BY <1>3, <1>4 DEF StoreFiles
<1>7. attached' \in Seq(Accepted) /\ ToSet(attached') = ToSet(attached) \cup ToSet(p.files)
  BY <1>1, <1>2, <1>6, Joined
<1>8. FilesTypes'
  BY <1>1, <1>5, <1>6, <1>7 DEF FilesTypes
<1>9. NothingForgotten'
  <2>1. \A f : Carried(f) => Carried(f)' \/ f \in ToSet(attached')
    BY <1>6, <1>7 DEF Carried
  <2>2. \A u, f : Ahead(u, f)' = Ahead(u, f)
    BY <1>6 DEF Ahead
  <2>3. ASSUME NEW w \in Wanted, w[2] \notin ToSet(attached'), ~Ahead(w[1], w[2])
        PROVE  /\ "lost" \notin marks => Carried(w[2])'
               /\ "crossed" \notin marks => w[2] \in ToSet(toSave[w[1]])
    <3>1. /\ "lost" \notin marks => Carried(w[2])
          /\ "crossed" \notin marks => w[2] \in ToSet(toSave[w[1]])
      BY <1>1, <1>7, <2>3 DEF NothingForgotten
    <3> QED
      BY <2>1, <2>3, <3>1
  <2> QED
    BY <1>6, <2>2, <2>3 DEF NothingForgotten, Wanted
<1>10. AheadIsNew' /\ AllArePicked'
  <2>1. Seen' \subseteq Seen
    BY <1>5, <1>6, <1>7 DEF Seen
  <2> QED
    BY <1>6, <2>1, RestsStay
<1>11. ASSUME "crossed" \notin marks' PROVE OneSave'
  <2>1. OneSave
    BY <1>6, <1>11 DEF FilesInv
  <2>2. puts' = {q} /\ p.files = toSave[p.by]
    BY <1>6, <2>1 DEF OneSave
  <2> QED
    BY <1>5, <1>6, <1>7, <2>2 DEF OneSave
<1>12. ASSUME marks' = {} PROVE OnceEach' /\ ListsFollow'
  <2>1. OneSave /\ OnceEach /\ ListsFollow
    BY <1>6, <1>12 DEF FilesInv
  <2>2. puts = {p} /\ puts' = {q}
    BY <1>6, <2>1 DEF OneSave
  <2>3. \/ p.files = << >> /\ attached' = attached /\ answer = << >>
        \/ /\ \E f \in Accepted : f \notin ToSet(attached) /\ attached' = Append(attached, f)
           /\ answer = <<Len(attached) + 1>>
    <3>1. p.files = << >> \/ \E f \in Accepted : p.files = <<f>> /\ f \notin ToSet(attached)
      BY <1>6, <2>1 DEF OnceEach
    <3>2. CASE p.files = << >>
      BY <1>1, <1>3, <1>6, <3>2
    <3>3. ASSUME NEW f \in Accepted, p.files = <<f>>, f \notin ToSet(attached)
          PROVE  attached' = Append(attached, f) /\ answer = <<Len(attached) + 1>>
      <4>1. attached \o <<f>> = Append(attached, f)
        BY <1>1
      <4>2. p.files # << >>
        BY <3>3
      <4> QED
        BY <1>3, <1>6, <3>3, <4>1, <4>2
    <3> QED
      BY <3>1, <3>2, <3>3
  <2>4. \A i, j \in DOMAIN attached' : attached'[i] = attached'[j] => i = j
    <3>1. \A i, j \in DOMAIN attached : attached[i] = attached[j] => i = j
      BY <2>1 DEF OnceEach
    <3>2. ASSUME NEW f \in Accepted, f \notin ToSet(attached), attached' = Append(attached, f),
                 NEW i \in DOMAIN attached', NEW j \in DOMAIN attached', attached'[i] = attached'[j]
          PROVE  i = j
      <4>1. /\ DOMAIN attached = 1..Len(attached) /\ DOMAIN attached' = 1..(Len(attached) + 1)
            /\ \A k \in 1..Len(attached) : attached'[k] = attached[k] /\ attached[k] # f
            /\ attached'[Len(attached) + 1] = f
        BY <1>1, <3>2 DEF ToSet
      <4>2. \A k \in DOMAIN attached' : k \in DOMAIN attached \/ k = Len(attached) + 1
        BY <1>1, <4>1
      <4>3. CASE i \in DOMAIN attached /\ j \in DOMAIN attached
        BY <3>1, <3>2, <4>1, <4>3
      <4>4. CASE i = Len(attached) + 1 /\ j \in DOMAIN attached
        BY <3>2, <4>1, <4>4
      <4>5. CASE j = Len(attached) + 1 /\ i \in DOMAIN attached
        BY <3>2, <4>1, <4>5
      <4> QED
        BY <4>2, <4>3, <4>4, <4>5
    <3> QED
      BY <2>3, <3>1, <3>2
  <2>5. OnceEach'
    <3>1. \A t \in FileTabs : toSave'[t] # << >> => \E r \in puts' : r.by = t
      BY <1>5, <1>6, <2>1, <2>2 DEF OnceEach
    <3>2. \A r \in puts' : r.answer # Pending
      BY <1>5, <2>2
    <3> QED
      BY <2>4, <3>1, <3>2 DEF OnceEach
  <2>6. Everything \o answer = Everything'
    <3>1. Everything \in Seq(Nat) /\ Len(Everything) = Len(attached) /\ \A i \in 1..Len(attached) : Everything[i] = i
      BY <1>1, EverythingIsIds DEF Everything
    <3>2. CASE attached' = attached /\ answer = << >>
      BY <3>1, <3>2 DEF Everything
    <3>3. ASSUME NEW f \in Accepted, attached' = Append(attached, f), answer = <<Len(attached) + 1>>
          PROVE  Everything \o answer = Everything'
      <4>1. PICK n \in Nat : n = Len(attached)
        BY <1>1
      <4>2. Len(attached') = n + 1
        BY <1>1, <3>3, <4>1
      <4>3. Everything' = [i \in 1..(n + 1) |-> i]
        BY <4>2 DEF Everything
      <4>4. PICK e \in Seq(Nat) : e = Everything /\ Len(e) = n /\ \A i \in 1..n : e[i] = i
        BY <3>1, <4>1
      <4>5. /\ DOMAIN (e \o <<n + 1>>) = 1..(n + 1)
            /\ \A i \in 1..n : (e \o <<n + 1>>)[i] = i
            /\ (e \o <<n + 1>>)[n + 1] = n + 1
        <5>1. PICK last \in Seq(Nat) : last = <<n + 1>> /\ Len(last) = 1 /\ last[1] = n + 1
          <6>1. PICK k \in Nat : k = n + 1
            OBVIOUS
          <6>2. <<k>> \in Seq(Nat) /\ Len(<<k>>) = 1 /\ <<k>>[1] = k
            OBVIOUS
          <6> QED
            BY <6>1, <6>2
        <5>2. /\ DOMAIN (e \o last) = 1..(n + 1)
              /\ \A i \in 1..(n + 1) : (e \o last)[i] = IF i <= n THEN e[i] ELSE last[i - n]
          BY <4>4, <5>1
        <5>3. \A i \in 1..n : i \in 1..(n + 1) /\ i <= n
          OBVIOUS
        <5>4. n + 1 \in 1..(n + 1) /\ ~(n + 1 <= n) /\ n + 1 - n = 1
          OBVIOUS
        <5> QED
          BY <4>4, <5>1, <5>2, <5>3, <5>4
      <4>6. e \o <<n + 1>> = [i \in 1..(n + 1) |-> (e \o <<n + 1>>)[i]]
        BY <4>1, <4>4, <4>5
      <4>7. \A i \in 1..(n + 1) : (e \o <<n + 1>>)[i] = i
        BY <4>1, <4>5
      <4> QED
        BY <3>3, <4>1, <4>3, <4>4, <4>6, <4>7
    <3> QED
      BY <2>3, <3>2, <3>3
  <2>7. ListsFollow'
    <3>1. /\ news = {} /\ \A t \in FileTabs : reading[t] = Pending
          /\ \A t \in (FileTabs \ offline) \cup {p.by} : listed[t] = Everything
      BY <1>6, <2>1, <2>2 DEF ListsFollow
    <3>2. \A t \in (FileTabs \ offline) \cup {p.by} : listed[t] \o answer = Everything'
      BY <2>6, <3>1
    <3> QED
      BY <1>5, <1>6, <2>2, <3>1, <3>2 DEF ListsFollow
  <2> QED
    BY <2>5, <2>7
<1> QED
  BY <1>8, <1>9, <1>10, <1>11, <1>12 DEF FilesInv

LEMMA BatchGoesOn ==
  ASSUME FilesTypes, NEW p \in puts, GoesOn(p)
  PROVE  /\ batch' \in [FileBatches -> FileBatch]
         /\ \A b \in FileBatches : /\ batch'[b].tab = batch[b].tab /\ batch'[b].rest = batch[b].rest
                                   /\ batch'[b].step = batch[b].step \/ batch'[b].step = "next"
<1>1. batch \in [FileBatches -> FileBatch] /\ p.for \in FileBatches \cup {Pending}
  BY DEF FilesTypes, FilePut
<1>2. CASE p.for = Pending
  BY <1>1, <1>2 DEF GoesOn
<1>3. CASE p.for # Pending
  <2>1. PICK new : new = [batch[p.for] EXCEPT !.step = "next"]
    OBVIOUS
  <2>2. batch' = [batch EXCEPT ![p.for] = new]
    BY <1>3, <2>1 DEF GoesOn
  <2>3. batch[p.for] \in FileBatch /\ p.for \in FileBatches
    BY <1>1, <1>3
  <2>4. new \in FileBatch /\ new.tab = batch[p.for].tab /\ new.rest = batch[p.for].rest /\ new.step = "next"
    BY <2>1, <2>3 DEF FileBatch
  <2> QED
    BY <1>1, <2>2, <2>3, <2>4
<1> QED
  BY <1>2, <1>3

LEMMA AnsweredKeeps ==
  ASSUME FilesInv, NEW p \in puts, Answered(p)
  PROVE  FilesInv'
<1>1. FilesTypes /\ NothingForgotten /\ p \in FilePut
  BY DEF FilesInv, FilesTypes
<1>2. p.by \in FileTabs /\ p.answer \in Seq(Nat) /\ p.answer # Pending
  BY <1>1 DEF FilePut, Answered
<1>3. PICK ids \in Seq(Nat) : ids = listed[p.by] \o p.answer
  BY <1>1, <1>2, Joined DEF FilesTypes
<1>4. /\ puts' = puts \ {p} /\ listed' = [listed EXCEPT ![p.by] = ids]
      /\ news' = news \cup {[to |-> u, ids |-> ids] : u \in FileTabs \ ({p.by} \cup offline)}
      /\ toSave' = [toSave EXCEPT ![p.by] = << >>] /\ GoesOn(p)
      /\ UNCHANGED <<attached, reading, offline, picked, marks>>
  BY <1>3 DEF Answered, Tell
<1>5. /\ batch' \in [FileBatches -> FileBatch]
      /\ \A b \in FileBatches : /\ batch'[b].tab = batch[b].tab /\ batch'[b].rest = batch[b].rest
                                /\ batch'[b].step = batch[b].step \/ batch'[b].step = "next"
  BY <1>1, <1>4, BatchGoesOn
<1>6. \A t \in FileTabs : /\ toSave'[t] = IF t = p.by THEN << >> ELSE toSave[t]
                          /\ listed'[t] = IF t = p.by THEN ids ELSE listed[t]
  BY <1>1, <1>4 DEF FilesTypes
<1>7. FilesTypes'
  <2>1. << >> \in Seq(Accepted)
    OBVIOUS
  <2>2. toSave' \in [FileTabs -> Seq(Accepted)] /\ listed' \in [FileTabs -> Seq(Nat)] /\ puts' \subseteq FilePut
    BY <1>1, <1>2, <1>4, <2>1 DEF FilesTypes
  <2>3. news' \subseteq FileNews
    BY <1>1, <1>4 DEF FilesTypes, FileNews
  <2>4. /\ \A b \in FileBatches : batch'[b].rest # << >> => batch'[b].tab \in FileTabs
        /\ \A b \in FileBatches : batch'[b].step = "upload" => batch'[b].rest # << >> /\ Head(batch'[b].rest) \in Accepted
    BY <1>1, <1>5 DEF FilesTypes
  <2> QED
    BY <1>1, <1>4, <1>5, <2>2, <2>3, <2>4 DEF FilesTypes
<1>8. NothingForgotten'
  <2>1. \A f : Carried(f) => Carried(f)'
    BY <1>2, <1>4 DEF Carried
  <2>2. \A u, f : Ahead(u, f)' = Ahead(u, f)
    BY <1>5 DEF Ahead
  <2>3. ASSUME NEW w \in Wanted, w[2] \notin ToSet(attached), "crossed" \notin marks, w[2] \in ToSet(toSave[w[1]])
        PROVE  w[2] \in ToSet(toSave'[w[1]])
    <3>1. w[1] \in FileTabs
      BY <1>1 DEF FilesTypes, Wanted
    <3>2. w[1] # p.by
      BY <1>2, <2>3 DEF FilesInv, OneSave
    <3> QED
      BY <1>6, <2>3, <3>1, <3>2
  <2> QED
    BY <1>1, <1>4, <2>1, <2>2, <2>3 DEF NothingForgotten, Wanted
<1>9. AheadIsNew' /\ AllArePicked'
  <2>1. \A t \in FileTabs : ToSet(toSave'[t]) \subseteq ToSet(toSave[t])
    BY <1>6 DEF ToSet
  <2>2. Seen' \subseteq Seen
    BY <1>4, <2>1 DEF Seen
  <2> QED
    BY <1>4, <1>5, <2>2, RestsStay
<1>10. ASSUME "crossed" \notin marks' PROVE OneSave' /\ puts' = {}
  <2>1. puts' = {}
    BY <1>4, <1>10 DEF FilesInv, OneSave
  <2> QED
    BY <2>1 DEF OneSave
<1>11. ASSUME marks' = {} PROVE OnceEach' /\ ListsFollow'
  <2>1. OnceEach /\ ListsFollow /\ puts = {p} /\ puts' = {}
    BY <1>4, <1>10, <1>11 DEF FilesInv
  <2>2. \A t \in FileTabs : toSave'[t] = << >>
    BY <1>6, <2>1 DEF OnceEach
  <2>3. OnceEach'
    BY <1>4, <2>1, <2>2 DEF OnceEach
  <2>4. Everything' = Everything
    BY <1>4 DEF Everything
  <2>5. news = {} /\ (\A t \in FileTabs : reading[t] = Pending) /\ ids = Everything
    BY <1>2, <1>3, <2>1 DEF ListsFollow
  <2>6. ASSUME NEW t \in FileTabs \ offline PROVE listed'[t] = Everything \/ \E m \in news' : m.to = t
    <3>1. CASE t = p.by
      BY <1>6, <2>5, <3>1
    <3>2. CASE t # p.by
      <4>1. PICK m : m = [to |-> t, ids |-> ids]
        OBVIOUS
      <4>2. m \in news' /\ m.to = t
        BY <1>4, <3>2, <4>1
      <4> QED
        BY <4>2
    <3> QED
      BY <3>1, <3>2
  <2>7. \A m \in news' : m.ids = Everything
    BY <1>4, <2>5
  <2>8. ListsFollow'
    BY <1>4, <2>1, <2>4, <2>5, <2>6, <2>7 DEF ListsFollow
  <2> QED
    BY <2>3, <2>8
<1> QED
  BY <1>7, <1>8, <1>9, <1>10, <1>11 DEF FilesInv

LEMMA FileSaveFailsKeeps ==
  ASSUME FilesInv, NEW p \in puts, FileSaveFails(p)
  PROVE  FilesInv'
<1>1. FilesTypes /\ NothingForgotten
  BY DEF FilesInv
<1>2. /\ puts' = puts \ {p} /\ marks' = marks \cup {"lost"} /\ GoesOn(p)
      /\ UNCHANGED <<attached, listed, toSave, news, reading, offline, picked>>
  BY DEF FileSaveFails
<1>3. /\ batch' \in [FileBatches -> FileBatch]
      /\ \A b \in FileBatches : /\ batch'[b].tab = batch[b].tab /\ batch'[b].rest = batch[b].rest
                                /\ batch'[b].step = batch[b].step \/ batch'[b].step = "next"
  BY <1>1, <1>2, BatchGoesOn
<1>4. FilesTypes'
  <2>1. /\ \A b \in FileBatches : batch'[b].rest # << >> => batch'[b].tab \in FileTabs
        /\ \A b \in FileBatches : batch'[b].step = "upload" => batch'[b].rest # << >> /\ Head(batch'[b].rest) \in Accepted
    BY <1>1, <1>3 DEF FilesTypes
  <2> QED
    BY <1>1, <1>2, <1>3, <2>1 DEF FilesTypes
<1>5. NothingForgotten'
  <2>1. \A u, f : Ahead(u, f)' = Ahead(u, f)
    BY <1>3 DEF Ahead
  <2> QED
    BY <1>1, <1>2, <2>1 DEF NothingForgotten, Wanted
<1>6. AheadIsNew' /\ AllArePicked'
  <2>1. Seen' \subseteq Seen
    BY <1>2 DEF Seen
  <2> QED
    BY <1>2, <1>3, <2>1, RestsStay
<1>7. /\ "crossed" \notin marks' => OneSave'
      /\ marks' # {}
  BY <1>2 DEF FilesInv, OneSave
<1> QED
  BY <1>4, <1>5, <1>6, <1>7 DEF FilesInv

-----------------------------------------------------------------------------
(* It holds before the first file is picked.                                  *)
LEMMA FilesStart ==
  ASSUME FilesInit
  PROVE  FilesInv
<1>1. /\ attached = << >> /\ listed = [t \in FileTabs |-> << >>] /\ toSave = [t \in FileTabs |-> << >>]
      /\ batch = [b \in FileBatches |-> NoBatch] /\ puts = {} /\ news = {}
      /\ reading = [t \in FileTabs |-> Pending] /\ picked = {} /\ marks = {}
  BY DEF FilesInit
<1>2. /\ << >> \in Seq(Nat) /\ << >> \in Seq(Accepted) /\ << >> \in Seq(PickedFiles)
      /\ ToSet(<< >>) = {} /\ DOMAIN << >> = {} /\ Len(<< >>) = 0
  BY DEF ToSet
<1>3. NoBatch \in FileBatch /\ NoBatch.rest = << >> /\ NoBatch.step = "idle"
  BY <1>2 DEF NoBatch, FileBatch
<1>4. FilesTypes
  BY <1>1, <1>2, <1>3 DEF FilesTypes
<1>5. NothingForgotten /\ Seen = {}
  BY <1>1, <1>2 DEF NothingForgotten, Wanted, Seen
<1>6. AheadIsNew /\ AllArePicked
  BY <1>1, <1>2, <1>3, <1>5 DEF AheadIsNew, AllArePicked
<1>7. OneSave /\ OnceEach
  BY <1>1, <1>2 DEF OneSave, OnceEach
<1>8. ListsFollow
  <2>1. Everything = << >>
    BY <1>1, <1>2 DEF Everything
  <2> QED
    BY <1>1, <2>1 DEF ListsFollow
<1> QED
  BY <1>4, <1>5, <1>6, <1>7, <1>8 DEF FilesInv

(* Every step keeps the invariant.                                            *)
LEMMA FilesStepKeeps ==
  ASSUME FilesInv, [FilesNext]_filesVars
  PROVE  FilesInv'
<1>1. ASSUME UNCHANGED filesVars PROVE FilesInv'
  <2>1. UNCHANGED <<attached, listed, toSave, batch, puts, news, reading, offline, picked, marks>>
    BY <1>1 DEF filesVars
  <2>2. FilesTypes'
    BY <2>1 DEF FilesInv, FilesTypes
  <2>3. marks' = {} => ListsFollow'
    BY <2>1 DEF FilesInv, ListsFollow, Everything
  <2> QED
    BY <2>1, <2>2, <2>3, OnlyLists
<1>2. ASSUME NEW b \in FileBatches, NEW t \in FileTabs, NEW f \in PickedFiles, NEW g \in PickedFiles,
             PickFiles(t, b, IF f = g THEN <<f>> ELSE <<f, g>>)
      PROVE  FilesInv'
  <2>1. PICK files \in Seq(PickedFiles) : files = IF f = g THEN <<f>> ELSE <<f, g>>
    <3>1. <<f>> \in Seq(PickedFiles)
      OBVIOUS
    <3>2. <<f, g>> \in Seq(PickedFiles)
      OBVIOUS
    <3> QED
      BY <3>1, <3>2
  <2>2. \A i, j \in DOMAIN files : files[i] = files[j] => i = j
    BY <2>1
  <2> QED
    BY <1>2, <2>1, <2>2, PickFilesKeeps
<1>3. ASSUME NEW b \in FileBatches, NextFile(b) \/ Uploaded(b) PROVE FilesInv'
  BY <1>3, NextFileKeeps, UploadedKeeps
<1>4. ASSUME NEW t \in FileTabs, SaveAnother(t) \/ GoOffline(t) \/ BackOnline(t) \/ ReadAgain(t) PROVE FilesInv'
  BY <1>4, SaveAnotherKeeps, GoOfflineKeeps, BackOnlineKeeps, ReadAgainKeeps
<1>5. ASSUME NEW p \in puts, StoreFiles(p) \/ Answered(p) \/ FileSaveFails(p) PROVE FilesInv'
  BY <1>5, StoreFilesKeeps, AnsweredKeeps, FileSaveFailsKeeps
<1>6. ASSUME NEW m \in news, HearFiles(m) PROVE FilesInv'
  BY <1>6, HearFilesKeeps
<1> QED
  BY <1>1, <1>2, <1>3, <1>4, <1>5, <1>6 DEF FilesNext

(* Rows that hold a file, counted.                                            *)
LEMMA CopiesCount ==
  ASSUME attached \in Seq(Accepted), NEW f
  PROVE  /\ f \in ToSet(attached) <=> Copies(f) > 0
         /\ f \notin ToSet(attached) => Copies(f) = 0
         /\ (\A i, j \in DOMAIN attached : attached[i] = attached[j] => i = j) /\ f \in ToSet(attached) => Copies(f) = 1
<1>1. Len(attached) \in Nat /\ DOMAIN attached = 1..Len(attached)
  OBVIOUS
<1>2. PICK at : at = {i \in 1..Len(attached) : attached[i] = f}
  OBVIOUS
<1>3. at \subseteq 1..Len(attached) /\ IsFiniteSet(1..Len(attached))
  BY <1>1, <1>2, FS_Interval
<1>4. IsFiniteSet(at)
  BY <1>3, FS_Subset
<1>5. Cardinality(at) \in Nat /\ (Cardinality(at) = 0 <=> at = {})
  BY <1>4, FS_CardinalityType, FS_EmptySet
<1>6. Copies(f) = Cardinality(at)
  BY <1>2 DEF Copies
<1>7. f \in ToSet(attached) <=> at # {}
  BY <1>1, <1>2 DEF ToSet
<1>8. ASSUME \A i, j \in DOMAIN attached : attached[i] = attached[j] => i = j, f \in ToSet(attached) PROVE Cardinality(at) = 1
  <2>1. PICK i \in at : TRUE
    BY <1>7, <1>8
  <2>2. at = {i}
    BY <1>1, <1>2, <1>8, <2>1
  <2> QED
    BY <2>2, FS_Singleton
<1> QED
  BY <1>5, <1>6, <1>7, <1>8

(* The invariant says what the property does.                                 *)
LEMMA FilesInvTells ==
  ASSUME FilesInv
  PROVE  FilesAreKept
<1> SUFFICES ASSUME FilesRest PROVE
      /\ \A w \in Wanted : \/ Copies(w[2]) > 0
                           \/ "lost" \in marks /\ ("crossed" \in marks \/ w[2] \in ToSet(toSave[w[1]]))
      /\ \A f \in PickedFiles \ Accepted : Copies(f) = 0
      /\ marks = {} =>
           /\ \A w \in Wanted : Copies(w[2]) = 1
           /\ \A t \in FileTabs \ offline : listed[t] = [i \in 1..Len(attached) |-> i]
  BY DEF FilesAreKept
<1>1. FilesTypes /\ attached \in Seq(Accepted)
  BY DEF FilesInv, FilesTypes
<1>2. puts = {} /\ news = {} /\ (\A t \in FileTabs : reading[t] = Pending) /\ \A b \in FileBatches : batch[b] = NoBatch
  BY DEF FilesRest, GoingRound
<1>3. \A b \in FileBatches : ToSet(batch[b].rest) = {}
  BY <1>2 DEF NoBatch, ToSet
<1>4. \A w \in Wanted : \/ w[2] \in ToSet(attached)
                        \/ "lost" \in marks /\ ("crossed" \in marks \/ w[2] \in ToSet(toSave[w[1]]))
  BY <1>2, <1>3 DEF FilesInv, NothingForgotten, Ahead, Carried
<1>5. \A w \in Wanted : \/ Copies(w[2]) > 0
                        \/ "lost" \in marks /\ ("crossed" \in marks \/ w[2] \in ToSet(toSave[w[1]]))
  BY <1>1, <1>4, CopiesCount
<1>6. \A f \in PickedFiles \ Accepted : Copies(f) = 0
  BY <1>1, InTheSet, CopiesCount
<1>7. ASSUME marks = {} PROVE /\ \A w \in Wanted : Copies(w[2]) = 1
                              /\ \A t \in FileTabs \ offline : listed[t] = [i \in 1..Len(attached) |-> i]
  <2>1. OnceEach /\ ListsFollow
    BY <1>7 DEF FilesInv
  <2>2. \A i, j \in DOMAIN attached : attached[i] = attached[j] => i = j
    BY <2>1 DEF OnceEach
  <2>3. \A w \in Wanted : Copies(w[2]) = 1
    BY <1>1, <1>4, <1>7, <2>2, CopiesCount
  <2>4. \A t \in FileTabs \ offline : listed[t] = Everything
    BY <1>2, <2>1 DEF ListsFollow
  <2> QED
    BY <2>3, <2>4 DEF Everything
<1> QED
  BY <1>5, <1>6, <1>7

(* Every file that was picked is attached when everything is over, however    *)
(* pickings and saves overlapped, or waits for the next save where one was    *)
(* lost; and once, in every dialog's list, where nothing overlapped or was    *)
(* lost (CardModal.vue:1077).                                                 *)
THEOREM PickedFilesArrive == FilesSpec => []FilesAreKept
<1>1. FilesInit => FilesInv
  BY FilesStart
<1>2. FilesInv /\ [FilesNext]_filesVars => FilesInv'
  BY FilesStepKeeps
<1>3. FilesInv => FilesAreKept
  BY FilesInvTells
<1> QED
  BY <1>1, <1>2, <1>3, PTL DEF FilesSpec
=============================================================================
