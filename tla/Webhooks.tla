------------------------------- MODULE Webhooks --------------------------------
(* People's own webhooks on one board (server/utils/webhooks.ts,              *)
(* api/data/webhooks.ts), while people join and leave it, it is made public   *)
(* or private, and destroyed.  A dispatch runs                                *)
(* beside the request that caused it: it reads the subscriptions, then the    *)
(* board, then asks for each subscriber's access, then delivers.              *)

EXTENDS Naturals, FiniteSets

CONSTANTS
  HookPeople,     \* who may have an account
  HookOwner,      \* the one who has the board
  MaxHooks,       \* bound: subscriptions ever made
  HookEvents,     \* changes of cards and comments that are dispatched
  Nobody,
  MaxBoardActs    \* bound: changes of who may see the board

ASSUME HooksAssumption == HookOwner \in HookPeople /\ Nobody \notin HookPeople

VARIABLES
  seenBy,         \* the board: "private", "public" or "gone"
  guests,         \* rows of `invitations`
  hooks,          \* rows of `webhooks`
  hooksMade,
  subscribing,    \* per person: a POST under way
  leaving,        \* people whose removal is under way; the owner, when the board's is
  dispatch,       \* per event
  sent,           \* deliveries
  actsOnBoard     \* what is left of the bound

hookVars == <<seenBy, guests, hooks, hooksMade, subscribing, leaving, dispatch, sent, actsOnBoard>>

(* authorizeBoard for reading, asked with the board as it was read.           *)
Because(why, u, status, invited) ==
  status # "gone" /\ IF why = "public" THEN status = "public" ELSE u \in invited \union {HookOwner}
Allowed(u, status, invited) == \E why \in {"public", "invited"} : Because(why, u, status, invited)
MayRead(u, status) == Allowed(u, status, guests)
NoDispatch == [by |-> Nobody, step |-> "none", status |-> "gone", ask |-> {}, to |-> {}, could |-> {}, sure |-> {}]
NoRequest == [step |-> "none", own |-> FALSE]

HooksInit ==
  /\ seenBy \in {"private", "public"} /\ guests \in SUBSET (HookPeople \ {HookOwner})
  /\ hooks = {} /\ hooksMade = 0
  /\ subscribing = [u \in HookPeople |-> NoRequest] /\ leaving = {}
  /\ dispatch = [e \in HookEvents |-> NoDispatch] /\ sent = {} /\ actsOnBoard = MaxBoardActs

Owns(h, d) == h.own /\ h.user = d.by
Running(d) == d.step \notin {"none", "over"}

(* What a dispatch may and what it must deliver, kept while it runs: who      *)
(* could read the board at some moment since it began, and which              *)
(* subscriptions were there, with access for the same reason, all the time.   *)
Note(status, invited, rows) ==
  dispatch' = [e \in HookEvents |->
    IF ~Running(dispatch[e]) THEN dispatch[e]
    ELSE [dispatch[e] EXCEPT !.could = @ \union {u \in HookPeople : Allowed(u, status, invited)},
                             !.sure = {s \in @ : s[1] \in rows /\ Because(s[2], s[1].user, status, invited)}]]

-----------------------------------------------------------------------------
(* webhooks POST: the board is read and the access asked for, ...             *)
AskForHook(u, own) ==
  /\ subscribing[u] = NoRequest /\ hooksMade + Cardinality({v \in HookPeople : subscribing[v] # NoRequest}) < MaxHooks
  /\ MayRead(u, seenBy)
  /\ subscribing' = [subscribing EXCEPT ![u] = [step |-> "insert", own |-> own]]
  /\ UNCHANGED <<seenBy, guests, hooks, hooksMade, leaving, dispatch, sent, actsOnBoard>>

(* ... and the subscription is inserted.                                      *)
InsertHook(u) ==
  /\ subscribing[u].step = "insert"
  /\ LET h == [id |-> hooksMade + 1, user |-> u, own |-> subscribing[u].own]
     IN hooks' = hooks \union {h}
  /\ hooksMade' = hooksMade + 1 /\ subscribing' = [subscribing EXCEPT ![u] = NoRequest]
  /\ UNCHANGED <<seenBy, guests, leaving, dispatch, sent, actsOnBoard>>

(* webhooks DELETE: one's own.                                                *)
RemoveHook(u, h) ==
  /\ h.user = u /\ h \in hooks
  /\ hooks' = hooks \ {h}
  /\ Note(seenBy, guests, hooks \ {h})
  /\ UNCHANGED <<seenBy, guests, hooksMade, subscribing, leaving, sent, actsOnBoard>>

-----------------------------------------------------------------------------
BoardAct == actsOnBoard > 0 /\ seenBy # "gone" /\ actsOnBoard' = actsOnBoard - 1

Invite(u) ==
  /\ BoardAct /\ u \notin guests \union {HookOwner} /\ u \notin leaving
  /\ guests' = guests \union {u}
  /\ Note(seenBy, guests \union {u}, hooks)
  /\ UNCHANGED <<seenBy, hooks, hooksMade, subscribing, leaving, sent>>

(* removeBoardMember: the invitation, and then the subscriptions.             *)
RemoveGuest(u) ==
  /\ BoardAct /\ u \in guests
  /\ guests' = guests \ {u} /\ leaving' = leaving \union {u}
  /\ Note(seenBy, guests \ {u}, hooks)
  /\ UNCHANGED <<seenBy, hooks, hooksMade, subscribing, sent>>

RemoveTheirHooks(u) ==
  /\ u \in leaving \ {HookOwner} /\ leaving' = leaving \ {u}
  /\ hooks' = {h \in hooks : h.user # u}
  /\ Note(seenBy, guests, {h \in hooks : h.user # u})
  /\ UNCHANGED <<seenBy, guests, hooksMade, subscribing, sent, actsOnBoard>>

ChangeStatus ==
  /\ BoardAct
  /\ seenBy' = (IF seenBy = "public" THEN "private" ELSE "public")
  /\ Note(seenBy', guests, hooks)
  /\ UNCHANGED <<guests, hooks, hooksMade, subscribing, leaving, sent>>

(* removeBoardCompletely: the invitations and the subscriptions are gone      *)
(* before the board is; a subscription inserted in between stays.             *)
DestroyRows ==
  /\ BoardAct
  /\ guests' = {} /\ hooks' = {} /\ leaving' = leaving \union {HookOwner}
  /\ Note(seenBy, {}, {})
  /\ UNCHANGED <<seenBy, hooksMade, subscribing, sent>>

DestroyHookedBoard ==
  /\ HookOwner \in leaving /\ leaving' = leaving \ {HookOwner}
  /\ seenBy' = "gone"
  /\ Note("gone", guests, hooks)
  /\ UNCHANGED <<guests, hooks, hooksMade, subscribing, sent, actsOnBoard>>

-----------------------------------------------------------------------------
Step(e, d) == dispatch' = [dispatch EXCEPT ![e] = d]

(* dispatchWebhooks: called without being waited for.                         *)
Happen(e, u) ==
  /\ dispatch[e].step = "none" /\ seenBy # "gone"
  /\ Step(e, [NoDispatch EXCEPT !.by = u, !.step = "hooks",
       !.could = {v \in HookPeople : MayRead(v, seenBy)}, 
       !.sure = {s \in hooks \X {"public", "invited"} : Because(s[2], s[1].user, seenBy, guests)}])
  /\ UNCHANGED <<seenBy, guests, hooks, hooksMade, subscribing, leaving, sent, actsOnBoard>>

(* The subscriptions to the board, but for those that ignore what their own   *)
(* person did.                                                                *)
ReadSubscriptions(e) ==
  /\ dispatch[e].step = "hooks"
  /\ LET candidates == {h \in hooks : ~Owns(h, dispatch[e])}
     IN Step(e, IF candidates = {} THEN [dispatch[e] EXCEPT !.step = "over"]
                ELSE [dispatch[e] EXCEPT !.step = "board", !.ask = candidates])
  /\ UNCHANGED <<seenBy, guests, hooks, hooksMade, subscribing, leaving, sent, actsOnBoard>>

ReadTheBoard(e) ==
  /\ dispatch[e].step = "board"
  /\ Step(e, IF seenBy = "gone" THEN [dispatch[e] EXCEPT !.step = "over"]
             ELSE [dispatch[e] EXCEPT !.step = "access", !.status = seenBy])
  /\ UNCHANGED <<seenBy, guests, hooks, hooksMade, subscribing, leaving, sent, actsOnBoard>>

(* A slip: a subscription is proof of access.                                 *)
AskNobody(e, h) ==
  /\ dispatch[e].step = "access" /\ h \in dispatch[e].ask
  /\ Step(e, [dispatch[e] EXCEPT !.ask = @ \ {h}, !.to = @ \union {h}])
  /\ UNCHANGED <<seenBy, guests, hooks, hooksMade, subscribing, leaving, sent, actsOnBoard>>

(* "Access is re-checked on every dispatch", all of them at once.             *)
AskAccess(e, h) ==
  /\ dispatch[e].step = "access" /\ h \in dispatch[e].ask
  /\ Step(e, [dispatch[e] EXCEPT !.ask = @ \ {h},
                !.to = IF MayRead(h.user, dispatch[e].status) THEN @ \union {h} ELSE @])
  /\ UNCHANGED <<seenBy, guests, hooks, hooksMade, subscribing, leaving, sent, actsOnBoard>>

(* Every delivery by itself; one that fails is written down and forgotten.    *)
Deliver(e, h) ==
  /\ dispatch[e].step = "access" /\ dispatch[e].ask = {} /\ h \in dispatch[e].to
  /\ Step(e, [dispatch[e] EXCEPT !.to = @ \ {h}])
  /\ sent' = sent \union {<<e, h>>}
  /\ UNCHANGED <<seenBy, guests, hooks, hooksMade, subscribing, leaving, actsOnBoard>>

AllSent(e) ==
  /\ dispatch[e].step = "access" /\ dispatch[e].ask = {} /\ dispatch[e].to = {}
  /\ Step(e, [dispatch[e] EXCEPT !.step = "over"])
  /\ UNCHANGED <<seenBy, guests, hooks, hooksMade, subscribing, leaving, sent, actsOnBoard>>

HooksNext ==
  \/ \E u \in HookPeople :
       \/ \E own \in BOOLEAN : AskForHook(u, own)
       \/ InsertHook(u) \/ Invite(u) \/ RemoveGuest(u) \/ RemoveTheirHooks(u)
       \/ \E h \in hooks : RemoveHook(u, h)
       \/ \E e \in HookEvents : Happen(e, u)
  \/ ChangeStatus \/ DestroyRows \/ DestroyHookedBoard
  \/ \E e \in HookEvents :
       \/ ReadSubscriptions(e) \/ ReadTheBoard(e) \/ AllSent(e)
       \/ \E h \in dispatch[e].ask : AskAccess(e, h)
       \/ \E h \in dispatch[e].to : Deliver(e, h)

HooksSpec == HooksInit /\ [][HooksNext]_hookVars

-----------------------------------------------------------------------------
(* Properties *)

(* "Otherwise a collaborator who has since been removed from the board ...    *)
(* would keep receiving card and comment content indefinitely"                *)
(* (webhooks.ts:96-99).  However people come and go while a dispatch is       *)
(* under way: nobody is told who could not read the board at any moment since *)
(* the change, nor told of their own change when they asked not to be; and    *)
(* whoever was subscribed all the time, and could read it for one and the same*)
(* reason, has been told once it is over.                                     *)
ToldWhoMayKnow ==
  /\ \A d \in sent : d[2].user \in dispatch[d[1]].could /\ ~Owns(d[2], dispatch[d[1]])
  /\ \A e \in HookEvents : dispatch[e].step = "over" =>
       \A s \in dispatch[e].sure : Owns(s[1], dispatch[e]) \/ <<e, s[1]>> \in sent
=============================================================================
