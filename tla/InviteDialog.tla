------------------------------ MODULE InviteDialog ------------------------------
(* The dialog that says who is on a board (components/InviteModal.vue), on    *)
(* the board's own page and, for any of the owner's boards, on the dashboard. *)
(* It keeps a list of its own, which follows the one it is given and is       *)
(* edited as invitations are answered (api/data/invite.ts).  Invitations by   *)
(* mail to somebody without an account are in Members.                        *)

EXTENDS Naturals

CONSTANTS
  OwnBoards, PageBoard,   \* the owner's boards; the one whose page may be open
  Invitees,
  NoneYet,
  MaxOpened, MaxInvites, MaxElsewhere, MaxListFailures   \* bounds

ASSUME InviteAssumption ==
  /\ PageBoard \in OwnBoards
  /\ MaxOpened \in Nat /\ MaxInvites \in Nat /\ MaxElsewhere \in Nat /\ MaxListFailures \in Nat

VARIABLES
  onPage,         \* is it the board's page, or the dashboard
  invitedTo,      \* the invitations' rows: who is on each board
  modal,          \* the dialog: whose it is, the list, the picker
  listReads,      \* invitations being fetched
  lookups,        \* searches of the directory
  inviteCalls,    \* invitations and removals under way
  memberWords,    \* boardMembersUpdated, on its way to the page
  unheardOf,      \* boards changed since the dashboard read who is on them
  inviteCrossed,  \* two calls about one person crossed, or an answer met a list
                  \* read since, or another board's
  inviteLeft      \* what is left of the bounds

inviteVars == <<onPage, invitedTo, modal, listReads, lookups, inviteCalls, memberWords,
                unheardOf, inviteCrossed, inviteLeft>>

(* A list, by how often it has each person; its order is not modelled.        *)
EachOf(set) == [p \in Invitees |-> IF p \in set THEN 1 ELSE 0]

InviteInit(page) ==
  /\ onPage = page
  /\ invitedTo = [b \in OwnBoards |-> {}]
  /\ modal = [board |-> IF page THEN PageBoard ELSE NoneYet, open |-> FALSE, list |-> EachOf({}),
              picked |-> NoneYet, offered |-> {}, latest |-> 0]
  /\ listReads = {} /\ lookups = {} /\ inviteCalls = {} /\ memberWords = 0
  /\ unheardOf = {} /\ inviteCrossed = FALSE
  /\ inviteLeft = [opens |-> MaxOpened, calls |-> MaxInvites, elsewhere |-> MaxElsewhere, failures |-> MaxListFailures]

InviteSpends(what) == inviteLeft[what] > 0 /\ inviteLeft' = [inviteLeft EXCEPT ![what] = @ - 1]
Listed == {p \in Invitees : modal.list[p] > 0}

-----------------------------------------------------------------------------
(* openInvite: what was listed is let go of, the invitations are fetched.     *)
OpenInvite(b) ==
  /\ ~onPage /\ ~modal.open /\ InviteSpends("opens")
  /\ modal' = [modal EXCEPT !.list = EachOf({})]
  /\ listReads' = listReads \union {[board |-> b, read |-> FALSE, old |-> FALSE, got |-> EachOf({})]}
  /\ UNCHANGED <<onPage, invitedTo, lookups, inviteCalls, memberWords, unheardOf, inviteCrossed>>

(* The page has them in hand.                                                 *)
OpenInviteModal ==
  /\ onPage /\ ~modal.open /\ InviteSpends("opens")
  /\ modal' = [modal EXCEPT !.open = TRUE]
  /\ UNCHANGED <<onPage, invitedTo, listReads, lookups, inviteCalls, memberWords, unheardOf, inviteCrossed>>

CloseInvite ==
  /\ modal.open
  /\ modal' = [modal EXCEPT !.open = FALSE]
  /\ UNCHANGED <<onPage, invitedTo, listReads, lookups, inviteCalls, memberWords, unheardOf, inviteCrossed, inviteLeft>>

(* invite GET.                                                                *)
ReadInvitations(r) ==
  /\ r \in listReads /\ ~r.read
  /\ listReads' = (listReads \ {r}) \union {[r EXCEPT !.read = TRUE, !.got = EachOf(invitedTo[r.board])]}
  /\ UNCHANGED <<onPage, invitedTo, modal, lookups, inviteCalls, memberWords, unheardOf, inviteCrossed, inviteLeft>>

(* A change of the board makes what has been read of it old.                  *)
Outdated(b) == {IF r.board = b /\ r.read THEN [r EXCEPT !.old = TRUE] ELSE r : r \in listReads}
ListStale(r) == IF r.old /\ ~onPage THEN unheardOf \union {r.board} ELSE unheardOf \ {r.board}

Reread(calls, b) ==
  {IF c.board = b /\ c.step # "asked" THEN [c EXCEPT !.reread = TRUE] ELSE c : c \in calls}

(* A slip: the list is copied when the dialog is made, and never again.       *)
CopiedOnce(r) ==
  /\ r \in listReads /\ r.read
  /\ listReads' = listReads \ {r}
  /\ modal' = [modal EXCEPT !.board = r.board, !.open = (@ \/ ~onPage)]
  /\ inviteCalls' = Reread(inviteCalls, r.board)
  /\ unheardOf' = ListStale(r)
  /\ UNCHANGED <<onPage, invitedTo, lookups, memberWords, inviteCrossed, inviteLeft>>

(* The answer: the dialog's list follows it, and on the dashboard the dialog  *)
(* takes the board's name and opens.                                          *)
InvitationsArrive(r) ==
  /\ r \in listReads /\ r.read
  /\ listReads' = listReads \ {r}
  /\ modal' = [modal EXCEPT !.list = r.got, !.board = r.board, !.open = (@ \/ ~onPage)]
  /\ inviteCalls' = Reread(inviteCalls, r.board)
  /\ unheardOf' = ListStale(r)
  /\ UNCHANGED <<onPage, invitedTo, lookups, memberWords, inviteCrossed, inviteLeft>>

(* It opens all the same.                                                     *)
InvitationsFail(r) ==
  /\ r \in listReads /\ InviteSpends("failures")
  /\ listReads' = listReads \ {r}
  /\ modal' = [modal EXCEPT !.board = r.board, !.open = (@ \/ ~onPage)]
  /\ unheardOf' = unheardOf \union {r.board}
  /\ UNCHANGED <<onPage, invitedTo, lookups, inviteCalls, memberWords, inviteCrossed>>

(* handleBoardMembersUpdated: the page fetches them anew, and a fetch that is *)
(* still out gives way.                                                       *)
HearMembers ==
  /\ onPage /\ memberWords > 0
  /\ memberWords' = memberWords - 1
  /\ listReads' = {[board |-> PageBoard, read |-> FALSE, old |-> FALSE, got |-> EachOf({})]}
  /\ UNCHANGED <<onPage, invitedTo, modal, lookups, inviteCalls, unheardOf, inviteCrossed, inviteLeft>>

-----------------------------------------------------------------------------
(* fetchUsers: who is not on the board yet.  An overtaken answer is ignored.  *)
FetchUsers ==
  /\ modal.open /\ modal.picked = NoneYet /\ modal.latest < MaxInvites
  /\ modal' = [modal EXCEPT !.latest = @ + 1]
  /\ lookups' = lookups \union {[no |-> modal.latest + 1, users |-> Invitees \ invitedTo[modal.board]]}
  /\ UNCHANGED <<onPage, invitedTo, listReads, inviteCalls, memberWords, unheardOf, inviteCrossed, inviteLeft>>

UsersArrive(u) ==
  /\ u \in lookups
  /\ lookups' = lookups \ {u}
  /\ modal' = IF u.no = modal.latest THEN [modal EXCEPT !.offered = u.users] ELSE modal
  /\ UNCHANGED <<onPage, invitedTo, listReads, inviteCalls, memberWords, unheardOf, inviteCrossed, inviteLeft>>

Pick(p) ==
  /\ modal.open /\ p \in modal.offered /\ p # modal.picked
  /\ modal' = [modal EXCEPT !.picked = p]
  /\ UNCHANGED <<onPage, invitedTo, listReads, lookups, inviteCalls, memberWords, unheardOf, inviteCrossed, inviteLeft>>

Call(kind, p) ==
  /\ modal.open /\ InviteSpends("calls")
  /\ inviteCalls' = inviteCalls \union
       {[kind |-> kind, board |-> modal.board, who |-> p, step |-> "asked", reread |-> FALSE]}
  /\ inviteCrossed' = (inviteCrossed \/ \E c \in inviteCalls : c.board = modal.board /\ c.who = p)
  /\ UNCHANGED <<onPage, invitedTo, modal, listReads, lookups, memberWords, unheardOf>>

CreateInvitation == modal.picked # NoneYet /\ Call("invite", modal.picked)
RemoveInvitation(p) == p \in Listed /\ Call("remove", p)

-----------------------------------------------------------------------------
(* invite POST and DELETE: the row, where it makes a difference.              *)
WriteInvitation(c) ==
  LET wanted == IF c.kind = "invite" THEN invitedTo[c.board] \union {c.who} ELSE invitedTo[c.board] \ {c.who}
      done == wanted # invitedTo[c.board]
  IN /\ c \in inviteCalls /\ c.step = "asked"
     /\ invitedTo' = [invitedTo EXCEPT ![c.board] = wanted]
     /\ inviteCalls' = (inviteCalls \ {c}) \union {[c EXCEPT !.step = IF done THEN "written" ELSE "refused"]}
     /\ listReads' = IF done THEN Outdated(c.board) ELSE listReads
     /\ UNCHANGED <<onPage, modal, lookups, memberWords, unheardOf, inviteCrossed, inviteLeft>>

(* notifyBoardMembersChanged: whoever has the board open, before the answer.  *)
TellBoard(c) ==
  /\ c \in inviteCalls /\ c.step = "written"
  /\ memberWords' = IF onPage /\ c.board = PageBoard THEN memberWords + 1 ELSE memberWords
  /\ inviteCalls' = (inviteCalls \ {c}) \union {[c EXCEPT !.step = "told"]}
  /\ UNCHANGED <<onPage, invitedTo, modal, listReads, lookups, unheardOf, inviteCrossed, inviteLeft>>

(* The answer edits the list that is on screen.                               *)
InviteAnswered(c) ==
  /\ c \in inviteCalls /\ c.step \in {"told", "refused"}
  /\ inviteCalls' = inviteCalls \ {c}
  /\ modal' = IF c.step = "refused" THEN modal
              ELSE IF c.kind = "invite"
              THEN [modal EXCEPT !.list[c.who] = @ + 1, !.picked = NoneYet, !.offered = {}]
              ELSE [modal EXCEPT !.list[c.who] = 0]
  /\ inviteCrossed' = (inviteCrossed \/ c.reread \/ (c.step = "told" /\ c.board # modal.board))
  /\ UNCHANGED <<onPage, invitedTo, listReads, lookups, memberWords, unheardOf, inviteLeft>>

(* Another window of the owner's, or the person leaving.                      *)
ChangeElsewhere(b, p) ==
  /\ InviteSpends("elsewhere")
  /\ invitedTo' = [invitedTo EXCEPT ![b] = IF p \in @ THEN @ \ {p} ELSE @ \union {p}]
  /\ memberWords' = IF onPage /\ b = PageBoard THEN memberWords + 1 ELSE memberWords
  /\ unheardOf' = IF onPage THEN unheardOf ELSE unheardOf \union {b}
  /\ inviteCrossed' = (inviteCrossed \/ \E c \in inviteCalls : c.board = b)
  /\ listReads' = Outdated(b)
  /\ UNCHANGED <<onPage, modal, lookups, inviteCalls>>

InviteNext ==
  \/ \E b \in OwnBoards : OpenInvite(b) \/ \E p \in Invitees : ChangeElsewhere(b, p)
  \/ OpenInviteModal \/ CloseInvite \/ HearMembers \/ FetchUsers \/ CreateInvitation
  \/ \E r \in listReads : ReadInvitations(r) \/ InvitationsArrive(r) \/ InvitationsFail(r)
  \/ \E u \in lookups : UsersArrive(u)
  \/ \E p \in Invitees : Pick(p) \/ RemoveInvitation(p)
  \/ \E c \in inviteCalls : WriteInvitation(c) \/ TellBoard(c) \/ InviteAnswered(c)

InviteSpec == (\E page \in BOOLEAN : InviteInit(page)) /\ [][InviteNext]_inviteVars

-----------------------------------------------------------------------------
(* Properties *)

InviteQuiet == inviteCalls = {} /\ listReads = {} /\ memberWords = 0

(* "A local copy ... It follows the prop rather than being copied from it once"*)
(* (InviteModal.vue:191): an open dialog lists the people of the board it     *)
(* names, each once, through invitations and removals made in it, re-reads,   *)
(* changes of the board on the dashboard, and other windows on the page.      *)
ListIsRight ==
  (modal.open /\ InviteQuiet /\ ~inviteCrossed /\ modal.board \notin unheardOf) =>
    modal.list = EachOf(invitedTo[modal.board])

(* The same when an answer comes after the list was read with what it did, or *)
(* after another board's dialog was opened: it does not hold (README).        *)
ListIsAlwaysRight == (modal.open /\ InviteQuiet /\ unheardOf = {}) => Listed = invitedTo[modal.board]
=============================================================================
