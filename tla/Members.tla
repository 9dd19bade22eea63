-------------------------------- MODULE Members --------------------------------
(* Accounts and who is on which board: invitations to people with an account  *)
(* and, by mail, to addresses without one; signing up through such a link;    *)
(* the admins' creating, changing and deleting of accounts; signing in        *)
(* through a directory that has the last word on roles; leaving a board.      *)
(* A person here is an address: the account that has it may be deleted and    *)
(* made again.  Passwords, sessions and names are left out.                   *)

EXTENDS Naturals, FiniteSets, Sequences

CONSTANTS
  MemberPeople,
  FirstAdmins,    \* those with an account at first, all admins
  BoardOwner,     \* one of them: owns every board here
  MemberBoards,
  MemberCalls,    \* requests that may be under way at a time
  DirectoryRules, \* adminClaim and adminValue are configured
  MaxLinks,       \* bound: links ever mailed
  MaxMemberActs   \* bound: requests

ASSUME MemberAssumption ==
  /\ FirstAdmins \subseteq MemberPeople /\ BoardOwner \in FirstAdmins
  /\ DirectoryRules \in BOOLEAN /\ MaxLinks \in Nat /\ MaxMemberActs \in Nat

VARIABLES
  role,           \* `user`: "none" when no account has the address
  onBoard,        \* `invitations`: how many rows per board and person
  links,          \* `board_email_invites`, in the order they were made
  memberCall,
  memberActs,
  madeBy,         \* per link, the accounts made through it
  adminsCrossed,  \* two requests that take the role away were past their checks
                  \* at once, or the directory took it from the last admin or
                  \* while such a request was past its check
  invitesCrossed  \* an invitation overlapped with another, or a deletion

memberVars == <<role, onBoard, links, memberCall, memberActs, madeBy, adminsCrossed, invitesCrossed>>

NoMemberCall == [kind |-> "none", step |-> "idle", who |-> BoardOwner, board |-> "none",
                 link |-> 0, to |-> "none"]

MembersInit ==
  /\ role = [x \in MemberPeople |-> IF x \in FirstAdmins THEN "admin" ELSE "none"]
  /\ onBoard = [b \in MemberBoards |-> [x \in MemberPeople |-> 0]]
  /\ links = << >>
  /\ memberCall = [p \in MemberCalls |-> NoMemberCall]
  /\ memberActs = MaxMemberActs
  /\ madeBy = << >>
  /\ adminsCrossed = FALSE /\ invitesCrossed = FALSE

HasAccount(x) == role[x] # "none"
Admins == {x \in MemberPeople : role[x] = "admin"}
Live(l) == links[l].state = "open"
LinksFor(b, x) == {l \in DOMAIN links : links[l].board = b /\ links[l].to = x}

(* A request that takes the role away, or the account, and looks no more.     *)
Decided(r) == r.kind = "delete" \/ (r.kind = "update" /\ r.step = "write" /\ r.to = "user")
AnyDecided == \E q \in MemberCalls : Decided(memberCall[q])

Request(p, kind, step, who, board, link, to) ==
  /\ memberCall[p].step = "idle" /\ memberActs > 0
  /\ memberActs' = memberActs - 1
  /\ memberCall' = [memberCall EXCEPT ![p] =
       [kind |-> kind, step |-> step, who |-> who, board |-> board, link |-> link, to |-> to]]
  /\ LET others == {memberCall[q].kind : q \in MemberCalls}
     IN /\ adminsCrossed' = (adminsCrossed \/ (kind = "delete" /\ AnyDecided))
        /\ invitesCrossed' = (invitesCrossed
             \/ (kind = "invite" /\ others \cap {"invite", "delete"} # {})
             \/ (kind = "delete" /\ "invite" \in others))
Proceeds(p, step) == memberCall' = [memberCall EXCEPT ![p].step = step]
Answers(p) == memberCall' = [memberCall EXCEPT ![p] = NoMemberCall]
Stage(p, kind, step) == memberCall[p].kind = kind /\ memberCall[p].step = step
FlagsStay == UNCHANGED <<memberActs, adminsCrossed, invitesCrossed>>
NothingWritten == UNCHANGED <<role, onBoard, links, madeBy>>

-----------------------------------------------------------------------------
(* invite POST, by the board's owner: whoever has an account is added, unless *)
(* already there; an address without one is mailed a link.                    *)
StartInvite(p, b, x) ==
  /\ HasAccount(BoardOwner)
  /\ Request(p, "invite", "look", x, b, 0, "none")
  /\ NothingWritten

LookInvitee(p) ==
  /\ Stage(p, "invite", "look")
  /\ LET b == memberCall[p].board  x == memberCall[p].who
     IN CASE ~HasAccount(x) -> Proceeds(p, "dropLinks")
          [] HasAccount(x) /\ (onBoard[b][x] > 0 \/ x = BoardOwner) -> Answers(p)
          [] OTHER -> Proceeds(p, "insert")
  /\ FlagsStay /\ NothingWritten

InsertInvitation(p) ==
  /\ Stage(p, "invite", "insert")
  /\ onBoard' = [onBoard EXCEPT ![memberCall[p].board][memberCall[p].who] = @ + 1]
  /\ Answers(p)
  /\ FlagsStay /\ UNCHANGED <<role, links, madeBy>>

(* inviteByEmail: the newest link is the only one that works.                 *)
DropOldLinks(p) ==
  /\ Stage(p, "invite", "dropLinks")
  /\ links' = [l \in DOMAIN links |->
       IF l \in LinksFor(memberCall[p].board, memberCall[p].who) /\ links[l].state # "used"
       THEN [links[l] EXCEPT !.state = "gone"] ELSE links[l]]
  /\ Proceeds(p, "mail")
  /\ FlagsStay /\ UNCHANGED <<role, onBoard, madeBy>>

MailLink(p) ==
  /\ Stage(p, "invite", "mail") /\ Len(links) < MaxLinks
  /\ links' = Append(links, [board |-> memberCall[p].board, to |-> memberCall[p].who,
                             state |-> "open"])
  /\ madeBy' = Append(madeBy, 0)
  /\ Answers(p)
  /\ FlagsStay /\ UNCHANGED <<role, onBoard>>

LinkExpires(l) ==
  /\ links[l].state = "open"
  /\ links' = [links EXCEPT ![l].state = "expired"]
  /\ UNCHANGED <<role, onBoard, memberCall, madeBy>> /\ FlagsStay

-----------------------------------------------------------------------------
(* sign-up, through a link or (link 0) where anybody may, and the admins' own *)
(* creating of accounts: the address is looked up, the password hashed, and   *)
(* everything written in one transaction.                                     *)
SignUp(p, x, l) ==
  /\ ~HasAccount(x)
  /\ l > 0 => Live(l) /\ links[l].to = x
  /\ Request(p, "join", "commit", x, "none", l, "user")
  /\ NothingWritten

CreateUser(p, a, x, to) ==
  /\ role[a] = "admin" /\ ~HasAccount(x)
  /\ Request(p, "join", "commit", x, "none", 0, to)
  /\ NothingWritten

(* A slip: the link is marked used whether or not it was already.             *)
SpendableOnce(l) == l = 0 \/ links[l].state # "gone"

(* The row must still be there and not be used; that it may have expired      *)
(* since is not asked again.                                                  *)
Spendable(l) == l = 0 \/ links[l].state \in {"open", "expired"}

(* The address is unique; anything amiss rolls the whole of it back.          *)
CommitAccount(p) ==
  LET x == memberCall[p].who  l == memberCall[p].link
  IN /\ Stage(p, "join", "commit")
     /\ IF HasAccount(x) \/ ~Spendable(l)
        THEN NothingWritten
        ELSE /\ role' = [role EXCEPT ![x] = memberCall[p].to]
             /\ IF l = 0 THEN UNCHANGED <<links, onBoard, madeBy>>
                ELSE /\ links' = [links EXCEPT ![l].state = "used"]
                     /\ onBoard' = [onBoard EXCEPT ![links[l].board][x] = @ + 1]
                     /\ madeBy' = [madeBy EXCEPT ![l] = @ + 1]
     /\ Answers(p)
     /\ FlagsStay

-----------------------------------------------------------------------------
(* admin/update, and update-user for oneself: the account is read before the  *)
(* transaction; demoting an admin counts them first.                          *)
StartUpdate(p, a, x, to) ==
  /\ role[a] = "admin" /\ HasAccount(x) /\ role[x] # to
  /\ Request(p, "update", IF role[x] = "admin" THEN "count" ELSE "write", x, "none", 0, to)
  /\ NothingWritten

CountsMoreThan(p, few) ==
  /\ Stage(p, "update", "count")
  /\ IF Cardinality(Admins) <= few
     THEN Answers(p) /\ UNCHANGED adminsCrossed
     ELSE Proceeds(p, "write") /\ adminsCrossed' = (adminsCrossed \/ AnyDecided)
  /\ UNCHANGED <<memberActs, invitesCrossed>> /\ NothingWritten

(* A slip: refused only when there is none.                                   *)
CountAnyAdmin(p) == CountsMoreThan(p, 0)
CountAdmins(p) == CountsMoreThan(p, 1)

WriteRole(p) ==
  /\ Stage(p, "update", "write")
  /\ role' = IF HasAccount(memberCall[p].who)
             THEN [role EXCEPT ![memberCall[p].who] = memberCall[p].to] ELSE role
  /\ Answers(p)
  /\ FlagsStay /\ UNCHANGED <<onBoard, links, madeBy>>

(* admin/delete: nobody deletes themselves; one transaction.                  *)
StartDelete(p, a, x) ==
  /\ role[a] = "admin" /\ a # x
  /\ Request(p, "delete", "commit", x, "none", 0, "none")
  /\ NothingWritten

CommitDelete(p) ==
  LET x == memberCall[p].who
  IN /\ Stage(p, "delete", "commit")
     /\ IF HasAccount(x)
        THEN /\ role' = [role EXCEPT ![x] = "none"]
             /\ onBoard' = [b \in MemberBoards |-> [onBoard[b] EXCEPT ![x] = 0]]
             /\ links' = [l \in DOMAIN links |->
                  IF x = BoardOwner /\ links[l].state # "used"
                  THEN [links[l] EXCEPT !.state = "gone"] ELSE links[l]]
             /\ UNCHANGED madeBy
        ELSE NothingWritten
     /\ Answers(p)
     /\ FlagsStay

-----------------------------------------------------------------------------
(* findOrCreateUser, for somebody the directory vouches for, as an admin or   *)
(* not: the account is looked up, or made; if another made it meanwhile, it   *)
(* is looked up once more.                                                    *)
SignIn(p, x, to) ==
  /\ Request(p, "sign in", "look", x, "none", 0, to)
  /\ NothingWritten

FindAccount(p, first) ==
  /\ Stage(p, "sign in", IF first THEN "look" ELSE "look again")
  /\ \/ HasAccount(memberCall[p].who) /\ Proceeds(p, "role")
     \/ ~HasAccount(memberCall[p].who) /\ Proceeds(p, IF first THEN "make" ELSE "make at last")
     \/ ~HasAccount(memberCall[p].who) /\ Answers(p)     \* not provisioned here
  /\ FlagsStay /\ NothingWritten

MakeAccount(p, first) ==
  LET x == memberCall[p].who
  IN /\ Stage(p, "sign in", IF first THEN "make" ELSE "make at last")
     /\ IF HasAccount(x)
        THEN NothingWritten /\ (IF first THEN Proceeds(p, "look again") ELSE Answers(p))
        ELSE /\ role' = [role EXCEPT ![x] = memberCall[p].to]
             /\ Answers(p)
             /\ UNCHANGED <<onBoard, links, madeBy>>
     /\ FlagsStay

(* applyAdminRole: one UPDATE, and nobody is counted.                         *)
ApplyAdminRole(p) ==
  LET x == memberCall[p].who
      written == DirectoryRules /\ HasAccount(x)
      demoted == written /\ role[x] = "admin" /\ memberCall[p].to = "user"
  IN /\ Stage(p, "sign in", "role")
     /\ role' = IF written THEN [role EXCEPT ![x] = memberCall[p].to] ELSE role
     /\ adminsCrossed' = (adminsCrossed \/ (demoted /\ (AnyDecided \/ Admins = {x})))
     /\ Answers(p)
     /\ UNCHANGED <<memberActs, invitesCrossed, onBoard, links, madeBy>>

-----------------------------------------------------------------------------
(* invite DELETE by the owner, leaveBoard by the member: every row of theirs. *)
RemoveBoardMember(b, x) ==
  /\ onBoard[b][x] > 0 /\ (HasAccount(BoardOwner) \/ HasAccount(x))
  /\ onBoard' = [onBoard EXCEPT ![b][x] = 0]
  /\ UNCHANGED <<role, links, memberCall, madeBy>> /\ FlagsStay

-----------------------------------------------------------------------------
MembersNext ==
  \/ \E p \in MemberCalls :
       \/ \E b \in MemberBoards, x \in MemberPeople : StartInvite(p, b, x)
       \/ LookInvitee(p) \/ InsertInvitation(p) \/ DropOldLinks(p) \/ MailLink(p)
       \/ \E x \in MemberPeople, l \in {0} \union DOMAIN links : SignUp(p, x, l)
       \/ \E a, x \in MemberPeople :
            \/ \E to \in {"user", "admin"} : CreateUser(p, a, x, to) \/ StartUpdate(p, a, x, to)
            \/ StartDelete(p, a, x)
       \/ \E x \in MemberPeople, to \in {"user", "admin"} : SignIn(p, x, to)
       \/ CommitAccount(p) \/ CountAdmins(p) \/ WriteRole(p) \/ CommitDelete(p)
       \/ \E first \in BOOLEAN : FindAccount(p, first) \/ MakeAccount(p, first)
       \/ ApplyAdminRole(p)
  \/ \E l \in DOMAIN links : LinkExpires(l)
  \/ \E b \in MemberBoards, x \in MemberPeople : RemoveBoardMember(b, x)

MembersSpec == MembersInit /\ [][MembersNext]_memberVars

-----------------------------------------------------------------------------
(* update-user.ts:67: "so an instance can't end up with no admins".  Demotions,*)
(* deletions and sign-ins may overlap as they like: an admin is left unless   *)
(* two of these requests were past their checks at once, which nothing in the *)
(* code prevents, or the directory, whose word is taken without a count, took *)
(* the role from the last admin or while such a request was past its check    *)
(* (admin/update, update-user, admin/delete, applyAdminRole).                 *)
AlwaysAnAdmin == ~adminsCrossed => Admins # {}

(* What update-user.ts says: it does not hold in those cases.                 *)
NeverWithoutAdmin == Admins # {}

(* A board's members are accounts that exist, each listed once, unless an     *)
(* invitation overlapped with another or with a deletion (invite, sign-up,    *)
(* admin/delete).                                                             *)
MembersAreReal ==
  ~invitesCrossed => \A b \in MemberBoards, x \in MemberPeople :
    onBoard[b][x] > 0 => HasAccount(x) /\ onBoard[b][x] = 1

(* However sign-ups, deletions and new sign-ups interleave, one link makes    *)
(* one account at most, and only the newest link to an address for a board    *)
(* still works, unless two invitations overlapped (sign-up, inviteByEmail).   *)
LinkWorksOnce ==
  \A l \in DOMAIN links :
    /\ madeBy[l] <= 1
    /\ (~invitesCrossed /\ Live(l)) => \A k \in LinksFor(links[l].board, links[l].to) : k <= l

(* Both, of every way onto a board.                                           *)
InvitedAreReal == MembersAreReal /\ LinkWorksOnce
=============================================================================
