---------------------------- MODULE MembersProofs ----------------------------
(* Theorems about Members and InviteDialog, for every set of people, boards   *)
(* and requests: an instance keeps an admin, a board's members are accounts   *)
(* listed once, a link to sign up with makes one account, and the dialog of   *)
(* people lists who is on the board it names.                                 *)
EXTENDS Members, InviteDialog, FiniteSetTheorems, SequenceTheorems, TLAPS

Kinds == {"none", "invite", "join", "update", "delete", "sign in"}
SignInSteps == {"look", "look again", "make", "make at last", "role"}
MemberSteps == SignInSteps \union {"idle", "insert", "dropLinks", "mail", "commit", "count", "write"}
LinkStates == {"open", "expired", "used", "gone"}
LinkRow == [board : MemberBoards, to : MemberPeople, state : LinkStates]
MemberCallState ==
  [kind : Kinds, step : MemberSteps, who : MemberPeople, board : MemberBoards \union {"none"},
   link : Nat, to : {"none", "user", "admin"}]

MembersTypeOK ==
  /\ role \in [MemberPeople -> {"none", "user", "admin"}]
  /\ onBoard \in [MemberBoards -> [MemberPeople -> Nat]]
  /\ links \in Seq(LinkRow)
  /\ madeBy \in Seq(Nat)
  /\ Len(madeBy) = Len(links)
  /\ memberCall \in [MemberCalls -> MemberCallState]
  /\ memberActs \in Nat
  /\ adminsCrossed \in BOOLEAN /\ invitesCrossed \in BOOLEAN

(* What a request under way may hold.                                         *)
CallIsSound(r) ==
  /\ r.step = "idle" <=> r.kind = "none"
  /\ r.kind = "invite" => r.board \in MemberBoards /\ r.step \in {"look", "insert", "dropLinks", "mail"}
  /\ r.kind = "join" => r.step = "commit" /\ r.link \in 0..Len(links) /\ r.to \in {"user", "admin"}
  /\ (r.kind = "join" /\ r.link > 0) => links[r.link].to = r.who
  /\ r.kind = "update" => r.step \in {"count", "write"} /\ r.to \in {"user", "admin"}
  /\ r.kind = "delete" => r.step = "commit"
  /\ r.kind = "sign in" => r.step \in SignInSteps /\ r.to \in {"user", "admin"}
CallsAreSound == \A p \in MemberCalls : CallIsSound(memberCall[p])

(* One request at a time is past its check, and as long as it is, somebody    *)
(* else than the one it is about has the role.                                *)
TakesAlone ==
  ~adminsCrossed => \A p, q \in MemberCalls :
    Decided(memberCall[p]) /\ Decided(memberCall[q]) => p = q

AnotherIsAdmin ==
  ~adminsCrossed => \A p \in MemberCalls :
    Decided(memberCall[p]) => \E a \in Admins : a # memberCall[p].who

(* An invitation is alone among invitations and deletions; what it saw of the *)
(* account and the board, or of the links it dropped, is so when it writes.   *)
InvitesAlone ==
  ~invitesCrossed => \A p, q \in MemberCalls :
    memberCall[p].kind = "invite" /\ memberCall[q].kind \in {"invite", "delete"} => q = p

InsertsNew ==
  ~invitesCrossed => \A p \in MemberCalls : LET r == memberCall[p] IN
    r.kind = "invite" /\ r.step = "insert" => HasAccount(r.who) /\ onBoard[r.board][r.who] = 0

MailsNewest ==
  ~invitesCrossed => \A p \in MemberCalls : LET r == memberCall[p] IN
    r.kind = "invite" /\ r.step = "mail" =>
      \A l \in DOMAIN links : links[l].board = r.board /\ links[l].to = r.who => links[l].state # "open"

UsedMadeOne == \A l \in DOMAIN links : madeBy[l] = IF links[l].state = "used" THEN 1 ELSE 0

MembersInv ==
  /\ MembersTypeOK
  /\ CallsAreSound
  /\ TakesAlone
  /\ AnotherIsAdmin
  /\ AlwaysAnAdmin
  /\ InvitesAlone
  /\ InsertsNew
  /\ MailsNewest
  /\ UsedMadeOne
  /\ InvitedAreReal

-----------------------------------------------------------------------------
LEMMA NoCallType == NoMemberCall \in MemberCallState
  BY MemberAssumption DEF NoMemberCall, MemberCallState, Kinds, MemberSteps, SignInSteps

(* Writing a new state for some of the links leaves a sequence as long.       *)
LEMMA LinksRewritten ==
  ASSUME MembersTypeOK, NEW new, new \in [DOMAIN links -> LinkRow]
  PROVE  new \in Seq(LinkRow) /\ Len(new) = Len(links) /\ DOMAIN new = DOMAIN links
<1>1. Len(links) \in Nat /\ DOMAIN links = 1..Len(links)
  BY LenProperties DEF MembersTypeOK
<1>2. new \in [1..Len(links) -> LinkRow]
  BY <1>1
<1>3. new \in Seq(LinkRow)
  BY <1>1, <1>2, SeqDef
<1> QED
  BY <1>1, <1>2, <1>3, LenProperties

(* The initial state has no requests, no links, and an admin.                 *)
LEMMA MembersInitInv == MembersInit => MembersInv
<1> SUFFICES ASSUME MembersInit PROVE MembersInv
  OBVIOUS
<1>1. links = << >> /\ madeBy = << >> /\ DOMAIN links = {}
  BY DEF MembersInit
<1>2. MembersTypeOK
  <2>1. links \in Seq(LinkRow) /\ madeBy \in Seq(Nat) /\ Len(madeBy) = Len(links)
    BY <1>1, EmptySeq
  <2> QED
    BY <2>1, NoCallType, MemberAssumption DEF MembersInit, MembersTypeOK
<1>3. CallsAreSound /\ TakesAlone /\ AnotherIsAdmin /\ InvitesAlone /\ InsertsNew /\ MailsNewest
  BY <1>1, MemberAssumption
     DEF MembersInit, CallsAreSound, CallIsSound, TakesAlone, AnotherIsAdmin, Decided, InvitesAlone, InsertsNew,
         MailsNewest, NoMemberCall
<1>4. AlwaysAnAdmin
  BY MemberAssumption DEF MembersInit, AlwaysAnAdmin, Admins
<1>5. UsedMadeOne /\ InvitedAreReal
  BY <1>1 DEF MembersInit, UsedMadeOne, InvitedAreReal, MembersAreReal, LinkWorksOnce
<1> QED
  BY <1>2, <1>3, <1>4, <1>5 DEF MembersInv
-----------------------------------------------------------------------------
(* Types.                                                                     *)
LEMMA RequestType ==
  ASSUME MembersTypeOK, NEW p \in MemberCalls, NEW kind \in Kinds, NEW step \in MemberSteps,
         NEW who \in MemberPeople, NEW board \in MemberBoards \union {"none"}, NEW link \in Nat,
         NEW to \in {"none", "user", "admin"}, Request(p, kind, step, who, board, link, to),
         NothingWritten
  PROVE  MembersTypeOK'
  BY SMTT(60) DEF Request, NothingWritten, MembersTypeOK, MemberCallState

LEMMA ProceedsType ==
  ASSUME MembersTypeOK, NEW p \in MemberCalls, NEW step \in MemberSteps, Proceeds(p, step)
  PROVE  memberCall' \in [MemberCalls -> MemberCallState]
  BY DEF Proceeds, MembersTypeOK, MemberCallState

LEMMA AnswersType ==
  ASSUME MembersTypeOK, NEW p \in MemberCalls, Answers(p)
  PROVE  memberCall' \in [MemberCalls -> MemberCallState]
  BY NoCallType DEF Answers, MembersTypeOK

(* A link that changes its state is still one.                                *)
LEMMA LinkInState ==
  ASSUME MembersTypeOK, NEW l \in DOMAIN links, NEW state \in LinkStates
  PROVE  links[l] \in LinkRow /\ [links[l] EXCEPT !.state = state] \in LinkRow
<1>1. links[l] \in LinkRow
  BY LenProperties, ElementOfSeq DEF MembersTypeOK
<1> QED
  BY <1>1 DEF LinkRow

LEMMA OneMoreRow ==
  ASSUME NEW rows \in [MemberBoards -> [MemberPeople -> Nat]],
         NEW b \in MemberBoards \union {"none"}, NEW x \in MemberPeople
  PROVE  [rows EXCEPT ![b][x] = @ + 1] \in [MemberBoards -> [MemberPeople -> Nat]]
<1>1. CASE b \in MemberBoards
  <2>1. rows[b] \in [MemberPeople -> Nat] /\ rows[b][x] + 1 \in Nat
    BY <1>1
  <2>2. [rows[b] EXCEPT ![x] = @ + 1] \in [MemberPeople -> Nat]
    BY <2>1
  <2> QED
    BY <1>1, <2>2
<1>2. CASE b \notin MemberBoards
  BY <1>2
<1> QED
  BY <1>1, <1>2

(* What a sign-in under way may do.                                           *)
SignsIn(p) == (\E first \in BOOLEAN : FindAccount(p, first) \/ MakeAccount(p, first)) \/ ApplyAdminRole(p)
GivesRole(p, to) ==
  /\ role' = [role EXCEPT ![memberCall[p].who] = to]
  /\ ~adminsCrossed' =>
       /\ ~adminsCrossed
       /\ role[memberCall[p].who] = "admin" /\ to = "user" => ~AnyDecided /\ Admins # {memberCall[p].who}

LEMMA SignInWrites ==
  ASSUME MembersTypeOK, CallsAreSound, NEW p \in MemberCalls, SignsIn(p)
  PROVE  /\ UNCHANGED <<onBoard, links, madeBy, memberActs, invitesCrossed>>
         /\ memberCall[p].kind = "sign in"
         /\ Answers(p) \/ \E step \in SignInSteps : Proceeds(p, step)
         /\ \/ UNCHANGED <<role, adminsCrossed>>
            \/ \E to \in {"user", "admin"} : GivesRole(p, to)
<1>1. memberCall[p] \in MemberCallState
  BY DEF MembersTypeOK
<1>2. memberCall[p].kind = "sign in"
  BY DEF SignsIn, FindAccount, MakeAccount, ApplyAdminRole, Stage
<1>3. memberCall[p].to \in {"user", "admin"}
  BY <1>2 DEF CallsAreSound, CallIsSound
<1>a. PICK to \in {"user", "admin"} : to = memberCall[p].to
  BY <1>3
<1>4. ASSUME NEW first \in BOOLEAN, FindAccount(p, first)
      PROVE  /\ UNCHANGED <<onBoard, links, madeBy, memberActs, invitesCrossed, role, adminsCrossed>>
             /\ Answers(p) \/ \E step \in SignInSteps : Proceeds(p, step)
  BY <1>4 DEF FindAccount, FlagsStay, NothingWritten, SignInSteps
<1>5. ASSUME NEW first \in BOOLEAN, MakeAccount(p, first)
      PROVE  /\ UNCHANGED <<onBoard, links, madeBy, memberActs, invitesCrossed, adminsCrossed>>
             /\ Answers(p) \/ \E step \in SignInSteps : Proceeds(p, step)
             /\ UNCHANGED role \/ GivesRole(p, to)
  BY <1>5, <1>a DEF MakeAccount, FlagsStay, NothingWritten, SignInSteps, HasAccount, GivesRole
<1>6. ASSUME ApplyAdminRole(p)
      PROVE  /\ UNCHANGED <<onBoard, links, madeBy, memberActs, invitesCrossed>>
             /\ Answers(p)
             /\ UNCHANGED <<role, adminsCrossed>> \/ GivesRole(p, to)
  <2> DEFINE x == memberCall[p].who
             written == DirectoryRules /\ HasAccount(x)
             demoted == written /\ role[x] = "admin" /\ memberCall[p].to = "user"
  <2>1. /\ role' = IF written THEN [role EXCEPT ![x] = memberCall[p].to] ELSE role
        /\ adminsCrossed' = (adminsCrossed \/ (demoted /\ (AnyDecided \/ Admins = {x})))
        /\ Answers(p) /\ UNCHANGED <<memberActs, invitesCrossed, onBoard, links, madeBy>>
    BY <1>6 DEF ApplyAdminRole
  <2>2. CASE written
    <3>1. role' = [role EXCEPT ![x] = to]
      BY <1>a, <2>1, <2>2
    <3>2. ~adminsCrossed' => /\ ~adminsCrossed
                             /\ (role[x] = "admin" /\ to = "user") => ~AnyDecided /\ Admins # {x}
      BY <1>a, <2>1, <2>2
    <3> QED
      BY <2>1, <3>1, <3>2 DEF GivesRole
  <2>3. CASE ~written
    <3>1. UNCHANGED <<role, adminsCrossed>>
      BY <2>1, <2>3 DEF MembersTypeOK
    <3> QED
      BY <2>1, <3>1
  <2> QED
    BY <2>2, <2>3
<1>7. CASE \E first \in BOOLEAN : FindAccount(p, first)
  BY <1>2, <1>4, <1>7
<1>8. CASE \E first \in BOOLEAN : MakeAccount(p, first)
  <2>1. UNCHANGED role \/ GivesRole(p, to)
    BY <1>5, <1>8
  <2> QED
    BY <1>2, <1>5, <1>8, <2>1
<1>9. CASE ApplyAdminRole(p)
  BY <1>2, <1>6, <1>9
<1> QED
  BY <1>7, <1>8, <1>9 DEF SignsIn

LEMMA SignInType ==
  ASSUME MembersTypeOK, CallsAreSound, NEW p \in MemberCalls, SignsIn(p)
  PROVE  MembersTypeOK'
<1>1. memberCall' \in [MemberCalls -> MemberCallState]
  <2>1. Answers(p) \/ \E step \in SignInSteps : Proceeds(p, step)
    BY SignInWrites
  <2> QED
    BY <2>1, AnswersType, ProceedsType DEF MemberSteps
<1>2. role' \in [MemberPeople -> {"none", "user", "admin"}]
  BY SignInWrites DEF GivesRole, MembersTypeOK
<1>3. adminsCrossed' \in BOOLEAN
  BY DEF SignsIn, FindAccount, MakeAccount, ApplyAdminRole, FlagsStay, MembersTypeOK
<1> QED
  BY <1>1, <1>2, <1>3, SignInWrites DEF MembersTypeOK

LEMMA MembersTypeStep == MembersTypeOK /\ CallsAreSound /\ [MembersNext]_memberVars => MembersTypeOK'
<1> SUFFICES ASSUME MembersTypeOK, CallsAreSound, [MembersNext]_memberVars PROVE MembersTypeOK'
  OBVIOUS
<1>0. Len(links) \in Nat /\ DOMAIN links = 1..Len(links)
  BY LenProperties DEF MembersTypeOK
<1>1. ASSUME NEW p \in MemberCalls, NEW b \in MemberBoards, NEW x \in MemberPeople, StartInvite(p, b, x)
      PROVE  MembersTypeOK'
  BY <1>1, RequestType DEF StartInvite, Kinds, MemberSteps, SignInSteps
<1>2. ASSUME NEW p \in MemberCalls, LookInvitee(p) PROVE MembersTypeOK'
  <2>1. Proceeds(p, "insert") \/ Proceeds(p, "dropLinks") \/ Answers(p)
    BY <1>2 DEF LookInvitee
  <2>2. memberCall' \in [MemberCalls -> MemberCallState]
    BY <2>1, ProceedsType, AnswersType DEF MemberSteps
  <2> QED
    BY <1>2, <2>2 DEF LookInvitee, FlagsStay, NothingWritten, MembersTypeOK
<1>3. ASSUME NEW p \in MemberCalls, InsertInvitation(p) PROVE MembersTypeOK'
  <2>1. onBoard' \in [MemberBoards -> [MemberPeople -> Nat]]
    <3>1. memberCall[p].board \in MemberBoards \union {"none"} /\ memberCall[p].who \in MemberPeople
      BY DEF MembersTypeOK, MemberCallState
    <3> QED
      BY <1>3, <3>1, OneMoreRow DEF InsertInvitation, MembersTypeOK
  <2>2. memberCall' \in [MemberCalls -> MemberCallState]
    BY <1>3, NoCallType DEF InsertInvitation, Answers, MembersTypeOK
  <2> QED
    BY <1>3, <2>1, <2>2 DEF InsertInvitation, FlagsStay, MembersTypeOK
<1>4. ASSUME NEW p \in MemberCalls, DropOldLinks(p) PROVE MembersTypeOK'
  <2>1. links' \in Seq(LinkRow) /\ Len(links') = Len(links)
    <3>1. links' \in [DOMAIN links -> LinkRow]
      BY <1>4, LinkInState DEF DropOldLinks, LinkStates
    <3> QED
      BY <3>1, LinksRewritten
  <2>2. memberCall' \in [MemberCalls -> MemberCallState]
    <3>1. Proceeds(p, "mail") /\ "mail" \in MemberSteps
      BY <1>4 DEF DropOldLinks, MemberSteps
    <3> QED
      BY <3>1, ProceedsType
  <2> QED
    BY <1>4, <2>1, <2>2 DEF DropOldLinks, FlagsStay, MembersTypeOK
<1>5. ASSUME NEW p \in MemberCalls, MailLink(p) PROVE MembersTypeOK'
  <2>1. memberCall[p].board \in MemberBoards
    BY <1>5 DEF MailLink, Stage, CallsAreSound, CallIsSound
  <2> DEFINE new == [board |-> memberCall[p].board, to |-> memberCall[p].who, state |-> "open"]
  <2>2. new \in LinkRow
    BY <2>1 DEF MembersTypeOK, MemberCallState, LinkRow, LinkStates
  <2>3. links' = Append(links, new) /\ madeBy' = Append(madeBy, 0)
    BY <1>5 DEF MailLink
  <2>4. links' \in Seq(LinkRow) /\ madeBy' \in Seq(Nat) /\ Len(links') = Len(madeBy')
    BY <2>2, <2>3, AppendProperties DEF MembersTypeOK
  <2> QED
    BY <1>5, <2>4, NoCallType DEF MailLink, Answers, FlagsStay, MembersTypeOK
<1>6. ASSUME NEW l \in DOMAIN links, LinkExpires(l) PROVE MembersTypeOK'
  <2>1. [links[l] EXCEPT !.state = "expired"] \in LinkRow
    BY LinkInState DEF LinkStates
  <2>2. links' \in Seq(LinkRow) /\ Len(links') = Len(links)
    BY <1>0, <1>6, <2>1, ExceptSeq DEF LinkExpires, MembersTypeOK
  <2> QED
    BY <1>6, <2>2 DEF LinkExpires, FlagsStay, MembersTypeOK
<1>7. ASSUME NEW p \in MemberCalls, NEW x \in MemberPeople, NEW l \in {0} \union DOMAIN links, SignUp(p, x, l)
      PROVE  MembersTypeOK'
  <2>1. l \in Nat /\ Request(p, "join", "commit", x, "none", l, "user") /\ NothingWritten
    BY <1>0, <1>7 DEF SignUp
  <2> QED
    BY <2>1, RequestType DEF Kinds, MemberSteps
<1>8. ASSUME NEW p \in MemberCalls, NEW a \in MemberPeople, NEW x \in MemberPeople, NEW to \in {"user", "admin"}, CreateUser(p, a, x, to)
      PROVE  MembersTypeOK'
  BY <1>8, RequestType DEF CreateUser, Kinds, MemberSteps, SignInSteps
<1>9. ASSUME NEW p \in MemberCalls, NEW a \in MemberPeople, NEW x \in MemberPeople, NEW to \in {"user", "admin"}, StartUpdate(p, a, x, to)
      PROVE  MembersTypeOK'
  BY <1>9, RequestType DEF StartUpdate, Kinds, MemberSteps, SignInSteps
<1>10. ASSUME NEW p \in MemberCalls, NEW a \in MemberPeople, NEW x \in MemberPeople, StartDelete(p, a, x)
       PROVE  MembersTypeOK'
  BY <1>10, RequestType DEF StartDelete, Kinds, MemberSteps, SignInSteps
<1>11. ASSUME NEW p \in MemberCalls, CountAdmins(p) PROVE MembersTypeOK'
  <2>1. memberCall' \in [MemberCalls -> MemberCallState]
    BY <1>11, ProceedsType, AnswersType DEF CountAdmins, CountsMoreThan, MemberSteps
  <2>2. adminsCrossed' \in BOOLEAN
    BY <1>11 DEF CountAdmins, CountsMoreThan, MembersTypeOK
  <2> QED
    BY <1>11, <2>1, <2>2 DEF CountAdmins, CountsMoreThan, NothingWritten, MembersTypeOK
<1>12. ASSUME NEW p \in MemberCalls, WriteRole(p) PROVE MembersTypeOK'
  <2>1. memberCall[p].to \in {"none", "user", "admin"}
    BY DEF MembersTypeOK, MemberCallState
  <2> QED
    BY <1>12, <2>1, NoCallType DEF WriteRole, Answers, FlagsStay, MembersTypeOK
<1>13. ASSUME NEW p \in MemberCalls, CommitAccount(p) PROVE MembersTypeOK'
  <2> DEFINE x == memberCall[p].who
             l == memberCall[p].link
  <2>1. x \in MemberPeople /\ memberCall[p].to \in {"none", "user", "admin"} /\ l \in 0..Len(links)
    BY <1>13 DEF CommitAccount, Stage, CallsAreSound, CallIsSound, MembersTypeOK, MemberCallState
  <2>2. memberCall' \in [MemberCalls -> MemberCallState]
    BY <1>13, AnswersType DEF CommitAccount
  <2>3. CASE NothingWritten
    BY <1>13, <2>2, <2>3 DEF CommitAccount, NothingWritten, FlagsStay, MembersTypeOK
  <2>4. CASE /\ role' = [role EXCEPT ![x] = memberCall[p].to]
             /\ IF l = 0 THEN UNCHANGED <<links, onBoard, madeBy>>
                ELSE /\ links' = [links EXCEPT ![l].state = "used"]
                     /\ onBoard' = [onBoard EXCEPT ![links[l].board][x] = @ + 1]
                     /\ madeBy' = [madeBy EXCEPT ![l] = @ + 1]
    <3>1. role' \in [MemberPeople -> {"none", "user", "admin"}]
      BY <2>1, <2>4 DEF MembersTypeOK
    <3>2. CASE l = 0
      BY <1>13, <2>2, <2>4, <3>1, <3>2 DEF CommitAccount, FlagsStay, MembersTypeOK
    <3>3. CASE l # 0
      <4>1. l \in DOMAIN links /\ l \in 1..Len(links) /\ l \in 1..Len(madeBy)
        BY <1>0, <2>1, <3>3 DEF MembersTypeOK
      <4>2. links' \in Seq(LinkRow) /\ Len(links') = Len(links)
        <5>1. links' = [links EXCEPT ![l] = [links[l] EXCEPT !.state = "used"]]
          BY <2>4, <3>3
        <5>2. [links[l] EXCEPT !.state = "used"] \in LinkRow
          BY <4>1, LinkInState DEF LinkStates
        <5> HIDE DEF l
        <5> QED
          BY <4>1, <5>1, <5>2, ExceptSeq DEF MembersTypeOK
      <4>3. madeBy[l] + 1 \in Nat
        BY <4>1, ElementOfSeq DEF MembersTypeOK
      <4>4. madeBy' \in Seq(Nat) /\ Len(madeBy') = Len(madeBy)
        <5>1. madeBy' = [madeBy EXCEPT ![l] = madeBy[l] + 1]
          BY <2>4, <3>3
        <5> HIDE DEF l
        <5> QED
          BY <4>1, <4>3, <5>1, ExceptSeq DEF MembersTypeOK
      <4>5. onBoard' \in [MemberBoards -> [MemberPeople -> Nat]]
        <5>1. links[l].board \in MemberBoards
          BY <4>1, LinkInState DEF LinkStates, LinkRow
        <5>2. onBoard' = [onBoard EXCEPT ![links[l].board][x] = @ + 1]
          BY <2>4, <3>3
        <5> HIDE DEF l, x
        <5> QED
          BY <2>1, <5>1, <5>2, OneMoreRow DEF MembersTypeOK
      <4> QED
        BY <1>13, <2>2, <3>1, <4>2, <4>4, <4>5 DEF CommitAccount, FlagsStay, MembersTypeOK
    <3> QED
      BY <3>2, <3>3
  <2> QED
    BY <1>13, <2>3, <2>4 DEF CommitAccount
<1>14. ASSUME NEW p \in MemberCalls, CommitDelete(p) PROVE MembersTypeOK'
  <2> DEFINE x == memberCall[p].who
  <2>1. memberCall' \in [MemberCalls -> MemberCallState]
    BY <1>14, AnswersType DEF CommitDelete
  <2>2. CASE NothingWritten
    BY <1>14, <2>1, <2>2 DEF CommitDelete, NothingWritten, FlagsStay, MembersTypeOK
  <2>3. CASE HasAccount(x)
    <3>1. role' \in [MemberPeople -> {"none", "user", "admin"}]
      BY <1>14, <2>3 DEF CommitDelete, MembersTypeOK
    <3>2. onBoard' \in [MemberBoards -> [MemberPeople -> Nat]]
      <4>1. onBoard' = [b \in MemberBoards |-> [onBoard[b] EXCEPT ![x] = 0]]
        BY <1>14, <2>3 DEF CommitDelete
      <4>2. ASSUME NEW b \in MemberBoards PROVE [onBoard[b] EXCEPT ![x] = 0] \in [MemberPeople -> Nat]
        BY DEF MembersTypeOK
      <4> HIDE DEF x
      <4> QED
        BY <4>1, <4>2
    <3>3. links' \in Seq(LinkRow) /\ Len(links') = Len(links)
      <4>1. links' \in [DOMAIN links -> LinkRow]
        BY <1>14, <2>3, LinkInState DEF CommitDelete, LinkStates
      <4> QED
        BY <4>1, LinksRewritten
    <3> QED
      BY <1>14, <2>1, <2>3, <3>1, <3>2, <3>3 DEF CommitDelete, FlagsStay, MembersTypeOK
  <2> QED
    BY <1>14, <2>2, <2>3 DEF CommitDelete
<1>15. ASSUME NEW b \in MemberBoards, NEW x \in MemberPeople, RemoveBoardMember(b, x)
       PROVE  MembersTypeOK'
  BY <1>15 DEF RemoveBoardMember, FlagsStay, MembersTypeOK
<1>16. CASE UNCHANGED memberVars
  BY <1>16 DEF memberVars, MembersTypeOK
<1>17. ASSUME NEW p \in MemberCalls, NEW x \in MemberPeople, NEW to \in {"user", "admin"}, SignIn(p, x, to)
       PROVE  MembersTypeOK'
  BY <1>17, RequestType DEF SignIn, Kinds, MemberSteps, SignInSteps
<1>18. ASSUME NEW p \in MemberCalls, SignsIn(p) PROVE MembersTypeOK'
  BY <1>18, SignInType
<1> QED
  BY <1>1, <1>2, <1>3, <1>4, <1>5, <1>6, <1>7, <1>8, <1>9, <1>10, <1>11, <1>12, <1>13, <1>14, <1>15, <1>16, <1>17, <1>18
     DEF MembersNext, SignsIn
-----------------------------------------------------------------------------
(* A link keeps its address and its board; no step takes one away.             *)
LEMMA LinksStay ==
  MembersTypeOK /\ MembersTypeOK' /\ CallsAreSound /\ [MembersNext]_memberVars =>
    \A l \in DOMAIN links : /\ l \in DOMAIN links' /\ l \in Nat
                            /\ links'[l].to = links[l].to /\ links'[l].board = links[l].board
<1> SUFFICES ASSUME MembersTypeOK, MembersTypeOK', CallsAreSound, [MembersNext]_memberVars, NEW l \in DOMAIN links
             PROVE  /\ l \in DOMAIN links' /\ l \in Nat
                    /\ links'[l].to = links[l].to /\ links'[l].board = links[l].board
  OBVIOUS
<1>1. DOMAIN links = 1..Len(links) /\ Len(links) \in Nat /\ links[l] \in LinkRow
  BY LenProperties, ElementOfSeq DEF MembersTypeOK
<1>2. CASE UNCHANGED links
  BY <1>1, <1>2
<1>3. ASSUME NEW p \in MemberCalls, DropOldLinks(p) \/ CommitDelete(p)
      PROVE  l \in DOMAIN links' /\ links'[l].to = links[l].to /\ links'[l].board = links[l].board
  BY <1>1, <1>3 DEF DropOldLinks, CommitDelete, NothingWritten, LinkRow
<1>4. ASSUME NEW p \in MemberCalls, MailLink(p)
      PROVE  l \in DOMAIN links' /\ links'[l].to = links[l].to /\ links'[l].board = links[l].board
  <2> DEFINE new == [board |-> memberCall[p].board, to |-> memberCall[p].who, state |-> "open"]
  <2>1. new \in LinkRow
    BY <1>4 DEF MailLink, Stage, CallsAreSound, CallIsSound, MembersTypeOK, MemberCallState, LinkRow, LinkStates
  <2>2. links' = Append(links, new)
    BY <1>4 DEF MailLink
  <2> HIDE DEF new
  <2>3. Len(links') = Len(links) + 1 /\ links'[l] = links[l] /\ DOMAIN links' = 1..Len(links')
    BY <1>1, <2>1, <2>2, AppendProperties, LenProperties DEF MembersTypeOK
  <2> QED
    BY <1>1, <2>3
<1>5. ASSUME NEW p \in MemberCalls, CommitAccount(p)
      PROVE  l \in DOMAIN links' /\ links'[l].to = links[l].to /\ links'[l].board = links[l].board
  <2>1. links' = links \/ links' = [links EXCEPT ![memberCall[p].link].state = "used"]
    BY <1>5 DEF CommitAccount, NothingWritten
  <2> QED
    BY <1>1, <2>1, LinkInState DEF LinkRow
<1>6. ASSUME NEW k \in DOMAIN links, LinkExpires(k)
      PROVE  l \in DOMAIN links' /\ links'[l].to = links[l].to /\ links'[l].board = links[l].board
  BY <1>1, <1>6 DEF LinkExpires, LinkRow
<1>7. (\E p \in MemberCalls : DropOldLinks(p) \/ CommitDelete(p) \/ MailLink(p) \/ CommitAccount(p))
      \/ (\E k \in DOMAIN links : LinkExpires(k)) \/ UNCHANGED links
  <2>1. (\E p \in MemberCalls : SignsIn(p)) => UNCHANGED <<links, madeBy>>
    BY SignInWrites
  <2> QED
    BY <2>1 DEF MembersNext, memberVars, StartInvite, LookInvitee, InsertInvitation, SignUp, CreateUser,
                StartUpdate, StartDelete, CountAdmins, CountsMoreThan, WriteRole, SignIn, SignsIn,
                RemoveBoardMember, NothingWritten
<1> QED
  BY <1>1, <1>2, <1>3, <1>4, <1>5, <1>6, <1>7

(* A request holds what it was made with.                                     *)
LEMMA SoundStep == MembersInv /\ [MembersNext]_memberVars => CallsAreSound'
<1> SUFFICES ASSUME MembersInv, [MembersNext]_memberVars PROVE CallsAreSound'
  OBVIOUS
<1>0. MembersTypeOK /\ CallsAreSound /\ MembersTypeOK'
  BY MembersTypeStep DEF MembersInv
<1>1. /\ memberCall \in [MemberCalls -> MemberCallState]
      /\ \A l \in 1..Len(links) : l \in 1..Len(links') /\ links'[l].to = links[l].to
      /\ Len(links) \in Nat /\ Len(links') \in Nat
  BY <1>0, LinksStay, LenProperties DEF MembersTypeOK
<1>2. ASSUME NEW r, CallIsSound(r), r \in MemberCallState PROVE CallIsSound(r)'
  <2>1. r.kind = "join" => r.link \in 0..Len(links') /\ (r.link > 0 => links'[r.link].to = r.who)
    <3> SUFFICES ASSUME r.kind = "join" PROVE r.link \in 0..Len(links') /\ (r.link > 0 => links'[r.link].to = r.who)
      OBVIOUS
    <3>1. r.link \in 0..Len(links) /\ (r.link > 0 => links[r.link].to = r.who)
      BY <1>2 DEF CallIsSound
    <3>2. CASE r.link = 0
      BY <1>1, <3>2
    <3>3. CASE r.link > 0
      <4>1. r.link \in 1..Len(links)
        BY <1>1, <3>1, <3>3
      <4> QED
        BY <1>1, <3>1, <4>1
    <3> QED
      BY <1>1, <3>1, <3>2, <3>3
  <2> QED
    BY <1>2, <2>1 DEF CallIsSound
<1>3. ASSUME NEW p \in MemberCalls, NEW new, memberCall' = [memberCall EXCEPT ![p] = new], CallIsSound(new)'
      PROVE  CallsAreSound'
  <2>1. ASSUME NEW q \in MemberCalls \ {p} PROVE CallIsSound(memberCall[q])'
    <3>1. memberCall'[q] = memberCall[q] /\ memberCall[q] \in MemberCallState /\ CallIsSound(memberCall[q])
      BY <1>0, <1>1, <1>3 DEF CallsAreSound
    <3> QED
      BY <1>2, <3>1
  <2>2. memberCall'[p] = new
    BY <1>1, <1>3
  <2> QED
    BY <1>3, <2>1, <2>2 DEF CallsAreSound
<1>4. ASSUME NEW p \in MemberCalls, Answers(p) PROVE CallsAreSound'
  <2>1. CallIsSound(NoMemberCall)'
    BY DEF CallIsSound, NoMemberCall
  <2> QED
    BY <1>3, <1>4, <2>1 DEF Answers
<1>5. ASSUME NEW p \in MemberCalls, NEW kind \in {"invite", "update", "delete", "sign in"}, NEW step \in MemberSteps \ {"idle"},
             NEW who, NEW board, NEW link, NEW to, Request(p, kind, step, who, board, link, to),
             kind = "invite" => board \in MemberBoards /\ step = "look",
             kind = "update" => step \in {"count", "write"} /\ to \in {"user", "admin"},
             kind = "delete" => step = "commit",
             kind = "sign in" => step = "look" /\ to \in {"user", "admin"}
      PROVE  CallsAreSound'
  <2> DEFINE new == [kind |-> kind, step |-> step, who |-> who, board |-> board, link |-> link, to |-> to]
  <2>1. CallIsSound(new)'
    BY <1>5 DEF CallIsSound, SignInSteps
  <2> QED
    BY <1>3, <1>5, <2>1 DEF Request
<1>6. ASSUME NEW p \in MemberCalls, NEW x, NEW link \in {0} \union DOMAIN links, link > 0 => links[link].to = x,
             NEW to \in {"user", "admin"}, Request(p, "join", "commit", x, "none", link, to)
      PROVE  CallsAreSound'
  <2> DEFINE new == [kind |-> "join", step |-> "commit", who |-> x, board |-> "none", link |-> link, to |-> to]
  <2>1. DOMAIN links = 1..Len(links) /\ link \in 0..Len(links') /\ (link > 0 => links'[link].to = x)
    BY <1>0, <1>1, <1>6, LenProperties DEF MembersTypeOK
  <2>2. CallIsSound(new)'
    BY <2>1 DEF CallIsSound
  <2> QED
    BY <1>3, <1>6, <2>2 DEF Request
<1>7. ASSUME NEW p \in MemberCalls, NEW step, Proceeds(p, step),
             \/ memberCall[p].kind = "invite" /\ step \in {"insert", "dropLinks", "mail"}
             \/ memberCall[p].kind = "update" /\ step = "write"
             \/ memberCall[p].kind = "sign in" /\ step \in SignInSteps
      PROVE  CallsAreSound'
  <2>1. memberCall[p] \in MemberCallState /\ CallIsSound(memberCall[p])
    BY <1>0, <1>1 DEF CallsAreSound
  <2>2. PICK new : new = [memberCall[p] EXCEPT !.step = step]
    OBVIOUS
  <2>3. /\ new.kind = memberCall[p].kind /\ new.board = memberCall[p].board /\ new.step = step
        /\ new.to = memberCall[p].to
    BY <2>1, <2>2 DEF MemberCallState
  <2>4. CallIsSound(new)'
    <3>1. CASE new.kind = "invite"
      BY <1>7, <2>1, <2>3, <3>1 DEF CallIsSound, SignInSteps
    <3>2. CASE new.kind \in {"update", "sign in"}
      BY <1>7, <2>1, <2>3, <3>2 DEF CallIsSound, SignInSteps
    <3> QED
      BY <1>7, <2>3, <3>1, <3>2
  <2>5. memberCall' = [memberCall EXCEPT ![p] = new]
    BY <1>7, <2>2 DEF Proceeds
  <2> QED
    BY <1>3, <2>4, <2>5
<1>8. ASSUME UNCHANGED memberCall PROVE CallsAreSound'
  BY <1>0, <1>1, <1>2, <1>8 DEF CallsAreSound
<1>9. ASSUME NEW p \in MemberCalls, NEW b \in MemberBoards, NEW x \in MemberPeople, StartInvite(p, b, x)
      PROVE  CallsAreSound'
  BY <1>5, <1>9 DEF StartInvite, MemberSteps, SignInSteps
<1>10. ASSUME NEW p \in MemberCalls, LookInvitee(p) \/ DropOldLinks(p) PROVE CallsAreSound'
  <2>1. memberCall[p].kind = "invite" /\ (Answers(p) \/ \E step \in {"insert", "dropLinks", "mail"} : Proceeds(p, step))
    BY <1>10 DEF LookInvitee, DropOldLinks, Stage
  <2> QED
    BY <1>4, <1>7, <2>1
<1>11. ASSUME NEW p \in MemberCalls, InsertInvitation(p) \/ MailLink(p) \/ CommitAccount(p) \/ WriteRole(p) \/ CommitDelete(p)
       PROVE  CallsAreSound'
  BY <1>4, <1>11 DEF InsertInvitation, MailLink, CommitAccount, WriteRole, CommitDelete
<1>12. ASSUME NEW p \in MemberCalls, NEW x \in MemberPeople, NEW l \in {0} \union DOMAIN links, SignUp(p, x, l)
       PROVE  CallsAreSound'
  BY <1>6, <1>12 DEF SignUp
<1>13. ASSUME NEW p \in MemberCalls, NEW a \in MemberPeople, NEW x \in MemberPeople, NEW to \in {"user", "admin"}, CreateUser(p, a, x, to)
       PROVE  CallsAreSound'
  BY <1>6, <1>13 DEF CreateUser
<1>14. ASSUME NEW p \in MemberCalls, NEW a \in MemberPeople, NEW x \in MemberPeople, NEW to \in {"user", "admin"}, StartUpdate(p, a, x, to)
       PROVE  CallsAreSound'
  BY <1>5, <1>14 DEF StartUpdate, MemberSteps
<1>15. ASSUME NEW p \in MemberCalls, NEW a \in MemberPeople, NEW x \in MemberPeople, StartDelete(p, a, x)
       PROVE  CallsAreSound'
  BY <1>5, <1>15 DEF StartDelete, MemberSteps
<1>16. ASSUME NEW p \in MemberCalls, NEW x \in MemberPeople, NEW to \in {"user", "admin"}, SignIn(p, x, to)
       PROVE  CallsAreSound'
  BY <1>5, <1>16 DEF SignIn, MemberSteps, SignInSteps
<1>17. ASSUME NEW p \in MemberCalls, CountAdmins(p) PROVE CallsAreSound'
  BY <1>4, <1>7, <1>17 DEF CountAdmins, CountsMoreThan, Stage
<1>18. ASSUME NEW p \in MemberCalls, SignsIn(p) PROVE CallsAreSound'
  BY <1>0, <1>4, <1>7, <1>18, SignInWrites
<1>19. CASE \/ \E l \in DOMAIN links : LinkExpires(l)
            \/ \E b \in MemberBoards, x \in MemberPeople : RemoveBoardMember(b, x)
            \/ UNCHANGED memberVars
  BY <1>8, <1>19 DEF LinkExpires, RemoveBoardMember, memberVars
<1> QED
  BY <1>9, <1>10, <1>11, <1>12, <1>13, <1>14, <1>15, <1>16, <1>17, <1>18, <1>19 DEF MembersNext, SignsIn
-----------------------------------------------------------------------------
(* More than one of them leaves another besides any one of them.              *)
LEMMA AnotherBesides ==
  ASSUME NEW S, NEW x, ~(Cardinality(S) <= 1)
  PROVE  \E y \in S : y # x
<1> SUFFICES ASSUME \A y \in S : y = x PROVE Cardinality(S) <= 1
  OBVIOUS
<1>1. CASE S = {}
  BY <1>1, FS_EmptySet
<1>2. CASE S = {x}
  BY <1>2, FS_Singleton
<1> QED
  BY <1>1, <1>2

(* A request is of one kind from beginning to end, and marks what it crosses. *)
Begins(p, kind) ==
  /\ memberCall[p].kind = "none" /\ memberCall'[p].kind = kind /\ memberCall'[p].step \notin {"insert", "mail"}
  /\ \A q \in MemberCalls \ {p} : memberCall'[q] = memberCall[q]
  /\ ~adminsCrossed' =>
       /\ ~adminsCrossed
       /\ Decided(memberCall'[p]) => ~AnyDecided
  /\ ~invitesCrossed' =>
       /\ ~invitesCrossed
       /\ kind = "invite" => \A q \in MemberCalls : memberCall[q].kind \notin {"invite", "delete"}
       /\ kind = "delete" => \A q \in MemberCalls : memberCall[q].kind # "invite"

LEMMA RequestBegins ==
  ASSUME MembersTypeOK, CallsAreSound, NEW p \in MemberCalls, NEW kind \in Kinds,
         NEW step \in MemberSteps \ {"insert", "mail"},
         NEW who \in MemberPeople, NEW board, NEW link, NEW to, Request(p, kind, step, who, board, link, to),
         kind = "update" => step = "count" \/ to # "user"
  PROVE  Begins(p, kind)
<1> DEFINE new == [kind |-> kind, step |-> step, who |-> who, board |-> board, link |-> link, to |-> to]
<1>1. memberCall' = [memberCall EXCEPT ![p] = new] /\ memberCall[p].step = "idle"
  BY DEF Request
<1>2. memberCall'[p] = new /\ \A q \in MemberCalls \ {p} : memberCall'[q] = memberCall[q]
  BY <1>1 DEF MembersTypeOK
<1>3. memberCall[p].kind = "none" /\ memberCall'[p].kind = kind /\ memberCall'[p].step \notin {"insert", "mail"}
  <2>1. CallIsSound(memberCall[p])
    BY DEF CallsAreSound
  <2>2. memberCall[p].kind = "none"
    BY <1>1, <2>1 DEF CallIsSound
  <2> QED
    BY <1>2, <2>2
<1>4. ~adminsCrossed' =>
        /\ ~adminsCrossed
        /\ Decided(memberCall'[p]) => ~AnyDecided
  <2>1. Decided(memberCall'[p]) => kind = "delete"
    BY <1>2 DEF Decided
  <2>2. adminsCrossed' = (adminsCrossed \/ (kind = "delete" /\ AnyDecided))
    BY DEF Request
  <2> QED
    BY <2>1, <2>2
<1>5. ~invitesCrossed' =>
        /\ ~invitesCrossed
        /\ kind = "invite" => \A q \in MemberCalls : memberCall[q].kind \notin {"invite", "delete"}
        /\ kind = "delete" => \A q \in MemberCalls : memberCall[q].kind # "invite"
  BY DEF Request
<1> QED
  BY <1>2, <1>3, <1>4, <1>5 DEF Begins

(* What a step does to the requests: it makes one, or answers or moves one on. *)
LEMMA CallsMove ==
  ASSUME MembersTypeOK, CallsAreSound, [MembersNext]_memberVars
  PROVE  \/ \E p \in MemberCalls, kind \in Kinds : Begins(p, kind) /\ NothingWritten
         \/ /\ UNCHANGED invitesCrossed
            /\ \A q \in MemberCalls :
                 \/ memberCall'[q] = memberCall[q]
                 \/ memberCall'[q].kind = "none"
                 \/ /\ LookInvitee(q) \/ DropOldLinks(q) \/ CountAdmins(q) \/ SignsIn(q)
                    /\ memberCall'[q].kind = memberCall[q].kind
                    /\ memberCall'[q].who = memberCall[q].who
                    /\ memberCall'[q].board = memberCall[q].board
                    /\ memberCall'[q].to = memberCall[q].to
<1> DEFINE Beginning == \E p \in MemberCalls, kind \in Kinds : Begins(p, kind) /\ NothingWritten
           Kept(q, p) == memberCall'[q] = memberCall[q]
           Moved(q) == /\ LookInvitee(q) \/ DropOldLinks(q) \/ CountAdmins(q) \/ SignsIn(q)
                       /\ memberCall'[q].kind = memberCall[q].kind
                       /\ memberCall'[q].who = memberCall[q].who
                       /\ memberCall'[q].board = memberCall[q].board
                       /\ memberCall'[q].to = memberCall[q].to
<1>1. ASSUME NEW p \in MemberCalls, NEW b \in MemberBoards, NEW x \in MemberPeople, StartInvite(p, b, x)
      PROVE  Beginning
  BY <1>1, RequestBegins DEF StartInvite, Kinds, MemberSteps, SignInSteps
<1>2. ASSUME NEW p \in MemberCalls, NEW x \in MemberPeople, NEW l \in {0} \union DOMAIN links, SignUp(p, x, l)
      PROVE  Beginning
  BY <1>2, RequestBegins DEF SignUp, Kinds, MemberSteps, SignInSteps
<1>3. ASSUME NEW p \in MemberCalls, NEW a \in MemberPeople, NEW x \in MemberPeople, NEW to \in {"user", "admin"}, CreateUser(p, a, x, to) \/ StartUpdate(p, a, x, to)
      PROVE  Beginning
  <2>1. role[x] \in {"none", "user", "admin"}
    BY DEF MembersTypeOK
  <2> QED
    BY <1>3, <2>1, RequestBegins DEF CreateUser, StartUpdate, HasAccount, Kinds, MemberSteps, SignInSteps
<1>4. ASSUME NEW p \in MemberCalls, NEW a \in MemberPeople, NEW x \in MemberPeople, StartDelete(p, a, x)
      PROVE  Beginning
  BY <1>4, RequestBegins DEF StartDelete, Kinds, MemberSteps, SignInSteps
<1>8. ASSUME NEW p \in MemberCalls, NEW x \in MemberPeople, NEW to \in {"user", "admin"}, SignIn(p, x, to)
      PROVE  Beginning
  BY <1>8, RequestBegins DEF SignIn, Kinds, MemberSteps, SignInSteps
<1>5. ASSUME NEW p \in MemberCalls, LookInvitee(p) \/ DropOldLinks(p) \/ CountAdmins(p) \/ SignsIn(p)
      PROVE  /\ UNCHANGED invitesCrossed
             /\ \A q \in MemberCalls : memberCall'[q] = memberCall[q] \/ memberCall'[q].kind = "none" \/ Moved(q)
  <2>1. Answers(p) \/ \E step \in MemberSteps : Proceeds(p, step)
    <3>1. CASE SignsIn(p)
      BY <3>1, SignInWrites DEF MemberSteps
    <3> QED
      BY <1>5, <3>1 DEF LookInvitee, DropOldLinks, CountAdmins, CountsMoreThan, MemberSteps
  <2>2. ASSUME Answers(p), NEW q \in MemberCalls PROVE memberCall'[q] = memberCall[q] \/ memberCall'[q].kind = "none"
    BY <2>2 DEF Answers, NoMemberCall, MembersTypeOK
  <2>3. ASSUME NEW step \in MemberSteps, Proceeds(p, step)
        PROVE  \A q \in MemberCalls : memberCall'[q] = memberCall[q] \/ Moved(q)
    <3>1. memberCall[p] \in MemberCallState /\ memberCall'[p] = [memberCall[p] EXCEPT !.step = step]
      BY <2>3 DEF Proceeds, MembersTypeOK
    <3>2. Moved(p)
      BY <1>5, <3>1 DEF MemberCallState
    <3> QED
      BY <2>3, <3>2 DEF Proceeds, MembersTypeOK
  <2>4. UNCHANGED invitesCrossed
    BY <1>5, SignInWrites DEF LookInvitee, DropOldLinks, CountAdmins, CountsMoreThan, FlagsStay
  <2> QED
    BY <2>1, <2>2, <2>3, <2>4
<1>6. ASSUME NEW p \in MemberCalls, InsertInvitation(p) \/ MailLink(p) \/ CommitAccount(p) \/ WriteRole(p) \/ CommitDelete(p)
      PROVE  /\ UNCHANGED invitesCrossed
             /\ \A q \in MemberCalls : memberCall'[q] = memberCall[q] \/ memberCall'[q].kind = "none"
  <2>1. Answers(p) /\ FlagsStay
    BY <1>6 DEF InsertInvitation, MailLink, CommitAccount, WriteRole, CommitDelete
  <2>2. ASSUME NEW q \in MemberCalls PROVE memberCall'[q] = memberCall[q] \/ memberCall'[q].kind = "none"
    BY <2>1 DEF Answers, NoMemberCall, MembersTypeOK
  <2> QED
    BY <2>1, <2>2 DEF FlagsStay
<1>7. ASSUME \/ \E l \in DOMAIN links : LinkExpires(l)
             \/ \E b \in MemberBoards, x \in MemberPeople : RemoveBoardMember(b, x)
             \/ UNCHANGED memberVars
      PROVE  UNCHANGED <<invitesCrossed, memberCall>>
  BY <1>7 DEF LinkExpires, RemoveBoardMember, FlagsStay, memberVars
<1> QED
  BY <1>1, <1>2, <1>3, <1>4, <1>5, <1>6, <1>7, <1>8 DEF MembersNext, SignsIn

(* Who is past the check was so before, or is the first of them.              *)
LEMMA DecidedOnes ==
  ASSUME MembersTypeOK, CallsAreSound, [MembersNext]_memberVars, ~adminsCrossed'
  PROVE  /\ ~adminsCrossed
         /\ \/ \A q \in MemberCalls : Decided(memberCall'[q]) => memberCall'[q] = memberCall[q]
            \/ ~AnyDecided /\ \E p \in MemberCalls : \A q \in MemberCalls \ {p} : memberCall'[q] = memberCall[q]
<1> DEFINE Goal == /\ ~adminsCrossed
                   /\ \/ \A q \in MemberCalls : Decided(memberCall'[q]) => memberCall'[q] = memberCall[q]
                      \/ /\ ~AnyDecided
                         /\ \E p \in MemberCalls : \A q \in MemberCalls \ {p} : memberCall'[q] = memberCall[q]
<1>1. ASSUME NEW p \in MemberCalls, NEW kind \in Kinds, Begins(p, kind) PROVE Goal
  BY <1>1 DEF Begins
<1>2. ASSUME NEW p \in MemberCalls, Answers(p)
      PROVE  \A q \in MemberCalls : Decided(memberCall'[q]) => memberCall'[q] = memberCall[q]
  BY <1>2 DEF Answers, NoMemberCall, Decided, MembersTypeOK
<1>3. ASSUME NEW p \in MemberCalls, NEW step \in MemberSteps, Proceeds(p, step)
      PROVE  /\ memberCall'[p].kind = memberCall[p].kind
             /\ \A q \in MemberCalls \ {p} : memberCall'[q] = memberCall[q]
  BY <1>3 DEF Proceeds, MembersTypeOK, MemberCallState
<1>4. ASSUME NEW p \in MemberCalls, CountAdmins(p) PROVE Goal
  BY <1>2, <1>3, <1>4 DEF CountAdmins, CountsMoreThan, MemberSteps
<1>5. ASSUME NEW p \in MemberCalls, LookInvitee(p) \/ DropOldLinks(p) \/ SignsIn(p) PROVE Goal
  <2>1. memberCall[p].kind \in {"invite", "sign in"} /\ ~adminsCrossed
    BY <1>5, SignInWrites DEF LookInvitee, DropOldLinks, Stage, FlagsStay, GivesRole
  <2>2. Answers(p) \/ \E step \in MemberSteps : Proceeds(p, step)
    <3>1. CASE SignsIn(p)
      BY <3>1, SignInWrites DEF MemberSteps
    <3> QED
      BY <1>5, <3>1 DEF LookInvitee, DropOldLinks, MemberSteps
  <2>3. ASSUME NEW step \in MemberSteps, Proceeds(p, step) PROVE Goal
    BY <1>3, <2>1, <2>3 DEF Decided
  <2> QED
    BY <1>2, <2>1, <2>2, <2>3
<1>6. ASSUME NEW p \in MemberCalls, InsertInvitation(p) \/ MailLink(p) \/ CommitAccount(p) \/ WriteRole(p) \/ CommitDelete(p)
      PROVE  Goal
  BY <1>2, <1>6 DEF InsertInvitation, MailLink, CommitAccount, WriteRole, CommitDelete, FlagsStay
<1>7. ASSUME \/ \E l \in DOMAIN links : LinkExpires(l)
             \/ \E b \in MemberBoards, x \in MemberPeople : RemoveBoardMember(b, x)
             \/ UNCHANGED memberVars
      PROVE  Goal
  BY <1>7 DEF LinkExpires, RemoveBoardMember, FlagsStay, memberVars
<1>8. ASSUME NEW p \in MemberCalls, NEW kind \in {"invite", "join", "delete", "sign in"}, NEW step \in {"look", "commit"},
             NEW who \in MemberPeople, NEW board, NEW link, NEW to, Request(p, kind, step, who, board, link, to)
      PROVE  Goal
  <2>1. Begins(p, kind)
    BY <1>8, RequestBegins DEF Kinds, MemberSteps, SignInSteps
  <2> QED
    BY <1>1, <2>1 DEF Kinds
<1>9. ASSUME NEW p \in MemberCalls, NEW a \in MemberPeople, NEW x \in MemberPeople, NEW to \in {"user", "admin"}, StartUpdate(p, a, x, to)
      PROVE  Goal
  <2>1. role[x] \in {"none", "user", "admin"}
    BY DEF MembersTypeOK
  <2>2. Begins(p, "update")
    BY <1>9, <2>1, RequestBegins DEF StartUpdate, HasAccount, Kinds, MemberSteps
  <2> QED
    BY <1>1, <2>2 DEF Kinds
<1> HIDE DEF Goal
<1>10. Goal
  BY <1>4, <1>5, <1>6, <1>7, <1>8, <1>9 DEF MembersNext, SignsIn, StartInvite, SignUp, CreateUser, StartDelete, SignIn
<1> QED
  BY <1>10 DEF Goal

(* Demoting and deleting.                                                     *)
LEMMA TakesStep == MembersInv /\ [MembersNext]_memberVars => TakesAlone'
  BY DecidedOnes DEF MembersInv, TakesAlone, AnyDecided

(* Inviting.                                                                  *)
LEMMA InvitesStep == MembersInv /\ [MembersNext]_memberVars => InvitesAlone'
  BY CallsMove DEF MembersInv, InvitesAlone, Begins

(* What signing up and deleting write, if anything.                           *)
LEMMA CommitWrites ==
  ASSUME MembersTypeOK, CallsAreSound, NEW p \in MemberCalls, CommitAccount(p), ~NothingWritten
  PROVE  /\ ~HasAccount(memberCall[p].who) /\ role' = [role EXCEPT ![memberCall[p].who] = memberCall[p].to]
         /\ memberCall[p].who \in MemberPeople /\ memberCall[p].to \in {"user", "admin"}
         /\ \/ UNCHANGED <<links, onBoard, madeBy>>
            \/ \E l \in DOMAIN links :
                 /\ links[l] \in LinkRow /\ links[l].state \in {"open", "expired"} /\ links[l].to = memberCall[p].who
                 /\ links' = [links EXCEPT ![l] = [links[l] EXCEPT !.state = "used"]]
                 /\ onBoard' = [onBoard EXCEPT ![links[l].board][memberCall[p].who] = @ + 1]
                 /\ madeBy' = [madeBy EXCEPT ![l] = @ + 1]
<1> DEFINE l == memberCall[p].link
<1>1. /\ ~HasAccount(memberCall[p].who) /\ Spendable(l)
      /\ role' = [role EXCEPT ![memberCall[p].who] = memberCall[p].to]
  BY DEF CommitAccount
<1>2. /\ memberCall[p].who \in MemberPeople /\ memberCall[p].to \in {"user", "admin"} /\ l \in 0..Len(links)
      /\ l > 0 => links[l].to = memberCall[p].who
  BY DEF CommitAccount, Stage, CallsAreSound, CallIsSound, MembersTypeOK, MemberCallState
<1>3. CASE l = 0
  BY <1>1, <1>2, <1>3 DEF CommitAccount
<1>4. CASE l # 0
  <2>1. l \in DOMAIN links /\ links[l].to = memberCall[p].who
    BY <1>2, <1>4, LenProperties DEF MembersTypeOK
  <2>2. links[l] \in LinkRow
    BY <2>1, LinkInState DEF LinkStates
  <2>3. links[l].state \in {"open", "expired"}
    BY <1>1, <1>4 DEF Spendable
  <2>4. /\ links' = [links EXCEPT ![l] = [links[l] EXCEPT !.state = "used"]]
        /\ onBoard' = [onBoard EXCEPT ![links[l].board][memberCall[p].who] = @ + 1]
        /\ madeBy' = [madeBy EXCEPT ![l] = @ + 1]
    BY <1>1, <1>4 DEF CommitAccount
  <2> HIDE DEF l
  <2> QED
    BY <1>1, <1>2, <2>1, <2>2, <2>3, <2>4
<1> QED
  BY <1>3, <1>4

(* Who writes the column `role`.                                              *)
LEMMA RoleWriters ==
  ASSUME MembersTypeOK, CallsAreSound, [MembersNext]_memberVars
  PROVE  \/ UNCHANGED role
         \/ \E p \in MemberCalls :
              /\ WriteRole(p) \/ CommitDelete(p) \/ SignsIn(p) \/ CommitAccount(p)
              /\ \E to \in {"none", "user", "admin"} :
                   /\ role' = [role EXCEPT ![memberCall[p].who] = to]
                   /\ (role[memberCall[p].who] = "admin" /\ to # "admin") =>
                        (Decided(memberCall[p]) /\ Answers(p)) \/ (SignsIn(p) /\ GivesRole(p, to))
<1> DEFINE Writes(p, to) ==
      /\ role' = [role EXCEPT ![memberCall[p].who] = to]
      /\ (role[memberCall[p].who] = "admin" /\ to # "admin") =>
           (Decided(memberCall[p]) /\ Answers(p)) \/ (SignsIn(p) /\ GivesRole(p, to))
<1>1. ASSUME NEW p \in MemberCalls, WriteRole(p), ~UNCHANGED role
      PROVE  \E to \in {"none", "user", "admin"} : Writes(p, to)
  <2>1. memberCall[p].kind = "update" /\ memberCall[p].step = "write" /\ memberCall[p].to \in {"user", "admin"}
    BY <1>1 DEF WriteRole, Stage, CallsAreSound, CallIsSound
  <2>2. role' = [role EXCEPT ![memberCall[p].who] = memberCall[p].to] /\ Answers(p)
    BY <1>1 DEF WriteRole
  <2>3. memberCall[p].to # "admin" => Decided(memberCall[p])
    BY <2>1 DEF Decided
  <2>4. PICK to \in {"user", "admin"} : to = memberCall[p].to
    BY <2>1
  <2>5. Writes(p, to)
    BY <2>2, <2>3, <2>4
  <2> QED
    BY <2>5
<1>2. ASSUME NEW p \in MemberCalls, CommitDelete(p), ~UNCHANGED role
      PROVE  \E to \in {"none", "user", "admin"} : Writes(p, to)
  <2>1. role' = [role EXCEPT ![memberCall[p].who] = "none"] /\ Decided(memberCall[p]) /\ Answers(p)
    BY <1>2 DEF CommitDelete, NothingWritten, Stage, Decided
  <2>2. Writes(p, "none")
    BY <2>1
  <2> QED
    BY <2>2
<1>3. ASSUME NEW p \in MemberCalls, CommitAccount(p), ~UNCHANGED role
      PROVE  \E to \in {"none", "user", "admin"} : Writes(p, to)
  <2>1. ~NothingWritten
    BY <1>3 DEF NothingWritten
  <2>2. /\ role' = [role EXCEPT ![memberCall[p].who] = memberCall[p].to]
        /\ memberCall[p].to \in {"user", "admin"} /\ role[memberCall[p].who] = "none"
    BY <1>3, <2>1, CommitWrites DEF HasAccount
  <2> QED
    BY <2>2
<1>4. ASSUME NEW p \in MemberCalls, SignsIn(p), ~UNCHANGED role
      PROVE  \E to \in {"none", "user", "admin"} : Writes(p, to)
  <2>1. PICK to \in {"user", "admin"} : GivesRole(p, to)
    BY <1>4, SignInWrites
  <2>2. role' = [role EXCEPT ![memberCall[p].who] = to]
    BY <2>1 DEF GivesRole
  <2> QED
    BY <1>4, <2>1, <2>2
<1> HIDE DEF Writes
<1>5. \/ UNCHANGED role
      \/ \E p \in MemberCalls : WriteRole(p) \/ CommitDelete(p) \/ SignsIn(p) \/ CommitAccount(p)
  BY DEF MembersNext, memberVars, SignsIn, NothingWritten, StartInvite, LookInvitee, InsertInvitation, DropOldLinks,
         MailLink, LinkExpires, SignUp, CreateUser, StartUpdate, StartDelete, CountAdmins, CountsMoreThan, SignIn,
         RemoveBoardMember
<1>6. \/ UNCHANGED role
      \/ \E p \in MemberCalls : /\ WriteRole(p) \/ CommitDelete(p) \/ SignsIn(p) \/ CommitAccount(p)
                              /\ \E to \in {"none", "user", "admin"} : Writes(p, to)
  BY <1>1, <1>2, <1>3, <1>4, <1>5
<1> QED
  BY <1>6 DEF Writes

(* Nobody takes the other admin's role away meanwhile.                        *)
LEMMA AnotherStep == MembersInv /\ [MembersNext]_memberVars => AnotherIsAdmin'
<1> SUFFICES ASSUME MembersInv, [MembersNext]_memberVars, ~adminsCrossed',
                    NEW p \in MemberCalls, Decided(memberCall'[p])
             PROVE  \E a \in Admins' : a # memberCall'[p].who
  BY DEF AnotherIsAdmin, Decided
<1>0. /\ MembersTypeOK /\ CallsAreSound /\ TakesAlone /\ AnotherIsAdmin /\ ~adminsCrossed
      /\ memberCall \in [MemberCalls -> MemberCallState] /\ role \in [MemberPeople -> {"none", "user", "admin"}]
  BY DecidedOnes DEF MembersInv, MembersTypeOK
<1>1. CASE memberCall'[p] = memberCall[p]
  <2>1. PICK a \in Admins : a # memberCall[p].who
    BY <1>0, <1>1 DEF AnotherIsAdmin
  <2>2. a \in MemberPeople /\ role[a] = "admin"
    BY <2>1 DEF Admins
  <2>3. role'[a] = "admin"
    <3>1. CASE UNCHANGED role
      BY <2>2, <3>1
    <3>2. ASSUME NEW q \in MemberCalls, NEW to, role' = [role EXCEPT ![memberCall[q].who] = to],
                 Decided(memberCall[q]) /\ Answers(q)
          PROVE  role'[a] = "admin"
      <4>1. q = p
        BY <1>0, <1>1, <3>2 DEF TakesAlone
      <4>2. memberCall'[p] = NoMemberCall
        BY <1>0, <3>2, <4>1 DEF Answers
      <4> QED
        BY <4>2 DEF Decided, NoMemberCall
    <3>3. ASSUME NEW q \in MemberCalls, NEW to, GivesRole(q, to), role[memberCall[q].who] = "admin", to = "user"
          PROVE  FALSE
      BY <1>1, <3>3 DEF GivesRole, AnyDecided
    <3>4. ASSUME NEW q \in MemberCalls, NEW to \in {"none", "user", "admin"}, SignsIn(q), GivesRole(q, to),
                 role[memberCall[q].who] = "admin", to # "admin"
          PROVE  to = "user"
      <4>1. PICK other \in {"user", "admin"} : UNCHANGED role \/ role' = [role EXCEPT ![memberCall[q].who] = other]
        BY <1>0, <3>4, SignInWrites DEF GivesRole
      <4>2. memberCall[q].who \in MemberPeople /\ role' = [role EXCEPT ![memberCall[q].who] = to]
        BY <1>0, <3>4 DEF GivesRole, MemberCallState
      <4> QED
        BY <1>0, <3>4, <4>1, <4>2
    <3>5. ASSUME NEW q \in MemberCalls, NEW to \in {"none", "user", "admin"},
                 role' = [role EXCEPT ![memberCall[q].who] = to],
                 ~(role[memberCall[q].who] = "admin" /\ to # "admin")
          PROVE  role'[a] = "admin"
      BY <1>0, <2>2, <3>5
    <3> QED
      BY <1>0, <3>1, <3>2, <3>3, <3>4, <3>5, RoleWriters
  <2> QED
    BY <1>1, <2>1, <2>2, <2>3 DEF Admins
<1>2. CASE memberCall'[p] # memberCall[p]
  <2>1. ~AnyDecided
    BY <1>0, <1>2, DecidedOnes
  <2>2. CASE \E q \in MemberCalls : CountAdmins(q)
    <3>1. PICK q \in MemberCalls : CountAdmins(q)
      BY <2>2
    <3>2. q = p /\ ~Answers(p) /\ UNCHANGED role
      BY <1>0, <1>2, <3>1 DEF CountAdmins, CountsMoreThan, Answers, Proceeds, NothingWritten, Decided, NoMemberCall
    <3>3. ~(Cardinality(Admins) <= 1) /\ Proceeds(p, "write")
      BY <3>1, <3>2 DEF CountAdmins, CountsMoreThan
    <3>4. memberCall'[p].who = memberCall[p].who
      BY <1>0, <3>3 DEF Proceeds, MemberCallState
    <3>5. Admins' = Admins
      BY <3>2 DEF Admins
    <3> QED
      BY <3>3, <3>4, <3>5, AnotherBesides
  <2>3. CASE \E q \in MemberCalls, a, x \in MemberPeople : StartDelete(q, a, x)
    <3>1. PICK q \in MemberCalls, a \in MemberPeople, x \in MemberPeople : StartDelete(q, a, x)
      BY <2>3
    <3>2. q = p /\ memberCall'[p].who = x /\ UNCHANGED role /\ a # x /\ role[a] = "admin"
      BY <1>0, <1>2, <3>1 DEF StartDelete, Request, NothingWritten
    <3> QED
      BY <3>2 DEF Admins
  <2>4. \/ \E q \in MemberCalls : CountAdmins(q) \/ \E a, x \in MemberPeople : StartDelete(q, a, x)
        \/ memberCall'[p] = memberCall[p]
    <3>1. ASSUME NEW q \in MemberCalls, Answers(q) PROVE memberCall'[p] = memberCall[p]
      BY <1>0, <3>1 DEF Answers, NoMemberCall, Decided
    <3>2. ASSUME NEW q \in MemberCalls, NEW step, Proceeds(q, step), memberCall[q].kind \in {"invite", "sign in"}
          PROVE  memberCall'[p] = memberCall[p]
      BY <1>0, <3>2 DEF Proceeds, Decided, MemberCallState
    <3>3. ASSUME NEW q \in MemberCalls, NEW kind \in {"invite", "join", "sign in"}, NEW step, NEW who, NEW board, NEW link, NEW to,
                 Request(q, kind, step, who, board, link, to)
          PROVE  memberCall'[p] = memberCall[p]
      BY <1>0, <3>3 DEF Request, Decided
    <3>4. ASSUME NEW q \in MemberCalls, NEW a \in MemberPeople, NEW x \in MemberPeople, NEW to \in {"user", "admin"}, StartUpdate(q, a, x, to)
          PROVE  memberCall'[p] = memberCall[p]
      <4>1. role[x] \in {"user", "admin"} /\ role[x] # to
        BY <1>0, <3>4 DEF StartUpdate, HasAccount
      <4> QED
        BY <1>0, <3>4, <4>1 DEF StartUpdate, Request, Decided
    <3>5. ASSUME NEW q \in MemberCalls, LookInvitee(q) \/ DropOldLinks(q) PROVE memberCall'[p] = memberCall[p]
      BY <3>1, <3>2, <3>5 DEF LookInvitee, DropOldLinks, Stage
    <3>6. ASSUME NEW q \in MemberCalls, SignsIn(q) PROVE memberCall'[p] = memberCall[p]
      BY <1>0, <3>1, <3>2, <3>6, SignInWrites
    <3>7. CASE \/ \E l \in DOMAIN links : LinkExpires(l)
               \/ \E b \in MemberBoards, x \in MemberPeople : RemoveBoardMember(b, x)
               \/ UNCHANGED memberVars
      BY <3>7 DEF LinkExpires, RemoveBoardMember, memberVars
    <3> QED
      BY <3>1, <3>3, <3>4, <3>5, <3>6, <3>7
         DEF MembersNext, SignsIn, StartInvite, SignUp, CreateUser, SignIn, InsertInvitation, MailLink, CommitAccount,
             WriteRole, CommitDelete
  <2> QED
    BY <1>2, <2>2, <2>3, <2>4
<1> QED
  BY <1>1, <1>2

(* Some admin is left.                                                        *)
LEMMA AdminStep == MembersInv /\ [MembersNext]_memberVars => AlwaysAnAdmin'
<1> SUFFICES ASSUME MembersInv, [MembersNext]_memberVars, ~adminsCrossed' PROVE Admins' # {}
  BY DEF AlwaysAnAdmin
<1>0. /\ MembersTypeOK /\ CallsAreSound /\ AnotherIsAdmin /\ ~adminsCrossed /\ Admins # {}
      /\ role \in [MemberPeople -> {"none", "user", "admin"}]
  BY DecidedOnes DEF MembersInv, MembersTypeOK, AlwaysAnAdmin
<1>1. CASE UNCHANGED role
  BY <1>0, <1>1 DEF Admins
<1>2. ASSUME NEW p \in MemberCalls, NEW to, role' = [role EXCEPT ![memberCall[p].who] = to],
             \E a \in Admins : a # memberCall[p].who
      PROVE  Admins' # {}
  BY <1>0, <1>2 DEF Admins
<1>3. ASSUME NEW p \in MemberCalls, NEW to \in {"none", "user", "admin"}, role' = [role EXCEPT ![memberCall[p].who] = to],
             ~(role[memberCall[p].who] = "admin" /\ to # "admin")
      PROVE  Admins' # {}
  BY <1>0, <1>3 DEF Admins
<1>4. ASSUME NEW p \in MemberCalls, NEW to \in {"none", "user", "admin"}, SignsIn(p), GivesRole(p, to),
             role[memberCall[p].who] = "admin", to # "admin"
      PROVE  \E a \in Admins : a # memberCall[p].who
  <2>1. to = "user"
    <3>1. PICK other \in {"user", "admin"} : UNCHANGED role \/ role' = [role EXCEPT ![memberCall[p].who] = other]
      BY <1>0, <1>4, SignInWrites DEF GivesRole
    <3>2. memberCall[p].who \in MemberPeople /\ role' = [role EXCEPT ![memberCall[p].who] = to]
      BY <1>0, <1>4 DEF GivesRole, MembersTypeOK, MemberCallState
    <3> QED
      BY <1>0, <1>4, <3>1, <3>2
  <2>2. Admins # {memberCall[p].who} /\ memberCall[p].who \in Admins
    BY <1>0, <1>4, <2>1 DEF GivesRole, MembersTypeOK, MemberCallState, Admins
  <2> QED
    BY <2>2
<1>5. ASSUME NEW p \in MemberCalls, Decided(memberCall[p]) PROVE \E a \in Admins : a # memberCall[p].who
  BY <1>0, <1>5 DEF AnotherIsAdmin
<1> QED
  BY <1>0, <1>1, <1>2, <1>3, <1>4, <1>5, RoleWriters DEF GivesRole

(* What an invitation saw of the account and the board stays so.              *)
LEMMA InsertsStep == MembersInv /\ [MembersNext]_memberVars => InsertsNew'
<1> SUFFICES ASSUME MembersInv, [MembersNext]_memberVars, ~invitesCrossed', NEW p \in MemberCalls, memberCall'[p].kind = "invite", memberCall'[p].step = "insert"
             PROVE  HasAccount(memberCall[p].who)' /\ (onBoard[memberCall[p].board][memberCall[p].who] = 0)'
  BY DEF InsertsNew
<1>0. MembersTypeOK /\ CallsAreSound /\ InvitesAlone /\ InsertsNew /\ MembersAreReal /\ InvitesAlone'
  BY InvitesStep DEF MembersInv, InvitedAreReal
<1>1. ~invitesCrossed
  BY <1>0, CallsMove DEF Begins
<1>2. CASE LookInvitee(p)
  <2>1. ~Answers(p) /\ ~Proceeds(p, "dropLinks")
    BY <1>0 DEF MembersTypeOK, MemberCallState, Answers, Proceeds, NoMemberCall
  <2>2. HasAccount(memberCall[p].who) /\ ~(onBoard[memberCall[p].board][memberCall[p].who] > 0)
    BY <1>2, <2>1 DEF LookInvitee
  <2>3. memberCall[p].kind = "invite" /\ memberCall'[p].who = memberCall[p].who /\ memberCall'[p].board = memberCall[p].board
    BY <1>0, <1>2, CallsMove DEF LookInvitee, Stage, Begins
  <2>4. memberCall[p].board \in MemberBoards /\ memberCall[p].who \in MemberPeople
    BY <1>0, <2>3 DEF CallsAreSound, CallIsSound, MembersTypeOK, MemberCallState
  <2>5. onBoard[memberCall[p].board][memberCall[p].who] = 0
    BY <1>0, <2>2, <2>4 DEF MembersTypeOK
  <2>6. role' = role /\ onBoard' = onBoard
    BY <1>2 DEF LookInvitee, NothingWritten
  <2> QED
    BY <2>2, <2>3, <2>5, <2>6 DEF HasAccount
<1>3. CASE memberCall'[p] = memberCall[p]
  <2>1. PICK x \in MemberPeople, b \in MemberBoards :
          /\ x = memberCall[p].who /\ b = memberCall[p].board /\ memberCall[p].kind = "invite"
          /\ HasAccount(x) /\ onBoard[b][x] = 0
    <3>1. memberCall[p].kind = "invite" /\ memberCall[p].step = "insert"
      BY <1>3
    <3>2. memberCall[p].who \in MemberPeople /\ memberCall[p].board \in MemberBoards
      BY <1>0, <3>1 DEF CallsAreSound, CallIsSound, MembersTypeOK, MemberCallState
    <3> QED
      BY <1>0, <1>1, <3>1, <3>2 DEF InsertsNew
  <2>2. \A q \in MemberCalls : memberCall[q].kind \in {"invite", "delete"} => q = p
    BY <1>0, <1>1, <2>1 DEF InvitesAlone
  <2>4. \/ NothingWritten
        \/ \E q \in MemberCalls : \/ CommitDelete(q) \/ DropOldLinks(q) \/ MailLink(q) \/ InsertInvitation(q)
                                  \/ WriteRole(q) \/ CommitAccount(q) \/ SignsIn(q)
        \/ \E l \in DOMAIN links : LinkExpires(l)
        \/ \E k \in MemberBoards, y \in MemberPeople : RemoveBoardMember(k, y)
    <3>1. CASE UNCHANGED memberVars
      BY <3>1 DEF memberVars, NothingWritten
    <3>2. CASE MembersNext
      BY <3>2 DEF MembersNext, StartInvite, LookInvitee, SignUp, CreateUser, StartUpdate, StartDelete, CountAdmins,
                  CountsMoreThan, SignIn, SignsIn
    <3> QED
      BY <3>1, <3>2
  <2>3. HasAccount(x)' /\ onBoard'[b][x] = 0
    <3> USE <1>0, <2>1, <2>2 DEF HasAccount, Stage, NothingWritten, MembersTypeOK
    <3>1. CASE NothingWritten
      BY <3>1
    <3>2. ASSUME NEW q \in MemberCalls, CommitDelete(q) \/ DropOldLinks(q) \/ MailLink(q) \/ InsertInvitation(q) \/ LookInvitee(q)
          PROVE  q = p
      BY <3>2 DEF CommitDelete, DropOldLinks, MailLink, InsertInvitation, LookInvitee
    <3>3. ASSUME NEW q \in MemberCalls, WriteRole(q) PROVE HasAccount(x)' /\ onBoard'[b][x] = 0
      <4>1. memberCall[q].to \in {"user", "admin"}
        BY <3>3 DEF WriteRole, CallsAreSound, CallIsSound
      <4> QED
        BY <3>3, <4>1 DEF WriteRole
    <3>4. ASSUME NEW q \in MemberCalls, CommitAccount(q) PROVE HasAccount(x)' /\ onBoard'[b][x] = 0
      <4>1. CASE HasAccount(memberCall[q].who)
        BY <3>4, <4>1 DEF CommitAccount
      <4>2. CASE ~HasAccount(memberCall[q].who)
        <5>1. memberCall[q].who # x
          BY <4>2
        <5>2. UNCHANGED onBoard \/ \E k : onBoard' = [onBoard EXCEPT ![k][memberCall[q].who] = @ + 1]
          BY <3>4 DEF CommitAccount
        <5>3. UNCHANGED role \/ role' = [role EXCEPT ![memberCall[q].who] = memberCall[q].to]
          BY <3>4 DEF CommitAccount
        <5>4. role'[x] = role[x]
          BY <5>1, <5>3
        <5>5. ASSUME NEW k, NEW w, w # x, onBoard' = [onBoard EXCEPT ![k][w] = @ + 1]
              PROVE  onBoard'[b][x] = onBoard[b][x]
          <6>1. onBoard[b] \in [MemberPeople -> Nat]
            OBVIOUS
          <6>2. CASE k = b
            BY <5>5, <6>1, <6>2
          <6>3. CASE k # b
            BY <5>5, <6>1, <6>3
          <6> QED
            BY <6>2, <6>3
        <5>6. onBoard'[b][x] = onBoard[b][x]
          <6>1. CASE UNCHANGED onBoard
            BY <6>1
          <6>2. CASE ~UNCHANGED onBoard
            <7>1. PICK k : onBoard' = [onBoard EXCEPT ![k][memberCall[q].who] = @ + 1]
              BY <5>2, <6>2
            <7> QED
              BY <5>1, <5>5, <7>1
          <6> QED
            BY <6>1, <6>2
        <5> QED
          BY <5>4, <5>6
      <4> QED
        BY <4>1, <4>2
    <3>5. ASSUME NEW k \in MemberBoards, NEW y \in MemberPeople, RemoveBoardMember(k, y)
          PROVE  HasAccount(x)' /\ onBoard'[b][x] = 0
      BY <3>5 DEF RemoveBoardMember
    <3>10. ASSUME NEW q \in MemberCalls, SignsIn(q) PROVE HasAccount(x)' /\ onBoard'[b][x] = 0
      <4>1. UNCHANGED role \/ \E to \in {"user", "admin"} : role' = [role EXCEPT ![memberCall[q].who] = to]
        BY <3>10, SignInWrites DEF GivesRole
      <4> QED
        BY <3>10, <4>1, SignInWrites
    <3>7. CASE \E l \in DOMAIN links : LinkExpires(l)
      BY <3>7 DEF LinkExpires
    <3>8. \A q \in MemberCalls : ~CommitDelete(q) /\ (DropOldLinks(q) \/ MailLink(q) \/ InsertInvitation(q) => q = p)
      BY <3>2, <2>1 DEF CommitDelete
    <3>9. ~DropOldLinks(p) /\ ~MailLink(p) /\ ~InsertInvitation(p)
      <4>1. memberCall[p].step = "insert" /\ memberCall'[p].step = "insert"
        BY <1>3
      <4> QED
        BY <4>1 DEF DropOldLinks, MailLink, InsertInvitation, Answers, NoMemberCall
    <3> QED
      BY <2>4, <3>1, <3>3, <3>4, <3>5, <3>7, <3>8, <3>9, <3>10
  <2> QED
    BY <1>3, <2>1, <2>3 DEF HasAccount
<1>5. SignsIn(p) => memberCall[p].kind = "sign in"
  BY <1>0, SignInWrites
<1>4. ~(DropOldLinks(p) /\ Proceeds(p, "mail")) /\ ~CountAdmins(p)
  BY <1>0 DEF DropOldLinks, CountAdmins, CountsMoreThan, Proceeds, Answers, Stage, NoMemberCall, MembersTypeOK, MemberCallState
<1> QED
  BY <1>0, <1>2, <1>3, <1>4, <1>5, CallsMove DEF Begins, DropOldLinks

(* A link that does not work any more never will again.                       *)
LEMMA LinksClose ==
  ASSUME MembersTypeOK, CallsAreSound, [MembersNext]_memberVars, NEW l \in DOMAIN links, links[l].state # "open"
  PROVE  links'[l].state # "open"
<1>1. DOMAIN links = 1..Len(links) /\ Len(links) \in Nat /\ links[l] \in LinkRow
  BY LenProperties, ElementOfSeq DEF MembersTypeOK
<1>2. CASE UNCHANGED links
  BY <1>2
<1>3. ASSUME NEW p \in MemberCalls, DropOldLinks(p) \/ CommitDelete(p)
      PROVE  links'[l].state # "open"
  BY <1>1, <1>3 DEF DropOldLinks, CommitDelete, NothingWritten, LinkRow
<1>4. ASSUME NEW p \in MemberCalls, MailLink(p)
      PROVE  links'[l].state # "open"
  <2> DEFINE new == [board |-> memberCall[p].board, to |-> memberCall[p].who, state |-> "open"]
  <2>1. new \in LinkRow
    BY <1>4 DEF MailLink, Stage, CallsAreSound, CallIsSound, MembersTypeOK, MemberCallState, LinkRow, LinkStates
  <2>2. links' = Append(links, new)
    BY <1>4 DEF MailLink
  <2> HIDE DEF new
  <2>3. links'[l] = links[l]
    BY <1>1, <2>1, <2>2, AppendProperties DEF MembersTypeOK
  <2> QED
    BY <2>3
<1>5. ASSUME NEW p \in MemberCalls, CommitAccount(p)
      PROVE  links'[l].state # "open"
  <2>1. links' = links \/ links' = [links EXCEPT ![memberCall[p].link].state = "used"]
    BY <1>5 DEF CommitAccount, NothingWritten
  <2> QED
    BY <1>1, <2>1, LinkInState DEF LinkRow
<1>6. ASSUME NEW k \in DOMAIN links, LinkExpires(k)
      PROVE  links'[l].state # "open"
  BY <1>1, <1>6 DEF LinkExpires, LinkRow
<1>7. (\E p \in MemberCalls : DropOldLinks(p) \/ CommitDelete(p) \/ MailLink(p) \/ CommitAccount(p))
      \/ (\E k \in DOMAIN links : LinkExpires(k)) \/ UNCHANGED links
  <2>1. (\E p \in MemberCalls : SignsIn(p)) => UNCHANGED <<links, madeBy>>
    BY SignInWrites
  <2> QED
    BY <2>1 DEF MembersNext, memberVars, StartInvite, LookInvitee, InsertInvitation, SignUp, CreateUser,
                StartUpdate, StartDelete, CountAdmins, CountsMoreThan, WriteRole, SignIn, SignsIn,
                RemoveBoardMember, NothingWritten
<1> QED
  BY <1>2, <1>3, <1>4, <1>5, <1>6, <1>7

(* Links are added by mailing only.                                           *)
LEMMA LinksAdded ==
  ASSUME MembersTypeOK, MembersTypeOK', CallsAreSound, [MembersNext]_memberVars
  PROVE  \/ DOMAIN links' = DOMAIN links
         \/ \E p \in MemberCalls :
              /\ MailLink(p)
              /\ Len(links) \in Nat /\ DOMAIN links' = DOMAIN links \union {Len(links) + 1}
              /\ links' = Append(links, [board |-> memberCall[p].board, to |-> memberCall[p].who, state |-> "open"])
              /\ links'[Len(links) + 1] = [board |-> memberCall[p].board, to |-> memberCall[p].who, state |-> "open"]
              /\ \A l \in DOMAIN links : links'[l] = links[l]
<1>1. DOMAIN links = 1..Len(links) /\ DOMAIN links' = 1..Len(links') /\ Len(links) \in Nat
  BY LenProperties DEF MembersTypeOK
<1>2. ASSUME NEW p \in MemberCalls, DropOldLinks(p) \/ CommitDelete(p) PROVE DOMAIN links' = DOMAIN links
  BY <1>2 DEF DropOldLinks, CommitDelete, NothingWritten
<1>3. ASSUME NEW p \in MemberCalls, CommitAccount(p) PROVE DOMAIN links' = DOMAIN links
  BY <1>3 DEF CommitAccount, NothingWritten
<1>4. ASSUME NEW k \in DOMAIN links, LinkExpires(k) PROVE DOMAIN links' = DOMAIN links
  BY <1>4 DEF LinkExpires
<1>5. ASSUME NEW p \in MemberCalls, MailLink(p)
      PROVE  /\ DOMAIN links' = DOMAIN links \union {Len(links) + 1}
             /\ links' = Append(links, [board |-> memberCall[p].board, to |-> memberCall[p].who, state |-> "open"])
             /\ links'[Len(links) + 1] = [board |-> memberCall[p].board, to |-> memberCall[p].who, state |-> "open"]
             /\ \A l \in DOMAIN links : links'[l] = links[l]
  <2> DEFINE new == [board |-> memberCall[p].board, to |-> memberCall[p].who, state |-> "open"]
  <2>1. new \in LinkRow
    BY <1>5 DEF MailLink, Stage, CallsAreSound, CallIsSound, MembersTypeOK, MemberCallState, LinkRow, LinkStates
  <2>2. links' = Append(links, new)
    BY <1>5 DEF MailLink
  <2> HIDE DEF new
  <2>3. Len(links') = Len(links) + 1 /\ links'[Len(links) + 1] = new /\ \A l \in 1..Len(links) : links'[l] = links[l]
    BY <2>1, <2>2, AppendProperties DEF MembersTypeOK
  <2> QED
    BY <1>1, <2>2, <2>3 DEF new
<1>6. (\E p \in MemberCalls : DropOldLinks(p) \/ CommitDelete(p) \/ MailLink(p) \/ CommitAccount(p))
      \/ (\E k \in DOMAIN links : LinkExpires(k)) \/ UNCHANGED links
  <2>1. (\E p \in MemberCalls : SignsIn(p)) => UNCHANGED <<links, madeBy>>
    BY SignInWrites
  <2> QED
    BY <2>1 DEF MembersNext, memberVars, StartInvite, LookInvitee, InsertInvitation, SignUp, CreateUser,
                StartUpdate, StartDelete, CountAdmins, CountsMoreThan, WriteRole, SignIn, SignsIn,
                RemoveBoardMember, NothingWritten
<1> QED
  BY <1>1, <1>2, <1>3, <1>4, <1>5, <1>6

(* The links an invitation dropped stay dropped, and nobody mails another.    *)
LEMMA MailsStep == MembersInv /\ [MembersNext]_memberVars => MailsNewest'
<1> SUFFICES ASSUME MembersInv, [MembersNext]_memberVars, ~invitesCrossed', NEW p \in MemberCalls, memberCall'[p].kind = "invite", memberCall'[p].step = "mail", NEW l \in DOMAIN links', links'[l].board = memberCall'[p].board, links'[l].to = memberCall'[p].who
             PROVE  links'[l].state # "open"
  BY DEF MailsNewest
<1>0. MembersTypeOK /\ MembersTypeOK' /\ CallsAreSound /\ InvitesAlone /\ MailsNewest
  BY MembersTypeStep DEF MembersInv
<1>1. ~invitesCrossed
  BY <1>0, CallsMove DEF Begins
<1>2. CASE DropOldLinks(p)
  <2>1. /\ DOMAIN links' = DOMAIN links /\ links'[l].board = links[l].board /\ links'[l].to = links[l].to
        /\ memberCall'[p].board = memberCall[p].board /\ memberCall'[p].who = memberCall[p].who
    <3>1. DOMAIN links' = DOMAIN links
      BY <1>2 DEF DropOldLinks
    <3>2. links'[l].board = links[l].board /\ links'[l].to = links[l].to
      BY <1>0, <3>1, LinksStay
    <3>3. memberCall'[p].board = memberCall[p].board /\ memberCall'[p].who = memberCall[p].who
      BY <1>0, <1>2 DEF DropOldLinks, Proceeds, MembersTypeOK, MemberCallState
    <3> QED
      BY <3>1, <3>2, <3>3
  <2>2. links[l] \in LinkRow
    BY <1>0, <2>1, LinkInState DEF LinkStates
  <2> QED
    BY <1>2, <2>1, <2>2 DEF DropOldLinks, LinksFor, LinkRow
<1>3. CASE memberCall'[p] = memberCall[p]
  <2>1. CASE l \in DOMAIN links
    BY <1>0, <1>1, <1>3, <2>1, LinksStay, LinksClose DEF MailsNewest
  <2>2. CASE l \notin DOMAIN links
    <3>1. PICK q \in MemberCalls : MailLink(q)
      BY <1>0, <2>2, LinksAdded
    <3>2. q = p
      BY <1>0, <1>1, <1>3, <3>1 DEF MailLink, Stage, InvitesAlone
    <3> QED
      BY <1>0, <3>1, <3>2 DEF MailLink, Answers, NoMemberCall, MembersTypeOK
  <2> QED
    BY <2>1, <2>2
<1>5. SignsIn(p) => memberCall[p].kind = "sign in"
  BY <1>0, SignInWrites
<1>4. ~LookInvitee(p) /\ ~CountAdmins(p)
  <2>1. ~Answers(p) /\ ~Proceeds(p, "insert") /\ ~Proceeds(p, "dropLinks") /\ ~Proceeds(p, "write")
    BY <1>0 DEF MembersTypeOK, MemberCallState, Answers, Proceeds, NoMemberCall
  <2> QED
    BY <2>1 DEF LookInvitee, CountAdmins, CountsMoreThan
<1> QED
  BY <1>0, <1>2, <1>3, <1>4, <1>5, CallsMove DEF Begins

(* A used link is used once.                                                  *)
LEMMA UsedStep == MembersInv /\ [MembersNext]_memberVars => UsedMadeOne'
<1> SUFFICES ASSUME MembersInv, [MembersNext]_memberVars PROVE UsedMadeOne'
  OBVIOUS
<1>0. MembersTypeOK /\ MembersTypeOK' /\ CallsAreSound /\ UsedMadeOne
  BY MembersTypeStep DEF MembersInv
<1>a. /\ DOMAIN links = 1..Len(links) /\ DOMAIN links' = 1..Len(links') /\ DOMAIN madeBy = DOMAIN links
      /\ \A l \in DOMAIN links : links[l] \in LinkRow
  BY <1>0, LenProperties, ElementOfSeq DEF MembersTypeOK
<1>1. CASE UNCHANGED <<links, madeBy>>
  BY <1>0, <1>1 DEF UsedMadeOne
<1>2. ASSUME NEW p \in MemberCalls, MailLink(p) PROVE UsedMadeOne'
  <2>1. madeBy' = Append(madeBy, 0) /\ Len(madeBy) = Len(links) /\ Len(links') = Len(links) + 1 /\ Len(links) \in Nat
    <3> DEFINE new == [board |-> memberCall[p].board, to |-> memberCall[p].who, state |-> "open"]
    <3>1. new \in LinkRow /\ links' = Append(links, new) /\ madeBy' = Append(madeBy, 0)
      BY <1>0, <1>2 DEF MailLink, Stage, CallsAreSound, CallIsSound, MembersTypeOK, MemberCallState, LinkRow, LinkStates
    <3> HIDE DEF new
    <3> QED
      BY <1>0, <3>1, AppendProperties, LenProperties DEF MembersTypeOK
  <2>2. \A k \in DOMAIN links : madeBy'[k] = madeBy[k]
    BY <1>0, <1>a, <2>1, AppendProperties DEF MembersTypeOK
  <2>3. madeBy'[Len(links) + 1] = 0
    BY <1>0, <2>1, AppendProperties DEF MembersTypeOK
  <2>4. /\ \A k \in DOMAIN links : links'[k] = links[k]
        /\ links'[Len(links) + 1].state = "open"
        /\ DOMAIN links' = DOMAIN links \union {Len(links) + 1}
    <3>1. Len(links) + 1 \in DOMAIN links' /\ Len(links) + 1 \notin DOMAIN links
      BY <1>a, <2>1
    <3>2. PICK q \in MemberCalls :
            /\ DOMAIN links' = DOMAIN links \union {Len(links) + 1}
            /\ links'[Len(links) + 1] = [board |-> memberCall[q].board, to |-> memberCall[q].who, state |-> "open"]
            /\ \A k \in DOMAIN links : links'[k] = links[k]
      BY <1>0, <3>1, LinksAdded
    <3> QED
      BY <3>2
  <2> QED
    BY <1>0, <2>2, <2>3, <2>4 DEF UsedMadeOne
<1>3. ASSUME NEW p \in MemberCalls, CommitAccount(p) PROVE UsedMadeOne'
  <2>1. CASE ~NothingWritten
    <3>1. CASE UNCHANGED <<links, madeBy>>
      BY <1>1, <3>1
    <3>2. CASE ~UNCHANGED <<links, madeBy>>
      <4>1. PICK l \in DOMAIN links :
              /\ links[l] \in LinkRow /\ links[l].state \in {"open", "expired"}
              /\ links' = [links EXCEPT ![l] = [links[l] EXCEPT !.state = "used"]]
              /\ madeBy' = [madeBy EXCEPT ![l] = @ + 1]
        BY <1>0, <1>3, <2>1, <3>2, CommitWrites
      <4>2. madeBy[l] = 0
        BY <1>0, <4>1 DEF UsedMadeOne
      <4>3. links'[l].state = "used" /\ madeBy'[l] = 1
        BY <1>a, <4>1, <4>2 DEF LinkRow
      <4>4. \A k \in DOMAIN links \ {l} : links'[k] = links[k] /\ madeBy'[k] = madeBy[k]
        BY <1>a, <4>1
      <4>5. DOMAIN links' = DOMAIN links
        BY <4>1
      <4> QED
        BY <1>0, <4>3, <4>4, <4>5 DEF UsedMadeOne
    <3> QED
      BY <3>1, <3>2
  <2> QED
    BY <1>1, <2>1 DEF NothingWritten
<1>4. ASSUME NEW p \in MemberCalls, CommitDelete(p) \/ DropOldLinks(p) PROVE UsedMadeOne'
  <2>1. UNCHANGED madeBy /\ DOMAIN links' = DOMAIN links
    BY <1>4 DEF CommitDelete, DropOldLinks, NothingWritten
  <2>2. ASSUME NEW k \in DOMAIN links PROVE links'[k].state = "used" <=> links[k].state = "used"
    BY <1>4, <1>a DEF CommitDelete, DropOldLinks, NothingWritten, LinkRow
  <2> QED
    BY <1>0, <2>1, <2>2 DEF UsedMadeOne
<1>5. ASSUME NEW k \in DOMAIN links, LinkExpires(k) PROVE UsedMadeOne'
  BY <1>0, <1>5, <1>a DEF LinkExpires, UsedMadeOne, LinkRow
<1>6. \/ \E p \in MemberCalls : CommitDelete(p) \/ DropOldLinks(p) \/ MailLink(p) \/ CommitAccount(p)
      \/ \E k \in DOMAIN links : LinkExpires(k)
      \/ UNCHANGED <<links, madeBy>>
  <2>1. (\E p \in MemberCalls : SignsIn(p)) => UNCHANGED <<links, madeBy>>
    BY <1>0, SignInWrites
  <2> QED
    BY <2>1 DEF MembersNext, memberVars, StartInvite, LookInvitee, InsertInvitation, SignUp, CreateUser,
                StartUpdate, StartDelete, CountAdmins, CountsMoreThan, WriteRole, SignIn, SignsIn,
                RemoveBoardMember, NothingWritten
<1> QED
  BY <1>1, <1>2, <1>3, <1>4, <1>5, <1>6

(* Signing up adds to one board at most.                                      *)
LEMMA CommitAddsRow ==
  ASSUME MembersTypeOK, CallsAreSound, NEW p \in MemberCalls, CommitAccount(p), ~NothingWritten
  PROVE  \/ UNCHANGED onBoard
         \/ \E b \in MemberBoards : onBoard' = [onBoard EXCEPT ![b][memberCall[p].who] = @ + 1]
<1>1. CASE UNCHANGED onBoard
  BY <1>1
<1>2. CASE ~UNCHANGED onBoard
  <2>1. PICK l \in DOMAIN links :
          links[l] \in LinkRow /\ onBoard' = [onBoard EXCEPT ![links[l].board][memberCall[p].who] = @ + 1]
    BY <1>2, CommitWrites
  <2>2. links[l].board \in MemberBoards
    BY <2>1 DEF LinkRow
  <2> QED
    BY <2>1, <2>2
<1> QED
  BY <1>1, <1>2

(* Who is put on a board has an account and was not on it.                    *)
LEMMA RealStep == MembersInv /\ [MembersNext]_memberVars => MembersAreReal'
<1> SUFFICES ASSUME MembersInv, [MembersNext]_memberVars, ~invitesCrossed',
                    NEW b \in MemberBoards, NEW x \in MemberPeople, onBoard'[b][x] > 0
             PROVE  role'[x] # "none" /\ onBoard'[b][x] = 1
  BY DEF MembersAreReal, HasAccount
<1>0. /\ MembersTypeOK /\ CallsAreSound /\ MembersTypeOK' /\ InsertsNew /\ MembersAreReal
      /\ role \in [MemberPeople -> {"none", "user", "admin"}]
      /\ onBoard \in [MemberBoards -> [MemberPeople -> Nat]]
  BY MembersTypeStep DEF MembersInv, InvitedAreReal, MembersTypeOK
<1>1. ~invitesCrossed
  BY <1>0, CallsMove DEF Begins
<1>2. onBoard[b][x] > 0 => role[x] # "none" /\ onBoard[b][x] = 1
  BY <1>0, <1>1 DEF MembersAreReal, HasAccount
<1>3. CASE UNCHANGED <<role, onBoard>>
  BY <1>2, <1>3
<1>4. ASSUME NEW p \in MemberCalls, InsertInvitation(p) PROVE role'[x] # "none" /\ onBoard'[b][x] = 1
  <2> DEFINE c == memberCall[p].board
             y == memberCall[p].who
  <2>1. /\ role' = role /\ onBoard' = [onBoard EXCEPT ![c][y] = @ + 1]
        /\ c \in MemberBoards /\ y \in MemberPeople /\ role[y] # "none" /\ onBoard[c][y] = 0
    BY <1>0, <1>1, <1>4 DEF InsertInvitation, Stage, CallsAreSound, CallIsSound, MembersTypeOK, MemberCallState,
                            InsertsNew, HasAccount
  <2> HIDE DEF c, y
  <2> QED
    BY <1>0, <1>2, <2>1
<1>5. ASSUME NEW p \in MemberCalls, WriteRole(p) \/ SignsIn(p) PROVE role'[x] # "none" /\ onBoard'[b][x] = 1
  <2>1. onBoard' = onBoard
    BY <1>0, <1>5, SignInWrites DEF WriteRole
  <2>2. role' = role \/ \E to \in {"user", "admin"} : role' = [role EXCEPT ![memberCall[p].who] = to]
    BY <1>0, <1>5, SignInWrites DEF WriteRole, GivesRole, Stage, CallsAreSound, CallIsSound
  <2> QED
    BY <1>0, <1>2, <2>1, <2>2
<1>6. ASSUME NEW p \in MemberCalls, CommitAccount(p), ~NothingWritten PROVE role'[x] # "none" /\ onBoard'[b][x] = 1
  <2> DEFINE y == memberCall[p].who
  <2>1. /\ role' = [role EXCEPT ![y] = memberCall[p].to] /\ memberCall[p].to # "none"
        /\ y \in MemberPeople /\ role[y] = "none"
    BY <1>0, <1>6, CommitWrites DEF HasAccount
  <2>2. UNCHANGED onBoard \/ \E c \in MemberBoards : onBoard' = [onBoard EXCEPT ![c][y] = @ + 1]
    BY <1>0, <1>6, CommitAddsRow
  <2>3. \A c \in MemberBoards : onBoard[c][y] = 0
    BY <1>0, <1>1, <2>1 DEF MembersAreReal, HasAccount
  <2> HIDE DEF y
  <2> QED
    BY <1>0, <1>2, <2>1, <2>2, <2>3
<1>7. ASSUME NEW p \in MemberCalls, CommitDelete(p), ~NothingWritten PROVE role'[x] # "none" /\ onBoard'[b][x] = 1
  <2> DEFINE y == memberCall[p].who
  <2>1. /\ role' = [role EXCEPT ![y] = "none"]
        /\ onBoard' = [c \in MemberBoards |-> [onBoard[c] EXCEPT ![y] = 0]]
    BY <1>7 DEF CommitDelete
  <2> HIDE DEF y
  <2> QED
    BY <1>0, <1>2, <2>1
<1>8. ASSUME NEW c \in MemberBoards, NEW y \in MemberPeople, RemoveBoardMember(c, y)
      PROVE  role'[x] # "none" /\ onBoard'[b][x] = 1
  BY <1>0, <1>2, <1>8 DEF RemoveBoardMember
<1>9. \/ UNCHANGED <<role, onBoard>>
      \/ \E p \in MemberCalls : InsertInvitation(p) \/ WriteRole(p) \/ SignsIn(p)
      \/ \E p \in MemberCalls : CommitAccount(p) /\ ~NothingWritten
      \/ \E p \in MemberCalls : CommitDelete(p) /\ ~NothingWritten
      \/ \E c \in MemberBoards, y \in MemberPeople : RemoveBoardMember(c, y)
  BY DEF MembersNext, memberVars, SignsIn, NothingWritten, StartInvite, LookInvitee, DropOldLinks, MailLink,
         LinkExpires, SignUp, CreateUser, StartUpdate, StartDelete, CountAdmins, CountsMoreThan, SignIn
<1> QED
  BY <1>3, <1>4, <1>5, <1>6, <1>7, <1>8, <1>9

(* A new link is mailed when no older one works.                              *)
LEMMA LinkStep == MembersInv /\ [MembersNext]_memberVars => LinkWorksOnce'
<1> SUFFICES ASSUME MembersInv, [MembersNext]_memberVars PROVE LinkWorksOnce'
  OBVIOUS
<1>0. MembersTypeOK /\ MembersTypeOK' /\ CallsAreSound /\ MailsNewest /\ UsedMadeOne' /\ LinkWorksOnce
  BY MembersTypeStep, UsedStep DEF MembersInv, InvitedAreReal
<1>1. ASSUME NEW l \in DOMAIN links' PROVE madeBy'[l] <= 1
  BY <1>0 DEF UsedMadeOne
<1>2. ASSUME ~invitesCrossed', NEW l \in DOMAIN links', links'[l].state = "open", NEW k \in DOMAIN links', links'[k].board = links'[l].board, links'[k].to = links'[l].to
      PROVE  k <= l
  <2>0. ~invitesCrossed
    BY <1>0, <1>2, CallsMove DEF Begins
  <2>1. DOMAIN links = 1..Len(links) /\ DOMAIN links' = 1..Len(links') /\ Len(links) \in Nat /\ Len(links') \in Nat
    BY <1>0, LenProperties DEF MembersTypeOK
  <2>2. CASE l \in DOMAIN links /\ k \in DOMAIN links
    BY <1>0, <1>2, <2>0, <2>2, LinksStay, LinksClose DEF LinkWorksOnce, LinksFor, Live
  <2>3. CASE l \notin DOMAIN links \/ k \notin DOMAIN links
    <3>1. PICK p \in MemberCalls :
            /\ MailLink(p)
            /\ DOMAIN links' = DOMAIN links \union {Len(links) + 1}
            /\ links'[Len(links) + 1] = [board |-> memberCall[p].board, to |-> memberCall[p].who, state |-> "open"]
            /\ \A j \in DOMAIN links : links'[j] = links[j]
      BY <1>0, <1>2, <2>3, LinksAdded
    <3>2. CASE l \notin DOMAIN links
      <4>1. l = Len(links) + 1
        BY <3>1, <3>2
      <4>2. k \in 1..Len(links) \/ k = Len(links) + 1
        BY <2>1, <3>1
      <4> QED
        BY <2>1, <4>1, <4>2
    <3>3. CASE l \in DOMAIN links
      <4>1. k = Len(links) + 1
        BY <2>3, <3>1, <3>3
      <4>2. links[l].board = memberCall[p].board /\ links[l].to = memberCall[p].who /\ links[l].state = "open"
        BY <1>2, <3>1, <3>3, <4>1
      <4> QED
        BY <1>0, <2>0, <3>1, <3>3, <4>2 DEF MailLink, Stage, MailsNewest
    <3> QED
      BY <3>2, <3>3
  <2> QED
    BY <2>2, <2>3
<1> QED
  BY <1>1, <1>2 DEF LinkWorksOnce, LinksFor, Live

-----------------------------------------------------------------------------
(* Every step keeps the inductive invariant.                                  *)
LEMMA MembersStep == MembersInv /\ [MembersNext]_memberVars => MembersInv'
<1> SUFFICES ASSUME MembersInv, [MembersNext]_memberVars PROVE MembersInv'
  OBVIOUS
<1>1. MembersTypeOK' /\ CallsAreSound'
  BY MembersTypeStep, SoundStep DEF MembersInv
<1>2. TakesAlone' /\ AnotherIsAdmin' /\ AlwaysAnAdmin'
  BY TakesStep, AnotherStep, AdminStep
<1>3. InvitesAlone' /\ InsertsNew' /\ MailsNewest'
  BY InvitesStep, InsertsStep, MailsStep
<1>4. UsedMadeOne' /\ InvitedAreReal'
  BY UsedStep, RealStep, LinkStep DEF InvitedAreReal
<1> QED
  BY <1>1, <1>2, <1>3, <1>4 DEF MembersInv

LEMMA MembersInvariant == MembersSpec => []MembersInv
<1>1. MembersInit => MembersInv
  BY MembersInitInv
<1>2. MembersInv /\ [MembersNext]_memberVars => MembersInv'
  BY MembersStep
<1> QED
  BY <1>1, <1>2, PTL DEF MembersSpec

(* An admin is left unless two requests that take the role away were past     *)
(* their checks at once, or the directory took it from the last admin or      *)
(* while one was: whoever is past a check alone was told of another admin,    *)
(* whom nobody demotes or deletes meanwhile (admin/update, update-user,       *)
(* admin/delete, applyAdminRole).                                             *)
THEOREM InstanceKeepsAnAdmin == MembersSpec => []AlwaysAnAdmin
<1>1. MembersInv => AlwaysAnAdmin
  BY DEF MembersInv
<1> QED
  BY <1>1, MembersInvariant, PTL

(* Whoever is on a board has an account and is listed once, and a link makes  *)
(* one account, unless an invitation overlapped with another or a deletion    *)
(* (invite, sign-up, admin/delete).                                           *)
THEOREM InvitationsAreReal == MembersSpec => []InvitedAreReal
<1>1. MembersInv => InvitedAreReal
  BY DEF MembersInv
<1> QED
  BY <1>1, MembersInvariant, PTL

-----------------------------------------------------------------------------
(* The dialog of people. *)
InviteRead == [board : OwnBoards, read : BOOLEAN, old : BOOLEAN, got : [Invitees -> Nat]]
InviteCall == [kind : {"invite", "remove"}, board : OwnBoards, who : Invitees,
               step : {"asked", "written", "told", "refused"}, reread : BOOLEAN]
Dialog == [board : OwnBoards \cup {NoneYet}, open : BOOLEAN, list : [Invitees -> Nat],
           picked : Invitees \cup {NoneYet}, offered : SUBSET Invitees, latest : Nat]

InviteTypes ==
  /\ onPage \in BOOLEAN /\ inviteCrossed \in BOOLEAN /\ memberWords \in Nat
  /\ invitedTo \in [OwnBoards -> SUBSET Invitees]
  /\ modal \in Dialog /\ (modal.open => modal.board \in OwnBoards) /\ (onPage => modal.board = PageBoard)
  /\ \A u \in lookups : u.users \subseteq Invitees
  /\ \A r \in listReads : r \in InviteRead /\ (onPage => r.board = PageBoard) /\ (~r.read => ~r.old)
  /\ \A c \in inviteCalls : c \in InviteCall /\ (c.step = "asked" => ~c.reread)

(* What was read and is not old is what there is; on the page, word is on its *)
(* way of what made a read one old.                                           *)
ReadsAreSound == \A r \in listReads : r.read /\ ~r.old => r.got = EachOf(invitedTo[r.board])
WordComes == memberWords > 0 \/ \E c \in inviteCalls : c.board = PageBoard /\ c.step = "written"
OldIsHeardOf == onPage => \A r \in listReads : r.old => WordComes
WillReadAgain == onPage /\ (WordComes \/ \E r \in listReads : ~r.old)

(* The list lags by what calls have written and their answers will edit.      *)
OnePerPerson == \A c, d \in inviteCalls : c.board = d.board /\ c.who = d.who => c = d
ToCome(c, p) == c.board = modal.board /\ c.who = p /\ c.step \in {"written", "told"} /\ ~c.reread
Lags(c, p) == IF c.kind = "invite" THEN modal.list[p] = 0 /\ p \in invitedTo[modal.board]
              ELSE p \notin invitedTo[modal.board]
Follows ==
  \A p \in Invitees :
    /\ (\A c \in inviteCalls : ~ToCome(c, p)) => modal.list[p] = IF p \in invitedTo[modal.board] THEN 1 ELSE 0
    /\ \A c \in inviteCalls : ToCome(c, p) => Lags(c, p)
IsCurrent == (modal.open \/ onPage) /\ modal.board \notin unheardOf /\ ~WillReadAgain

DialogInv ==
  /\ InviteTypes /\ ReadsAreSound /\ OldIsHeardOf
  /\ ~inviteCrossed => OnePerPerson /\ (IsCurrent => Follows)

-----------------------------------------------------------------------------
LEMMA EachOfThem ==
  ASSUME NEW set
  PROVE  /\ EachOf(set) \in [Invitees -> Nat]
         /\ \A p \in Invitees : EachOf(set)[p] = IF p \in set THEN 1 ELSE 0
BY DEF EachOf

(* The dialog is opened or closed, or something is typed or picked in it.     *)
LEMMA InDialogOnly ==
  ASSUME DialogInv, modal' \in Dialog, modal'.board = modal.board, modal'.list = modal.list,
         modal'.open => modal.open \/ onPage, \A u \in lookups' : u.users \subseteq Invitees,
         onPage' = onPage, invitedTo' = invitedTo, listReads' = listReads, inviteCalls' = inviteCalls,
         memberWords' = memberWords, unheardOf' = unheardOf, inviteCrossed' = inviteCrossed
  PROVE  DialogInv'
<1>1. InviteTypes'
  BY InviteAssumption DEF DialogInv, InviteTypes, InviteAssumption
<1>2. ReadsAreSound' /\ OldIsHeardOf'
  BY DEF DialogInv, ReadsAreSound, OldIsHeardOf, WordComes
<1>3. ASSUME ~inviteCrossed' PROVE OnePerPerson' /\ (IsCurrent' => Follows')
  <2>1. OnePerPerson /\ (IsCurrent => Follows)
    BY <1>3 DEF DialogInv
  <2>2. OnePerPerson'
    BY <2>1 DEF OnePerPerson
  <2>3. IsCurrent' => IsCurrent
    BY DEF IsCurrent, WillReadAgain, WordComes
  <2>4. Follows => Follows'
    BY DEF Follows, ToCome, Lags
  <2> QED
    BY <2>1, <2>2, <2>3, <2>4
<1> QED
  BY <1>1, <1>2, <1>3 DEF DialogInv

LEMMA OpenOrCloseKeeps ==
  ASSUME DialogInv, OpenInviteModal \/ CloseInvite
  PROVE  DialogInv'
<1>1. PICK open \in BOOLEAN : modal' = [modal EXCEPT !.open = open] /\ (open => onPage)
  BY DEF OpenInviteModal, CloseInvite
<1>2. modal \in Dialog
  BY DEF DialogInv, InviteTypes
<1>3. /\ modal' \in Dialog /\ modal'.board = modal.board /\ modal'.list = modal.list
      /\ modal'.open => modal.open \/ onPage
  BY <1>1, <1>2 DEF Dialog
<1>4. UNCHANGED <<onPage, invitedTo, listReads, lookups, inviteCalls, memberWords, unheardOf, inviteCrossed>>
  BY DEF OpenInviteModal, CloseInvite
<1>5. \A u \in lookups' : u.users \subseteq Invitees
  BY <1>4 DEF DialogInv, InviteTypes
<1> QED
  BY <1>3, <1>4, <1>5, InDialogOnly

LEMMA FetchUsersKeeps ==
  ASSUME DialogInv, FetchUsers
  PROVE  DialogInv'
<1>1. modal \in Dialog
  BY DEF DialogInv, InviteTypes
<1>2. PICK latest \in Nat : modal' = [modal EXCEPT !.latest = latest]
  <2>1. modal.latest + 1 \in Nat
    BY <1>1 DEF Dialog
  <2>2. modal' = [modal EXCEPT !.latest = modal.latest + 1]
    BY DEF FetchUsers
  <2> QED
    BY <2>1, <2>2
<1>3. /\ modal' \in Dialog /\ modal'.board = modal.board /\ modal'.list = modal.list
      /\ modal'.open => modal.open \/ onPage
  BY <1>1, <1>2 DEF Dialog
<1>4. UNCHANGED <<onPage, invitedTo, listReads, inviteCalls, memberWords, unheardOf, inviteCrossed>>
  BY DEF FetchUsers
<1>5. \A u \in lookups' : u.users \subseteq Invitees
  BY DEF FetchUsers, DialogInv, InviteTypes
<1> QED
  BY <1>3, <1>4, <1>5, InDialogOnly

LEMMA UsersArriveKeeps ==
  ASSUME DialogInv, NEW u, UsersArrive(u)
  PROVE  DialogInv'
<1>1. modal \in Dialog /\ \A v \in lookups : v.users \subseteq Invitees
  BY DEF DialogInv, InviteTypes
<1>2. PICK offered \in SUBSET Invitees : modal' = [modal EXCEPT !.offered = offered]
  <2>1. u.users \subseteq Invitees
    BY <1>1 DEF UsersArrive
  <2>2. modal = [modal EXCEPT !.offered = modal.offered] /\ modal.offered \in SUBSET Invitees
    BY <1>1 DEF Dialog
  <2>3. modal' = [modal EXCEPT !.offered = u.users] \/ modal' = modal
    BY DEF UsersArrive
  <2> QED
    BY <2>1, <2>2, <2>3
<1>3. /\ modal' \in Dialog /\ modal'.board = modal.board /\ modal'.list = modal.list
      /\ modal'.open => modal.open \/ onPage
  BY <1>1, <1>2 DEF Dialog
<1>4. UNCHANGED <<onPage, invitedTo, listReads, inviteCalls, memberWords, unheardOf, inviteCrossed>>
  BY DEF UsersArrive
<1>5. \A v \in lookups' : v.users \subseteq Invitees
  BY <1>1 DEF UsersArrive
<1> QED
  BY <1>3, <1>4, <1>5, InDialogOnly

LEMMA PickKeeps ==
  ASSUME DialogInv, NEW p \in Invitees, Pick(p)
  PROVE  DialogInv'
<1>1. modal \in Dialog
  BY DEF DialogInv, InviteTypes
<1>2. modal' = [modal EXCEPT !.picked = p]
  BY DEF Pick
<1>3. /\ modal' \in Dialog /\ modal'.board = modal.board /\ modal'.list = modal.list
      /\ modal'.open => modal.open \/ onPage
  BY <1>1, <1>2 DEF Dialog
<1>4. UNCHANGED <<onPage, invitedTo, listReads, lookups, inviteCalls, memberWords, unheardOf, inviteCrossed>>
  BY DEF Pick
<1>5. \A u \in lookups' : u.users \subseteq Invitees
  BY <1>4 DEF DialogInv, InviteTypes
<1> QED
  BY <1>3, <1>4, <1>5, InDialogOnly

-----------------------------------------------------------------------------
(* Lists that are read.                                                       *)
LEMMA OpenInviteKeeps ==
  ASSUME DialogInv, NEW b \in OwnBoards, OpenInvite(b)
  PROVE  DialogInv'
<1>1. PICK none : none = EachOf({}) /\ none \in [Invitees -> Nat]
  BY EachOfThem
<1>2. PICK r : r = [board |-> b, read |-> FALSE, old |-> FALSE, got |-> none]
  OBVIOUS
<1>3. r \in InviteRead /\ ~r.read /\ ~r.old
  BY <1>1, <1>2 DEF InviteRead
<1>4. /\ ~onPage /\ ~modal.open /\ modal' = [modal EXCEPT !.list = none]
      /\ listReads' = listReads \cup {r}
      /\ UNCHANGED <<onPage, invitedTo, lookups, inviteCalls, memberWords, unheardOf, inviteCrossed>>
  BY <1>1, <1>2 DEF OpenInvite
<1>5. modal' \in Dialog /\ modal'.board = modal.board /\ ~modal'.open
  BY <1>1, <1>4 DEF DialogInv, InviteTypes, Dialog
<1>6. InviteTypes'
  BY <1>3, <1>4, <1>5 DEF DialogInv, InviteTypes
<1>7. ReadsAreSound' /\ OldIsHeardOf'
  BY <1>3, <1>4 DEF DialogInv, ReadsAreSound, OldIsHeardOf
<1>8. ~IsCurrent' /\ (~inviteCrossed' => OnePerPerson')
  BY <1>4, <1>5 DEF IsCurrent, DialogInv, OnePerPerson
<1> QED
  BY <1>6, <1>7, <1>8 DEF DialogInv

LEMMA HearMembersKeeps ==
  ASSUME DialogInv, HearMembers
  PROVE  DialogInv'
<1>1. PICK none : none = EachOf({}) /\ none \in [Invitees -> Nat]
  BY EachOfThem
<1>2. PICK r : r = [board |-> PageBoard, read |-> FALSE, old |-> FALSE, got |-> none]
  OBVIOUS
<1>3. r \in InviteRead /\ r.board = PageBoard /\ ~r.read /\ ~r.old
  BY <1>1, <1>2, InviteAssumption DEF InviteRead, InviteAssumption
<1>4. /\ onPage /\ memberWords' \in Nat /\ listReads' = {r}
      /\ UNCHANGED <<onPage, invitedTo, modal, lookups, inviteCalls, unheardOf, inviteCrossed>>
  BY <1>1, <1>2 DEF HearMembers, DialogInv, InviteTypes
<1>5. InviteTypes'
  BY <1>3, <1>4 DEF DialogInv, InviteTypes
<1>6. ReadsAreSound' /\ OldIsHeardOf'
  BY <1>3, <1>4 DEF ReadsAreSound, OldIsHeardOf
<1>7. ~IsCurrent' /\ (~inviteCrossed' => OnePerPerson')
  BY <1>3, <1>4 DEF IsCurrent, WillReadAgain, DialogInv, OnePerPerson
<1> QED
  BY <1>5, <1>6, <1>7 DEF DialogInv

LEMMA ReadInvitationsKeeps ==
  ASSUME DialogInv, NEW r, ReadInvitations(r)
  PROVE  DialogInv'
<1>1. r \in InviteRead /\ r \in listReads /\ ~r.read /\ ~r.old /\ (onPage => r.board = PageBoard)
  BY DEF ReadInvitations, DialogInv, InviteTypes
<1>2. PICK got : got = EachOf(invitedTo[r.board]) /\ got \in [Invitees -> Nat]
  BY EachOfThem
<1>3. PICK s : s = [r EXCEPT !.read = TRUE, !.got = got]
  OBVIOUS
<1>4. s \in InviteRead /\ s.board = r.board /\ s.read /\ ~s.old /\ s.got = got
  BY <1>1, <1>2, <1>3 DEF InviteRead
<1>5. /\ listReads' = (listReads \ {r}) \cup {s}
      /\ UNCHANGED <<onPage, invitedTo, modal, lookups, inviteCalls, memberWords, unheardOf, inviteCrossed>>
  BY <1>2, <1>3 DEF ReadInvitations
<1>6. InviteTypes'
  BY <1>1, <1>4, <1>5 DEF DialogInv, InviteTypes
<1>7. ReadsAreSound'
  BY <1>2, <1>4, <1>5 DEF DialogInv, ReadsAreSound
<1>8. OldIsHeardOf'
  BY <1>4, <1>5 DEF DialogInv, OldIsHeardOf, WordComes
<1>9. ASSUME ~inviteCrossed' PROVE OnePerPerson' /\ (IsCurrent' => Follows')
  <2>1. OnePerPerson /\ (IsCurrent => Follows)
    BY <1>5, <1>9 DEF DialogInv
  <2>2. OnePerPerson'
    BY <1>5, <2>1 DEF OnePerPerson
  <2>3. WillReadAgain => WillReadAgain'
    BY <1>4, <1>5 DEF WillReadAgain, WordComes
  <2>4. IsCurrent' => IsCurrent
    BY <1>5, <2>3 DEF IsCurrent
  <2>5. Follows => Follows'
    BY <1>5 DEF Follows, ToCome, Lags
  <2> QED
    BY <2>1, <2>2, <2>4, <2>5
<1> QED
  BY <1>6, <1>7, <1>8, <1>9 DEF DialogInv

LEMMA InvitationsFailKeeps ==
  ASSUME DialogInv, NEW r, InvitationsFail(r)
  PROVE  DialogInv'
<1>1. r \in InviteRead /\ r \in listReads /\ (onPage => r.board = PageBoard) /\ modal \in Dialog
  BY DEF InvitationsFail, DialogInv, InviteTypes
<1>2. PICK open \in BOOLEAN : open = (modal.open \/ ~onPage)
  OBVIOUS
<1>3. modal' = [modal EXCEPT !.board = r.board, !.open = open]
  BY <1>2 DEF InvitationsFail
<1>4. modal' \in Dialog /\ modal'.board = r.board /\ r.board \in OwnBoards
  BY <1>1, <1>3 DEF Dialog, InviteRead
<1>5. /\ listReads' = listReads \ {r} /\ unheardOf' = unheardOf \cup {r.board}
      /\ UNCHANGED <<onPage, invitedTo, lookups, inviteCalls, memberWords, inviteCrossed>>
  BY DEF InvitationsFail
<1>6. InviteTypes'
  BY <1>1, <1>4, <1>5 DEF DialogInv, InviteTypes
<1>7. ReadsAreSound' /\ OldIsHeardOf'
  BY <1>5 DEF DialogInv, ReadsAreSound, OldIsHeardOf, WordComes
<1>8. ~IsCurrent' /\ (~inviteCrossed' => OnePerPerson')
  BY <1>4, <1>5 DEF IsCurrent, DialogInv, OnePerPerson
<1> QED
  BY <1>6, <1>7, <1>8 DEF DialogInv

-----------------------------------------------------------------------------
(* The list is what was read; the answers of calls that wrote before are not  *)
(* waited for any more.                                                       *)
LEMMA RereadCalls ==
  ASSUME InviteTypes, NEW b, NEW calls, calls = Reread(inviteCalls, b)
  PROVE  /\ \A d \in calls : \E c \in inviteCalls :
              /\ d \in InviteCall /\ d.kind = c.kind /\ d.board = c.board /\ d.who = c.who /\ d.step = c.step
              /\ d = (IF c.board = b /\ c.step # "asked" THEN [c EXCEPT !.reread = TRUE] ELSE c)
              /\ c.board = b /\ c.step # "asked" => d.reread
              /\ c.step = "asked" => ~d.reread
         /\ \A c \in inviteCalls : \E d \in calls : d.board = c.board /\ d.step = c.step
<1>1. \A c \in inviteCalls : c \in InviteCall /\ (c.step = "asked" => ~c.reread)
  BY DEF InviteTypes
<1>2. ASSUME NEW c \in inviteCalls, NEW d, d = IF c.board = b /\ c.step # "asked" THEN [c EXCEPT !.reread = TRUE] ELSE c
      PROVE  /\ d \in InviteCall /\ d.kind = c.kind /\ d.board = c.board /\ d.who = c.who /\ d.step = c.step
             /\ c.board = b /\ c.step # "asked" => d.reread
             /\ c.step = "asked" => ~d.reread
  <2>1. c \in InviteCall
    BY <1>1
  <2>2. CASE c.board = b /\ c.step # "asked"
    BY <1>2, <2>1, <2>2 DEF InviteCall
  <2>3. CASE ~(c.board = b /\ c.step # "asked")
    BY <1>1, <1>2, <2>1, <2>3
  <2> QED
    BY <2>2, <2>3
<1>3. calls = {IF c.board = b /\ c.step # "asked" THEN [c EXCEPT !.reread = TRUE] ELSE c : c \in inviteCalls}
  BY DEF Reread
<1>4. ASSUME NEW d \in calls
      PROVE  \E c \in inviteCalls :
              /\ d \in InviteCall /\ d.kind = c.kind /\ d.board = c.board /\ d.who = c.who /\ d.step = c.step
              /\ d = (IF c.board = b /\ c.step # "asked" THEN [c EXCEPT !.reread = TRUE] ELSE c)
              /\ c.board = b /\ c.step # "asked" => d.reread
              /\ c.step = "asked" => ~d.reread
  <2>1. PICK c \in inviteCalls : d = IF c.board = b /\ c.step # "asked" THEN [c EXCEPT !.reread = TRUE] ELSE c
    BY <1>3
  <2> QED
    BY <1>2, <2>1
<1>5. ASSUME NEW c \in inviteCalls PROVE \E d \in calls : d.board = c.board /\ d.step = c.step
  <2>1. PICK d : d = IF c.board = b /\ c.step # "asked" THEN [c EXCEPT !.reread = TRUE] ELSE c
    OBVIOUS
  <2>2. d \in calls
    BY <1>3, <2>1
  <2> QED
    BY <1>2, <2>1, <2>2
<1> QED
  BY <1>4, <1>5

LEMMA InvitationsArriveKeeps ==
  ASSUME DialogInv, NEW r, InvitationsArrive(r)
  PROVE  DialogInv'
<1>1. /\ r \in InviteRead /\ r \in listReads /\ r.read /\ (onPage => r.board = PageBoard)
      /\ modal \in Dialog /\ InviteTypes
  BY DEF InvitationsArrive, DialogInv, InviteTypes
<1>2. PICK open \in BOOLEAN : open = (modal.open \/ ~onPage)
  OBVIOUS
<1>3. modal' = [modal EXCEPT !.list = r.got, !.board = r.board, !.open = open]
  BY <1>2 DEF InvitationsArrive
<1>4. modal' \in Dialog /\ modal'.board = r.board /\ modal'.list = r.got /\ r.board \in OwnBoards
  BY <1>1, <1>3 DEF Dialog, InviteRead
<1>5. /\ listReads' = listReads \ {r} /\ unheardOf' = ListStale(r)
      /\ UNCHANGED <<onPage, invitedTo, lookups, memberWords, inviteCrossed>>
  BY DEF InvitationsArrive
<1>6. PICK calls : calls = Reread(inviteCalls, r.board) /\ inviteCalls' = calls
  BY DEF InvitationsArrive
<1>7. /\ \A d \in calls : \E c \in inviteCalls :
              /\ d \in InviteCall /\ d.kind = c.kind /\ d.board = c.board /\ d.who = c.who /\ d.step = c.step
              /\ d = (IF c.board = r.board /\ c.step # "asked" THEN [c EXCEPT !.reread = TRUE] ELSE c)
              /\ c.board = r.board /\ c.step # "asked" => d.reread
              /\ c.step = "asked" => ~d.reread
      /\ \A c \in inviteCalls : \E d \in calls : d.board = c.board /\ d.step = c.step
  BY <1>1, <1>6, RereadCalls
<1>8. InviteTypes'
  BY <1>1, <1>4, <1>5, <1>6, <1>7 DEF InviteTypes
<1>9. WordComes => WordComes'
  BY <1>5, <1>6, <1>7 DEF WordComes
<1>10. ReadsAreSound' /\ OldIsHeardOf'
  BY <1>5, <1>9 DEF DialogInv, ReadsAreSound, OldIsHeardOf
<1>11. ASSUME ~inviteCrossed' PROVE OnePerPerson'
  <2>1. OnePerPerson
    BY <1>5, <1>11 DEF DialogInv
  <2> SUFFICES ASSUME NEW d \in calls, NEW e \in calls, d.board = e.board, d.who = e.who PROVE d = e
    BY <1>6 DEF OnePerPerson
  <2>2. PICK c \in inviteCalls : c.board = d.board /\ c.who = d.who
          /\ d = (IF c.board = r.board /\ c.step # "asked" THEN [c EXCEPT !.reread = TRUE] ELSE c)
    BY <1>7
  <2>3. PICK f \in inviteCalls : f.board = e.board /\ f.who = e.who
          /\ e = (IF f.board = r.board /\ f.step # "asked" THEN [f EXCEPT !.reread = TRUE] ELSE f)
    BY <1>7
  <2>4. c = f
    BY <2>1, <2>2, <2>3 DEF OnePerPerson
  <2> QED
    BY <2>2, <2>3, <2>4
<1>12. ASSUME IsCurrent' PROVE Follows'
  <2>1. ~r.old
    <3>1. CASE onPage
      BY <1>1, <1>5, <1>9, <1>12, <3>1 DEF IsCurrent, WillReadAgain, DialogInv, OldIsHeardOf
    <3>2. CASE ~onPage
      BY <1>4, <1>5, <1>12, <3>2 DEF IsCurrent, ListStale
    <3> QED
      BY <3>1, <3>2
  <2>2. r.got = EachOf(invitedTo[r.board])
    BY <1>1, <2>1 DEF DialogInv, ReadsAreSound
  <2>3. \A p \in Invitees : modal'.list[p] = IF p \in invitedTo'[modal'.board] THEN 1 ELSE 0
    BY <1>4, <1>5, <2>2, EachOfThem
  <2>4. ASSUME NEW d \in calls, NEW p, ToCome(d, p)' PROVE FALSE
    BY <1>4, <1>7, <2>4 DEF ToCome
  <2> QED
    BY <1>6, <2>3, <2>4 DEF Follows
<1> QED
  BY <1>8, <1>10, <1>11, <1>12 DEF DialogInv

-----------------------------------------------------------------------------
(* Invitations and removals.                                                  *)
LEMMA CallKeeps ==
  ASSUME DialogInv, NEW kind \in {"invite", "remove"}, NEW p \in Invitees, Call(kind, p)
  PROVE  DialogInv'
<1>1. PICK c : c = [kind |-> kind, board |-> modal.board, who |-> p, step |-> "asked", reread |-> FALSE]
  OBVIOUS
<1>2. modal.open /\ modal.board \in OwnBoards
  BY DEF Call, DialogInv, InviteTypes
<1>3. c \in InviteCall /\ c.board = modal.board /\ c.who = p /\ c.step = "asked" /\ ~c.reread
  BY <1>1, <1>2 DEF InviteCall
<1>4. /\ inviteCalls' = inviteCalls \cup {c}
      /\ UNCHANGED <<onPage, invitedTo, modal, listReads, lookups, memberWords, unheardOf>>
  BY <1>1 DEF Call
<1>5. inviteCrossed' = (inviteCrossed \/ \E d \in inviteCalls : d.board = modal.board /\ d.who = p)
  BY DEF Call
<1>6. InviteTypes'
  <2>1. inviteCrossed' \in BOOLEAN
    BY <1>5 DEF DialogInv, InviteTypes
  <2> QED
    BY <1>3, <1>4, <2>1 DEF DialogInv, InviteTypes
<1>7. WordComes => WordComes'
  BY <1>4 DEF WordComes
<1>8. ReadsAreSound' /\ OldIsHeardOf'
  BY <1>4, <1>7 DEF DialogInv, ReadsAreSound, OldIsHeardOf
<1>9. ASSUME ~inviteCrossed' PROVE OnePerPerson' /\ (IsCurrent' => Follows')
  <2>1. /\ OnePerPerson /\ (IsCurrent => Follows)
        /\ \A d \in inviteCalls : ~(d.board = modal.board /\ d.who = p)
    BY <1>5, <1>9 DEF DialogInv
  <2>2. OnePerPerson'
    BY <1>3, <1>4, <2>1 DEF OnePerPerson
  <2>3. IsCurrent' => IsCurrent
    BY <1>4, <1>7 DEF IsCurrent, WillReadAgain
  <2>4. Follows => Follows'
    BY <1>3, <1>4 DEF Follows, ToCome, Lags
  <2> QED
    BY <2>1, <2>2, <2>3, <2>4
<1> QED
  BY <1>6, <1>8, <1>9 DEF DialogInv

LEMMA AskingKeeps ==
  ASSUME DialogInv, NEW p \in Invitees, CreateInvitation \/ RemoveInvitation(p)
  PROVE  DialogInv'
<1>1. CASE CreateInvitation
  <2>1. modal.picked \in Invitees
    BY <1>1 DEF CreateInvitation, DialogInv, InviteTypes, Dialog
  <2> QED
    BY <1>1, <2>1, CallKeeps DEF CreateInvitation
<1>2. CASE RemoveInvitation(p)
  BY <1>2, CallKeeps DEF RemoveInvitation
<1> QED
  BY <1>1, <1>2

LEMMA OneCallMoves ==
  ASSUME InviteTypes, NEW c \in inviteCalls, NEW s \in {"written", "told", "refused"}, NEW d,
         d = [c EXCEPT !.step = s]
  PROVE  d \in InviteCall /\ d.kind = c.kind /\ d.board = c.board /\ d.who = c.who /\ d.step = s
         /\ d.reread = c.reread /\ c \in InviteCall
BY DEF InviteTypes, InviteCall

LEMMA ReadsGrowOld ==
  ASSUME InviteTypes, NEW b
  PROVE  /\ \A s \in Outdated(b) : \E r \in listReads :
              /\ s \in InviteRead /\ s.board = r.board /\ s.read = r.read /\ s.got = r.got
              /\ s.old => r.old \/ (r.board = b /\ r.read)
              /\ (r.board = b /\ r.read) \/ r.old => s.old
         /\ \A r \in listReads : r.board # b => r \in Outdated(b)
<1>1. ASSUME NEW s \in Outdated(b)
      PROVE  \E r \in listReads :
              /\ s \in InviteRead /\ s.board = r.board /\ s.read = r.read /\ s.got = r.got
              /\ s.old => r.old \/ (r.board = b /\ r.read)
              /\ (r.board = b /\ r.read) \/ r.old => s.old
  <2>1. PICK r \in listReads : s = IF r.board = b /\ r.read THEN [r EXCEPT !.old = TRUE] ELSE r
    BY <1>1 DEF Outdated
  <2>2. r \in InviteRead
    BY DEF InviteTypes
  <2>3. CASE r.board = b /\ r.read
    BY <2>1, <2>2, <2>3 DEF InviteRead
  <2>4. CASE ~(r.board = b /\ r.read)
    BY <2>1, <2>2, <2>4
  <2> QED
    BY <2>3, <2>4
<1>2. ASSUME NEW r \in listReads, r.board # b PROVE r \in Outdated(b)
  BY <1>2 DEF Outdated
<1> QED
  BY <1>1, <1>2

(* A board changes: what was read of it is old, which the page hears of.      *)
LEMMA ReadsStaySound ==
  ASSUME DialogInv, NEW b, listReads' = Outdated(b), UNCHANGED onPage,
         \A o \in OwnBoards : o # b => invitedTo'[o] = invitedTo[o],
         onPage /\ WordComes => WordComes', onPage /\ b = PageBoard => WordComes'
  PROVE  /\ ReadsAreSound' /\ OldIsHeardOf'
         /\ \A s \in listReads' : s \in InviteRead /\ (onPage => s.board = PageBoard) /\ (~s.read => ~s.old)
         /\ onPage /\ b # PageBoard /\ WillReadAgain => WillReadAgain'
<1>1. InviteTypes
  BY DEF DialogInv
<1>2. PICK reads : reads = listReads' /\ reads = Outdated(b)
  OBVIOUS
<1>3. /\ \A s \in reads : \E r \in listReads :
              /\ s \in InviteRead /\ s.board = r.board /\ s.read = r.read /\ s.got = r.got
              /\ s.old => r.old \/ (r.board = b /\ r.read)
              /\ (r.board = b /\ r.read) \/ r.old => s.old
      /\ \A r \in listReads : r.board # b => r \in reads
  BY <1>1, <1>2, ReadsGrowOld
<1>4. \A r \in listReads : r \in InviteRead /\ (onPage => r.board = PageBoard) /\ (~r.read => ~r.old)
  BY <1>1 DEF InviteTypes
<1>5. ReadsAreSound'
  <2> SUFFICES ASSUME NEW s \in reads, s.read, ~s.old PROVE s.got = EachOf(invitedTo[s.board])'
    BY <1>2 DEF ReadsAreSound
  <2>1. PICK r \in listReads : /\ s.board = r.board /\ s.read = r.read /\ s.got = r.got
                               /\ (r.board = b /\ r.read) \/ r.old => s.old
    BY <1>3
  <2>2. r.read /\ ~r.old /\ r.board # b
    BY <2>1
  <2>3. r.got = EachOf(invitedTo[r.board])
    BY <2>2 DEF DialogInv, ReadsAreSound
  <2>4. r.board \in OwnBoards
    BY <1>4 DEF InviteRead
  <2>5. invitedTo'[r.board] = invitedTo[r.board]
    BY <2>2, <2>4
  <2>6. EachOf(invitedTo[s.board])' = EachOf(invitedTo'[s.board])
    BY DEF EachOf
  <2> QED
    BY <2>1, <2>3, <2>5, <2>6
<1>6. OldIsHeardOf'
  <2> SUFFICES ASSUME onPage, NEW s \in reads, s.old PROVE WordComes'
    BY <1>2 DEF OldIsHeardOf
  <2>1. PICK r \in listReads : s.old => r.old \/ (r.board = b /\ r.read)
    BY <1>3
  <2>2. CASE r.old
    BY <2>2 DEF DialogInv, OldIsHeardOf
  <2>3. CASE r.board = b
    BY <1>4, <2>3
  <2> QED
    BY <2>1, <2>2, <2>3
<1>7. \A s \in reads : s \in InviteRead /\ (onPage => s.board = PageBoard) /\ (~s.read => ~s.old)
  BY <1>3, <1>4
<1>8. onPage /\ b # PageBoard /\ WillReadAgain => WillReadAgain'
  <2> SUFFICES ASSUME onPage, b # PageBoard, WillReadAgain PROVE WillReadAgain'
    OBVIOUS
  <2>1. CASE WordComes
    BY <2>1 DEF WillReadAgain
  <2>2. CASE \E r \in listReads : ~r.old
    <3>1. PICK r \in listReads : ~r.old
      BY <2>2
    <3>2. r \in reads
      BY <1>3, <1>4
    <3> QED
      BY <1>2, <3>1, <3>2 DEF WillReadAgain
  <2> QED
    BY <2>1, <2>2 DEF WillReadAgain
<1> QED
  BY <1>2, <1>5, <1>6, <1>7, <1>8

LEMMA ChangeElsewhereKeeps ==
  ASSUME DialogInv, NEW b \in OwnBoards, NEW p \in Invitees, ChangeElsewhere(b, p)
  PROVE  DialogInv'
<1>1. PICK who : who = (IF p \in invitedTo[b] THEN invitedTo[b] \ {p} ELSE invitedTo[b] \cup {p})
  OBVIOUS
<1>2. invitedTo \in [OwnBoards -> SUBSET Invitees] /\ memberWords \in Nat
  BY DEF DialogInv, InviteTypes
<1>3. who \in SUBSET Invitees
  BY <1>1, <1>2
<1>4. invitedTo' = [invitedTo EXCEPT ![b] = who]
  BY <1>1 DEF ChangeElsewhere
<1>5. invitedTo' \in [OwnBoards -> SUBSET Invitees] /\ \A o \in OwnBoards : o # b => invitedTo'[o] = invitedTo[o]
  BY <1>2, <1>3, <1>4
<1>6. /\ memberWords' \in Nat /\ (memberWords > 0 => memberWords' > 0)
      /\ onPage /\ b = PageBoard => memberWords' > 0
  BY <1>2 DEF ChangeElsewhere
<1>7. /\ listReads' = Outdated(b) /\ UNCHANGED <<onPage, modal, lookups, inviteCalls>>
      /\ ~onPage => unheardOf' = unheardOf \cup {b}
      /\ onPage => unheardOf' = unheardOf
  BY DEF ChangeElsewhere
<1>8. inviteCrossed' = (inviteCrossed \/ \E c \in inviteCalls : c.board = b)
  BY DEF ChangeElsewhere
<1>9. (WordComes => WordComes') /\ (onPage /\ b = PageBoard => WordComes')
  BY <1>6, <1>7 DEF WordComes
<1>10. /\ ReadsAreSound' /\ OldIsHeardOf'
       /\ \A s \in listReads' : s \in InviteRead /\ (onPage => s.board = PageBoard) /\ (~s.read => ~s.old)
       /\ onPage /\ b # PageBoard /\ WillReadAgain => WillReadAgain'
  BY <1>5, <1>7, <1>9, ReadsStaySound
<1>11. InviteTypes'
  <2>1. inviteCrossed' \in BOOLEAN
    BY <1>8 DEF DialogInv, InviteTypes
  <2> QED
    BY <1>5, <1>6, <1>7, <1>10, <2>1 DEF DialogInv, InviteTypes
<1>12. ASSUME ~inviteCrossed' PROVE OnePerPerson' /\ (IsCurrent' => Follows')
  <2>1. OnePerPerson /\ (IsCurrent => Follows)
    BY <1>8, <1>12 DEF DialogInv
  <2>2. OnePerPerson'
    BY <1>7, <2>1 DEF OnePerPerson
  <2>3. ASSUME IsCurrent' PROVE IsCurrent /\ modal.board # b /\ modal.board \in OwnBoards
    <3>1. (modal.open \/ onPage) /\ modal.board \notin unheardOf' /\ ~WillReadAgain'
      BY <1>7, <2>3 DEF IsCurrent
    <3>2. (modal.open => modal.board \in OwnBoards) /\ (onPage => modal.board = PageBoard)
      BY DEF DialogInv, InviteTypes
    <3>3. CASE onPage
      <4>1. b # PageBoard
        BY <1>7, <1>9, <3>1, <3>3 DEF WillReadAgain
      <4> QED
        BY <1>7, <1>10, <3>1, <3>2, <3>3, <4>1, InviteAssumption DEF IsCurrent, InviteAssumption
    <3>4. CASE ~onPage
      BY <1>7, <3>1, <3>2, <3>4 DEF IsCurrent, WillReadAgain
    <3> QED
      BY <3>3, <3>4
  <2>4. ASSUME IsCurrent' PROVE Follows'
    <3>1. Follows /\ invitedTo'[modal.board] = invitedTo[modal.board]
      BY <1>5, <2>1, <2>3, <2>4
    <3> QED
      BY <1>7, <3>1 DEF Follows, ToCome, Lags
  <2> QED
    BY <2>2, <2>4
<1> QED
  BY <1>10, <1>11, <1>12 DEF DialogInv

LEMMA TellBoardKeeps ==
  ASSUME DialogInv, NEW c, TellBoard(c)
  PROVE  DialogInv'
<1>1. InviteTypes /\ c \in inviteCalls /\ c.step = "written" /\ memberWords \in Nat
  BY DEF TellBoard, DialogInv, InviteTypes
<1>2. PICK d : d = [c EXCEPT !.step = "told"]
  OBVIOUS
<1>3. /\ d \in InviteCall /\ d.kind = c.kind /\ d.board = c.board /\ d.who = c.who /\ d.step = "told"
      /\ d.reread = c.reread
  BY <1>1, <1>2, OneCallMoves
<1>4. /\ inviteCalls' = (inviteCalls \ {c}) \cup {d}
      /\ UNCHANGED <<onPage, invitedTo, modal, listReads, lookups, unheardOf, inviteCrossed>>
  BY <1>2 DEF TellBoard
<1>5. /\ memberWords' \in Nat /\ (memberWords > 0 => memberWords' > 0)
      /\ onPage /\ c.board = PageBoard => memberWords' > 0
  BY <1>1 DEF TellBoard
<1>6. onPage /\ WordComes => WordComes'
  BY <1>4, <1>5 DEF WordComes
<1>7. InviteTypes'
  BY <1>1, <1>3, <1>4, <1>5 DEF InviteTypes
<1>8. ReadsAreSound' /\ OldIsHeardOf'
  BY <1>4, <1>6 DEF DialogInv, ReadsAreSound, OldIsHeardOf
<1>9. ASSUME ~inviteCrossed' PROVE OnePerPerson' /\ (IsCurrent' => Follows')
  <2>1. OnePerPerson /\ (IsCurrent => Follows)
    BY <1>4, <1>9 DEF DialogInv
  <2>2. OnePerPerson'
    BY <1>1, <1>3, <1>4, <2>1 DEF OnePerPerson
  <2>3. IsCurrent' => IsCurrent
    BY <1>4, <1>6 DEF IsCurrent, WillReadAgain
  <2>4. \A p : ToCome(c, p) = ToCome(d, p)
    BY <1>1, <1>3 DEF ToCome
  <2>5. Follows => Follows'
    BY <1>1, <1>3, <1>4, <2>4 DEF Follows, ToCome, Lags
  <2> QED
    BY <2>1, <2>2, <2>3, <2>5
<1> QED
  BY <1>7, <1>8, <1>9 DEF DialogInv

(* What was asked for is so already.                                          *)
LEMMA RefusalKeeps ==
  ASSUME DialogInv, NEW c \in inviteCalls, c.step = "asked",
         inviteCalls' = (inviteCalls \ {c}) \cup {[c EXCEPT !.step = "refused"]},
         UNCHANGED <<onPage, invitedTo, modal, listReads, lookups, memberWords, unheardOf, inviteCrossed>>
  PROVE  DialogInv'
<1>1. InviteTypes
  BY DEF DialogInv
<1>2. PICK d : d = [c EXCEPT !.step = "refused"]
  OBVIOUS
<1>3. /\ d \in InviteCall /\ d.kind = c.kind /\ d.board = c.board /\ d.who = c.who /\ d.step = "refused"
      /\ d.reread = c.reread
  BY <1>1, <1>2, OneCallMoves
<1>4. inviteCalls' = (inviteCalls \ {c}) \cup {d}
  BY <1>2
<1>5. WordComes = WordComes'
  BY <1>3, <1>4 DEF WordComes
<1>6. InviteTypes'
  BY <1>1, <1>3, <1>4 DEF InviteTypes
<1>7. ReadsAreSound' /\ OldIsHeardOf'
  BY <1>5 DEF DialogInv, ReadsAreSound, OldIsHeardOf
<1>8. ASSUME ~inviteCrossed' PROVE OnePerPerson' /\ (IsCurrent' => Follows')
  <2>1. OnePerPerson /\ (IsCurrent => Follows)
    BY <1>8 DEF DialogInv
  <2>2. OnePerPerson'
    BY <1>3, <1>4, <2>1 DEF OnePerPerson
  <2>3. IsCurrent' => IsCurrent
    BY <1>5 DEF IsCurrent, WillReadAgain
  <2>4. Follows => Follows'
    BY <1>3, <1>4 DEF Follows, ToCome, Lags
  <2> QED
    BY <2>1, <2>2, <2>3, <2>4
<1> QED
  BY <1>6, <1>7, <1>8 DEF DialogInv

LEMMA WritingKeeps ==
  ASSUME DialogInv, NEW c \in inviteCalls, c.step = "asked", NEW wanted \in SUBSET Invitees,
         \A p \in Invitees \ {c.who} : p \in wanted <=> p \in invitedTo[c.board],
         c.kind = "invite" => c.who \in wanted /\ c.who \notin invitedTo[c.board],
         c.kind = "remove" => c.who \notin wanted /\ c.who \in invitedTo[c.board],
         invitedTo' = [invitedTo EXCEPT ![c.board] = wanted], listReads' = Outdated(c.board),
         inviteCalls' = (inviteCalls \ {c}) \cup {[c EXCEPT !.step = "written"]},
         UNCHANGED <<onPage, modal, lookups, memberWords, unheardOf, inviteCrossed>>
  PROVE  DialogInv'
<1>1. InviteTypes /\ invitedTo \in [OwnBoards -> SUBSET Invitees] /\ ~c.reread
  BY DEF DialogInv, InviteTypes
<1>2. PICK d : d = [c EXCEPT !.step = "written"]
  OBVIOUS
<1>3. /\ d \in InviteCall /\ d.kind = c.kind /\ d.board = c.board /\ d.who = c.who /\ d.step = "written"
      /\ d.reread = c.reread /\ c \in InviteCall
  BY <1>1, <1>2, OneCallMoves
<1>4. inviteCalls' = (inviteCalls \ {c}) \cup {d}
  BY <1>2
<1>5. c.board \in OwnBoards /\ c.who \in Invitees /\ c.kind \in {"invite", "remove"}
  BY <1>3 DEF InviteCall
<1>6. /\ invitedTo' \in [OwnBoards -> SUBSET Invitees] /\ invitedTo'[c.board] = wanted
      /\ \A o \in OwnBoards : o # c.board => invitedTo'[o] = invitedTo[o]
  BY <1>1, <1>5
<1>7. (WordComes => WordComes') /\ (c.board = PageBoard => WordComes')
  BY <1>3, <1>4 DEF WordComes
<1>8. /\ ReadsAreSound' /\ OldIsHeardOf'
      /\ \A s \in listReads' : s \in InviteRead /\ (onPage => s.board = PageBoard) /\ (~s.read => ~s.old)
      /\ onPage /\ c.board # PageBoard /\ WillReadAgain => WillReadAgain'
  BY <1>6, <1>7, ReadsStaySound
<1>9. InviteTypes'
  BY <1>1, <1>3, <1>4, <1>6, <1>8 DEF InviteTypes
<1>10. ASSUME ~inviteCrossed' PROVE OnePerPerson' /\ (IsCurrent' => Follows')
  <2>1. OnePerPerson /\ (IsCurrent => Follows)
    BY <1>10 DEF DialogInv
  <2>2. OnePerPerson'
    BY <1>3, <1>4, <2>1 DEF OnePerPerson
  <2>3. ASSUME IsCurrent' PROVE Follows /\ modal.board \in OwnBoards
    <3>1. (modal.open => modal.board \in OwnBoards) /\ (onPage => modal.board = PageBoard)
      BY DEF DialogInv, InviteTypes
    <3>2. onPage => c.board # PageBoard
      BY <1>7, <2>3 DEF IsCurrent, WillReadAgain
    <3>3. ~WillReadAgain
      BY <1>8, <2>3, <3>2 DEF IsCurrent, WillReadAgain
    <3> QED
      BY <2>1, <2>3, <3>1, <3>3, InviteAssumption DEF IsCurrent, InviteAssumption
  <2>4. ASSUME Follows, modal.board # c.board, modal.board \in OwnBoards PROVE Follows'
    <3>1. invitedTo'[modal.board] = invitedTo[modal.board]
      BY <1>6, <2>4
    <3>2. \A p : ~ToCome(c, p) /\ ~ToCome(d, p)
      BY <1>3, <2>4 DEF ToCome
    <3> QED
      BY <1>4, <2>4, <3>1, <3>2 DEF Follows, ToCome, Lags
  <2>5. ASSUME Follows, modal.board = c.board PROVE Follows'
    <3>1. \A e \in inviteCalls : ~ToCome(e, c.who)
      BY <2>1, <2>5 DEF OnePerPerson, ToCome
    <3>2. modal.list[c.who] = IF c.who \in invitedTo[c.board] THEN 1 ELSE 0
      BY <1>5, <2>5, <3>1 DEF Follows
    <3>3. ToCome(d, c.who)' /\ \A p : p # c.who => ~ToCome(d, p)
      BY <1>1, <1>3, <2>5 DEF ToCome
    <3>4. Lags(d, c.who)'
      BY <1>3, <1>5, <1>6, <2>5, <3>2 DEF Lags
    <3>5. \A p : ~ToCome(c, p)
      BY DEF ToCome
    <3>6. ASSUME NEW p \in Invitees, p = c.who
          PROVE  /\ d \in inviteCalls' /\ ToCome(d, p)'
                 /\ \A e \in inviteCalls' : ToCome(e, p)' => Lags(e, p)'
      <4>1. ASSUME NEW e \in inviteCalls', ToCome(e, p)' PROVE e = d
        BY <1>4, <3>1, <3>6, <4>1 DEF ToCome
      <4> QED
        BY <1>4, <3>3, <3>4, <3>6, <4>1
    <3>7. ASSUME NEW p \in Invitees, p # c.who
          PROVE  /\ (\A e \in inviteCalls' : ~ToCome(e, p)') =>
                      modal'.list[p] = IF p \in invitedTo'[modal'.board] THEN 1 ELSE 0
                 /\ \A e \in inviteCalls' : ToCome(e, p)' => Lags(e, p)'
      <4>1. p \in wanted <=> p \in invitedTo[c.board]
        BY <3>7
      <4>2. \A e : ToCome(e, p)' = ToCome(e, p)
        BY DEF ToCome
      <4>3. \A e : Lags(e, p)' = Lags(e, p)
        BY <1>6, <2>5, <4>1 DEF Lags
      <4>4. /\ (\A e \in inviteCalls : ~ToCome(e, p)) => modal.list[p] = IF p \in invitedTo[modal.board] THEN 1 ELSE 0
            /\ \A e \in inviteCalls : ToCome(e, p) => Lags(e, p)
        BY <2>5 DEF Follows
      <4>5. \A e \in inviteCalls' : ToCome(e, p) => e \in inviteCalls
        BY <1>4, <3>3, <3>7
      <4>6. \A e \in inviteCalls : ToCome(e, p) => e \in inviteCalls'
        BY <1>4, <3>5
      <4> QED
        BY <1>6, <2>5, <4>1, <4>2, <4>3, <4>4, <4>5, <4>6
    <3> QED
      BY <3>6, <3>7 DEF Follows
  <2> QED
    BY <2>2, <2>3, <2>4, <2>5
<1> QED
  BY <1>8, <1>9, <1>10 DEF DialogInv

LEMMA WriteInvitationKeeps ==
  ASSUME DialogInv, NEW c, WriteInvitation(c)
  PROVE  DialogInv'
<1>1. PICK wanted : wanted = (IF c.kind = "invite" THEN invitedTo[c.board] \cup {c.who} ELSE invitedTo[c.board] \ {c.who})
  OBVIOUS
<1>2. /\ c \in inviteCalls /\ c.step = "asked"
      /\ invitedTo' = [invitedTo EXCEPT ![c.board] = wanted]
      /\ inviteCalls' = (inviteCalls \ {c}) \cup {[c EXCEPT !.step = IF wanted # invitedTo[c.board] THEN "written" ELSE "refused"]}
      /\ listReads' = IF wanted # invitedTo[c.board] THEN Outdated(c.board) ELSE listReads
      /\ UNCHANGED <<onPage, modal, lookups, memberWords, unheardOf, inviteCrossed>>
  BY <1>1 DEF WriteInvitation
<1>3. c \in InviteCall /\ invitedTo \in [OwnBoards -> SUBSET Invitees]
  BY <1>2 DEF DialogInv, InviteTypes
<1>4. c.board \in OwnBoards /\ c.who \in Invitees /\ c.kind \in {"invite", "remove"}
  BY <1>3 DEF InviteCall
<1>5. CASE wanted # invitedTo[c.board]
  <2>1. wanted \in SUBSET Invitees
    BY <1>1, <1>3, <1>4
  <2>2. /\ \A p \in Invitees \ {c.who} : p \in wanted <=> p \in invitedTo[c.board]
        /\ c.kind = "invite" => c.who \in wanted /\ c.who \notin invitedTo[c.board]
        /\ c.kind = "remove" => c.who \notin wanted /\ c.who \in invitedTo[c.board]
    BY <1>1, <1>4, <1>5
  <2>3. inviteCalls' = (inviteCalls \ {c}) \cup {[c EXCEPT !.step = "written"]} /\ listReads' = Outdated(c.board)
    BY <1>2, <1>5
  <2> QED
    BY <1>2, <2>1, <2>2, <2>3, WritingKeeps
<1>6. CASE wanted = invitedTo[c.board]
  <2>1. invitedTo' = invitedTo
    BY <1>2, <1>3, <1>6
  <2>2. inviteCalls' = (inviteCalls \ {c}) \cup {[c EXCEPT !.step = "refused"]} /\ listReads' = listReads
    BY <1>2, <1>6
  <2> QED
    BY <1>2, <2>1, <2>2, RefusalKeeps
<1> QED
  BY <1>5, <1>6

(* The answer of a call that was refused edits nothing; that of one which     *)
(* wrote, what the list lagged by.                                            *)
LEMMA InviteAnsweredKeeps ==
  ASSUME DialogInv, NEW c, InviteAnswered(c)
  PROVE  DialogInv'
<1>1. /\ InviteTypes /\ c \in inviteCalls /\ c.step \in {"told", "refused"} /\ c \in InviteCall
      /\ modal \in Dialog
  BY DEF InviteAnswered, DialogInv, InviteTypes
<1>2. c.who \in Invitees /\ c.kind \in {"invite", "remove"}
  BY <1>1 DEF InviteCall
<1>3. /\ inviteCalls' = inviteCalls \ {c}
      /\ UNCHANGED <<onPage, invitedTo, listReads, lookups, memberWords, unheardOf>>
  BY DEF InviteAnswered
<1>4. inviteCrossed' = (inviteCrossed \/ c.reread \/ (c.step = "told" /\ c.board # modal.board))
  BY DEF InviteAnswered
<1>5. /\ modal' \in Dialog /\ modal'.board = modal.board /\ modal'.open = modal.open
      /\ c.step = "refused" => modal'.list = modal.list
      /\ c.step = "told" => modal'.list = [modal.list EXCEPT ![c.who] = IF c.kind = "invite" THEN @ + 1 ELSE 0]
  <2>1. CASE c.step = "refused"
    BY <1>1, <2>1 DEF InviteAnswered
  <2>2. CASE c.step = "told" /\ c.kind = "invite"
    <3>1. PICK list : list = [modal.list EXCEPT ![c.who] = @ + 1]
      OBVIOUS
    <3>2. modal.list \in [Invitees -> Nat]
      BY <1>1 DEF Dialog
    <3>3. list \in [Invitees -> Nat]
      BY <1>2, <3>1, <3>2
    <3>4. modal' = [modal EXCEPT !.list = list, !.picked = NoneYet, !.offered = {}]
      BY <2>2, <3>1 DEF InviteAnswered
    <3> QED
      BY <1>1, <2>2, <3>1, <3>3, <3>4 DEF Dialog
  <2>3. CASE c.step = "told" /\ c.kind = "remove"
    <3>1. PICK list : list = [modal.list EXCEPT ![c.who] = 0]
      OBVIOUS
    <3>2. modal.list \in [Invitees -> Nat]
      BY <1>1 DEF Dialog
    <3>3. list \in [Invitees -> Nat]
      BY <1>2, <3>1, <3>2
    <3>4. modal' = [modal EXCEPT !.list = list]
      BY <2>3, <3>1 DEF InviteAnswered
    <3> QED
      BY <1>1, <2>3, <3>1, <3>3, <3>4 DEF Dialog
  <2> QED
    BY <1>1, <1>2, <2>1, <2>2, <2>3
<1>6. WordComes = WordComes'
  BY <1>1, <1>3 DEF WordComes
<1>7. InviteTypes'
  <2>1. inviteCrossed' \in BOOLEAN
    BY <1>1, <1>4 DEF InviteTypes, InviteCall
  <2> QED
    BY <1>1, <1>3, <1>5, <2>1 DEF InviteTypes
<1>8. ReadsAreSound' /\ OldIsHeardOf'
  BY <1>3, <1>6 DEF DialogInv, ReadsAreSound, OldIsHeardOf
<1>9. ASSUME ~inviteCrossed' PROVE OnePerPerson' /\ (IsCurrent' => Follows')
  <2>1. OnePerPerson /\ (IsCurrent => Follows) /\ ~c.reread /\ (c.step = "told" => c.board = modal.board)
    BY <1>4, <1>9 DEF DialogInv
  <2>2. OnePerPerson'
    BY <1>3, <2>1 DEF OnePerPerson
  <2>3. IsCurrent' => IsCurrent
    BY <1>3, <1>5, <1>6 DEF IsCurrent, WillReadAgain
  <2>4. \A e, p : ToCome(e, p)' = ToCome(e, p)
    BY <1>5 DEF ToCome
  <2>5. ASSUME Follows, c.step = "refused" PROVE Follows'
    <3>1. \A p : ~ToCome(c, p)
      BY <2>5 DEF ToCome
    <3> QED
      BY <1>3, <1>5, <2>4, <2>5, <3>1 DEF Follows, Lags
  <2>6. ASSUME Follows, c.step = "told" PROVE Follows'
    <3>1. ToCome(c, c.who) /\ \A p : p # c.who => ~ToCome(c, p)
      BY <2>1, <2>6 DEF ToCome
    <3>2. Lags(c, c.who)
      BY <1>1, <1>2, <2>6, <3>1 DEF Follows
    <3>3. modal.list \in [Invitees -> Nat]
      BY <1>1 DEF Dialog
    <3>4. modal'.list[c.who] = IF c.who \in invitedTo[modal.board] THEN 1 ELSE 0
      <4>1. CASE c.kind = "invite"
        BY <1>2, <1>5, <2>6, <3>2, <3>3, <4>1 DEF Lags
      <4>2. CASE c.kind = "remove"
        BY <1>2, <1>5, <2>6, <3>2, <3>3, <4>2 DEF Lags
      <4> QED
        BY <1>2, <4>1, <4>2
    <3>5. ASSUME NEW e \in inviteCalls', ToCome(e, c.who) PROVE FALSE
      <4>1. e.board = c.board /\ e.who = c.who
        BY <2>1, <2>6, <3>5 DEF ToCome
      <4>2. e \in inviteCalls /\ e # c
        BY <1>3
      <4> QED
        BY <1>1, <2>1, <4>1, <4>2 DEF OnePerPerson
    <3>6. ASSUME NEW p \in Invitees, p # c.who
          PROVE  /\ (\A e \in inviteCalls' : ~ToCome(e, p)') =>
                      modal'.list[p] = IF p \in invitedTo'[modal'.board] THEN 1 ELSE 0
                 /\ \A e \in inviteCalls' : ToCome(e, p)' => Lags(e, p)'
      <4>1. modal'.list[p] = modal.list[p]
        BY <1>5, <2>6, <3>3, <3>6
      <4>2. \A e : Lags(e, p)' = Lags(e, p)
        BY <1>3, <1>5, <4>1 DEF Lags
      <4>3. /\ (\A e \in inviteCalls : ~ToCome(e, p)) => modal.list[p] = IF p \in invitedTo[modal.board] THEN 1 ELSE 0
            /\ \A e \in inviteCalls : ToCome(e, p) => Lags(e, p)
        BY <2>6 DEF Follows
      <4>4. \A e \in inviteCalls : ToCome(e, p) => e \in inviteCalls'
        BY <1>3, <3>1, <3>6
      <4>5. inviteCalls' \subseteq inviteCalls
        BY <1>3
      <4> QED
        BY <1>3, <1>5, <2>4, <4>1, <4>2, <4>3, <4>4, <4>5
    <3> QED
      BY <1>3, <1>5, <2>4, <3>4, <3>5, <3>6 DEF Follows
  <2> QED
    BY <1>1, <2>1, <2>2, <2>3, <2>5, <2>6
<1> QED
  BY <1>7, <1>8, <1>9 DEF DialogInv

-----------------------------------------------------------------------------
LEMMA InviteStarts ==
  ASSUME NEW page \in BOOLEAN, InviteInit(page)
  PROVE  DialogInv
<1>1. PICK none : none = EachOf({}) /\ none \in [Invitees -> Nat] /\ \A p \in Invitees : none[p] = 0
  BY EachOfThem
<1>2. PICK board : board = IF page THEN PageBoard ELSE NoneYet
  OBVIOUS
<1>3. board \in OwnBoards \cup {NoneYet} /\ (page => board = PageBoard) /\ PageBoard \in OwnBoards
  BY <1>2, InviteAssumption DEF InviteAssumption
<1>4. modal = [board |-> board, open |-> FALSE, list |-> none, picked |-> NoneYet, offered |-> {}, latest |-> 0]
  BY <1>1, <1>2 DEF InviteInit
<1>5. modal \in Dialog /\ modal.board = board /\ ~modal.open /\ modal.list = none
  BY <1>1, <1>3, <1>4 DEF Dialog
<1>6. /\ onPage = page /\ invitedTo = [b \in OwnBoards |-> {}] /\ listReads = {} /\ lookups = {}
      /\ inviteCalls = {} /\ memberWords = 0 /\ inviteCrossed = FALSE
  BY DEF InviteInit
<1>7. InviteTypes
  BY <1>3, <1>5, <1>6 DEF InviteTypes
<1>8. ReadsAreSound /\ OldIsHeardOf /\ OnePerPerson
  BY <1>6 DEF ReadsAreSound, OldIsHeardOf, OnePerPerson
<1>9. IsCurrent => Follows
  BY <1>1, <1>3, <1>5, <1>6 DEF IsCurrent, Follows
<1> QED
  BY <1>7, <1>8, <1>9 DEF DialogInv

LEMMA InviteStepKeeps ==
  ASSUME DialogInv, [InviteNext]_inviteVars
  PROVE  DialogInv'
<1>1. ASSUME UNCHANGED inviteVars PROVE DialogInv'
  <2>1. modal' = modal /\ modal \in Dialog /\ \A u \in lookups' : u.users \subseteq Invitees
    BY <1>1 DEF inviteVars, DialogInv, InviteTypes
  <2> QED
    BY <1>1, <2>1, InDialogOnly DEF inviteVars
<1>2. ASSUME NEW b \in OwnBoards, OpenInvite(b) \/ \E p \in Invitees : ChangeElsewhere(b, p) PROVE DialogInv'
  BY <1>2, OpenInviteKeeps, ChangeElsewhereKeeps
<1>3. ASSUME NEW r \in listReads, ReadInvitations(r) \/ InvitationsArrive(r) \/ InvitationsFail(r) PROVE DialogInv'
  BY <1>3, ReadInvitationsKeeps, InvitationsArriveKeeps, InvitationsFailKeeps
<1>4. ASSUME NEW p \in Invitees, Pick(p) \/ RemoveInvitation(p) PROVE DialogInv'
  BY <1>4, PickKeeps, AskingKeeps
<1>5. ASSUME NEW c \in inviteCalls, WriteInvitation(c) \/ TellBoard(c) \/ InviteAnswered(c) PROVE DialogInv'
  BY <1>5, WriteInvitationKeeps, TellBoardKeeps, InviteAnsweredKeeps
<1>6. ASSUME OpenInviteModal \/ CloseInvite \/ HearMembers \/ FetchUsers PROVE DialogInv'
  BY <1>6, OpenOrCloseKeeps, HearMembersKeeps, FetchUsersKeeps
<1>7. ASSUME CreateInvitation PROVE DialogInv'
  <2>1. modal.picked \in Invitees
    BY <1>7 DEF CreateInvitation, DialogInv, InviteTypes, Dialog
  <2> QED
    BY <1>7, <2>1, AskingKeeps
<1>8. ASSUME NEW u \in lookups, UsersArrive(u) PROVE DialogInv'
  BY <1>8, UsersArriveKeeps
<1> QED
  BY <1>1, <1>2, <1>3, <1>4, <1>5, <1>6, <1>7, <1>8 DEF InviteNext

LEMMA DialogInvTells ==
  ASSUME DialogInv
  PROVE  ListIsRight
<1> SUFFICES ASSUME modal.open, InviteQuiet, ~inviteCrossed, modal.board \notin unheardOf
             PROVE  modal.list = EachOf(invitedTo[modal.board])
  BY DEF ListIsRight
<1>1. ~WillReadAgain
  BY DEF InviteQuiet, WillReadAgain, WordComes
<1>2. Follows
  BY <1>1 DEF DialogInv, IsCurrent
<1>3. \A p \in Invitees : modal.list[p] = IF p \in invitedTo[modal.board] THEN 1 ELSE 0
  BY <1>2 DEF Follows, InviteQuiet
<1>4. modal.list \in [Invitees -> Nat]
  BY DEF DialogInv, InviteTypes, Dialog
<1> QED
  BY <1>3, <1>4 DEF EachOf

(* A dialog that is open lists the people of the board it names, each once,   *)
(* when nothing is under way any more (InviteModal.vue:191).                  *)
THEOREM DialogListsWhoIsThere == InviteSpec => []ListIsRight
<1>1. (\E page \in BOOLEAN : InviteInit(page)) => DialogInv
  BY InviteStarts
<1>2. DialogInv /\ [InviteNext]_inviteVars => DialogInv'
  BY InviteStepKeeps
<1>3. DialogInv => ListIsRight
  BY DialogInvTells
<1> QED
  BY <1>1, <1>2, <1>3, PTL DEF InviteSpec

=============================================================================
