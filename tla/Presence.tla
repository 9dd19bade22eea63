------------------------------- MODULE Presence -------------------------------
(* Who has a card open, as every tab of one board sees it: the socket plugin  *)
(* (server/plugins/socket.io.ts) with its in-memory maps, and the tabs        *)
(* (Connection.client.vue for the board, CardModal.vue for the open card).    *)
(* A connection delivers in order both ways.  Its handlers do not finish in   *)
(* order: joinBoard and joinCard wait for the database, leaveCard and         *)
(* disconnect do not.  A tab that reconnects gets its old socket back, with   *)
(* its rooms and what it missed, if the server has noticed the drop and still *)
(* remembers (connectionStateRecovery), and a new one otherwise.              *)

EXTENDS Naturals, Sequences, FiniteSets

CONSTANTS
  Tabs,
  UserOf,     \* who is signed in, in each tab
  Cards, NoCard,
  MaxConns,   \* bound: sockets of one tab
  MaxActs,    \* bound: cards opened and closed
  MaxFaults   \* bound: drops and restarts

ASSUME PresenceAssumption == NoCard \notin Cards /\ MaxConns \in Nat

VARIABLES
  tab,        \* open: the card shown; online; n: the number of its socket
  up,         \* tab -> what it has sent, or will send when it is online again
  seen,       \* tab -> the faces on the board's tiles (cardViewers)
  viewers,    \* tab -> the faces in the open card
  status,     \* socket -> "live", "kept" for recovery, or "gone"
  down,       \* socket -> what the server has sent it
  pending,    \* joins waiting for the database: <<socket, what>>
  board,      \* sockets in the board's room
  room,       \* card -> sockets in the card's room
  cardPresence,   \* card -> sockets
  cardBoard,      \* the cards whose board is known
  acts        \* how often each has been

client == <<tab, up, seen, viewers>>
server == <<status, down, pending, board, room, cardPresence, cardBoard>>
vars == <<client, server, acts>>

Sockets == Tabs \X (1..MaxConns)
Socket(t) == <<t, tab[t].n>>
User(t) == UserOf[t]
Users == {User(t) : t \in Tabs}
Messages == {<<"joinBoard", NoCard>>} \cup ({"joinCard", "leaveCard"} \X Cards)

Init ==
  /\ tab = [t \in Tabs |-> [open |-> NoCard, online |-> FALSE, n |-> 0]]
  /\ up = [t \in Tabs |-> << >>]
  /\ seen = [t \in Tabs |-> [c \in Cards |-> {}]]
  /\ viewers = [t \in Tabs |-> {}]
  /\ status = [k \in Sockets |-> "gone"]
  /\ down = [k \in Sockets |-> << >>]
  /\ pending = {}
  /\ board = {}
  /\ room = [c \in Cards |-> {}]
  /\ cardPresence = [c \in Cards |-> {}]
  /\ cardBoard = {}
  /\ acts = [cards |-> 0, faults |-> 0]

Act == acts.cards < MaxActs /\ acts' = [acts EXCEPT !.cards = @ + 1]
Fault == acts.faults < MaxFaults /\ acts' = [acts EXCEPT !.faults = @ + 1]

-----------------------------------------------------------------------------
(* The server *)

Faces(presence, c) == {User(k[1]) : k \in presence[c]}

\* `news` is a sequence of packets for each socket; a socket of the past hears nothing
Send(news) ==
  down' = [k \in Sockets |-> IF status'[k] = "gone" THEN << >> ELSE down[k] \o news[k]]

(* broadcastPresence of some cards: to the card's room, and to the board's if *)
(* that is known.  Packets sent one after the other are one here.             *)
Broadcast(presence, known, cs) ==
  [k \in Sockets |->
     LET of == {c \in cs : k \in room'[c] \/ (c \in known /\ k \in board)}
     IN IF of = {} THEN << >>
        ELSE << [kind |-> "card", of |-> of, users |-> [c \in of |-> Faces(presence, c)]] >>]

(* dropPresence of a socket from the cards it was on: the board hears of it,  *)
(* then a card with nobody left on it is forgotten.                           *)
Emptied(presence, cs) == {c \in cs : presence[c] = {}}

ForgetThenTell(presence, cs) ==
  /\ cardBoard' = cardBoard \ Emptied(presence, cs)
  /\ Send(Broadcast(presence, cardBoard \ Emptied(presence, cs), cs))

TellThenForget(presence, cs) ==
  /\ Send(Broadcast(presence, cardBoard, cs))
  /\ cardBoard' = cardBoard \ Emptied(presence, cs)

(* The next message of a tab arrives. *)
Hear(t) ==
  LET k    == Socket(t)
      kind == Head(up[t])[1]
      c    == Head(up[t])[2]
      left == [cardPresence EXCEPT ![c] = @ \ {k}]
  IN
  /\ tab[t].online /\ up[t] # << >>
  /\ up' = [up EXCEPT ![t] = Tail(@)]
  /\ CASE kind = "leaveCard" ->
            /\ room' = [room EXCEPT ![c] = @ \ {k}]
            /\ cardPresence' = left
            /\ UNCHANGED status
            /\ TellThenForget(left, {d \in {c} : k \in cardPresence[c]})
            /\ UNCHANGED pending
       [] OTHER ->
            /\ pending' = pending \cup {<<k, c>>}
            /\ UNCHANGED <<status, down, room, cardPresence, cardBoard>>
  /\ UNCHANGED <<tab, seen, viewers, board, acts>>

(* joinBoard after its await: into the room, and the snapshot to the joiner.  *)
FinishJoinBoard(k) ==
  /\ <<k, NoCard>> \in pending
  /\ pending' = pending \ {<<k, NoCard>>}
  /\ board' = IF status[k] = "live" THEN board \cup {k} ELSE board
  /\ down' = IF status[k] = "live"
               THEN [down EXCEPT ![k] = Append(@,
                      [kind |-> "board", of |-> Cards,
                       users |-> [c \in Cards |-> IF c \in cardBoard
                                                    THEN Faces(cardPresence, c) ELSE {}]])]
               ELSE down
  /\ UNCHANGED <<client, status, room, cardPresence, cardBoard, acts>>

(* joinCard after its awaits: nobody asks whether the socket is still there,  *)
(* or still wants to be on the card.                                          *)
FinishJoinCard(k, c) ==
  LET joined == [cardPresence EXCEPT ![c] = @ \cup {k}] IN
  /\ <<k, c>> \in pending
  /\ pending' = pending \ {<<k, c>>}
  /\ room' = IF status[k] = "live" THEN [room EXCEPT ![c] = @ \cup {k}] ELSE room
  /\ cardPresence' = joined
  /\ cardBoard' = cardBoard \cup {c}
  /\ UNCHANGED status
  /\ Send(Broadcast(joined, cardBoard \cup {c}, {c}))
  /\ UNCHANGED <<client, board, acts>>

(* The connection of k is gone, and the tab may be back on another.           *)
Lost(k) == status[k] = "live" /\ ~ (tab[k[1]].online /\ Socket(k[1]) = k)

(* "disconnect": dropPresence on every card.  The session is kept for a while. *)
Disconnect(k) ==
  LET here == {c \in Cards : k \in cardPresence[c]}
      left == [c \in Cards |-> cardPresence[c] \ {k}]
  IN
  /\ Lost(k)
  /\ status' = [status EXCEPT ![k] = "kept"]
  /\ cardPresence' = left
  /\ UNCHANGED <<room, board>>
  /\ TellThenForget(left, here)
  /\ UNCHANGED <<client, pending, acts>>

(* Two minutes have passed, or the tab hung up on purpose: nothing is kept.   *)
Expire(k) ==
  /\ status[k] = "kept"
  /\ status' = [status EXCEPT ![k] = "gone"]
  /\ down' = [down EXCEPT ![k] = << >>]
  /\ board' = board \ {k}
  /\ room' = [c \in Cards |-> room[c] \ {k}]
  /\ UNCHANGED <<client, pending, cardPresence, cardBoard, acts>>

(* The process is replaced; everything above was in its memory.               *)
Restart ==
  /\ Fault
  /\ status' = [k \in Sockets |-> "gone"]
  /\ down' = [k \in Sockets |-> << >>]
  /\ pending' = {}
  /\ board' = {}
  /\ room' = [c \in Cards |-> {}]
  /\ cardPresence' = [c \in Cards |-> {}]
  /\ cardBoard' = {}
  /\ tab' = [t \in Tabs |-> [tab[t] EXCEPT !.online = FALSE]]
  /\ up' = [t \in Tabs |-> IF tab[t].online THEN << >> ELSE up[t]]
  /\ UNCHANGED <<seen, viewers>>

-----------------------------------------------------------------------------
(* The tabs *)

Emit(t, message) == up' = [up EXCEPT ![t] = Append(@, message)]

(* The listeners of "connect": joinBoard, then joinCardRoom of an open card   *)
Announce(t) ==
  IF tab[t].open = NoCard
    THEN << <<"joinBoard", NoCard>> >>
    ELSE << <<"joinBoard", NoCard>>, <<"joinCard", tab[t].open>> >>

(* What was emitted offline goes first. *)
ComesUp(t, n) ==
  /\ ~ tab[t].online
  /\ tab' = [tab EXCEPT ![t].online = TRUE, ![t].n = n]
  /\ status' = [status EXCEPT ![<<t, n>>] = "live"]
  /\ up' = [up EXCEPT ![t] = @ \o Announce(t)]
  /\ UNCHANGED <<seen, viewers, down, pending, board, room, cardPresence, cardBoard, acts>>

Connect(t) == tab[t].n < MaxConns /\ ComesUp(t, tab[t].n + 1)

Recover(t) == tab[t].n > 0 /\ status[Socket(t)] = "kept" /\ ComesUp(t, tab[t].n)

(* The network, a hidden tab or a closed lid; what was on its way up is lost. *)
Drop(t) ==
  /\ tab[t].online
  /\ tab' = [tab EXCEPT ![t].online = FALSE]
  /\ up' = [up EXCEPT ![t] = << >>]
  /\ Fault
  /\ UNCHANGED <<seen, viewers, server>>

Open(t, c) ==
  /\ tab[t].open = NoCard /\ tab[t].n > 0
  /\ Act
  /\ tab' = [tab EXCEPT ![t].open = c]
  /\ viewers' = [viewers EXCEPT ![t] = {}]
  /\ Emit(t, <<"joinCard", c>>)
  /\ UNCHANGED <<seen, server>>

Close(t) ==
  /\ tab[t].open # NoCard
  /\ Act
  /\ tab' = [tab EXCEPT ![t].open = NoCard]
  /\ Emit(t, <<"leaveCard", tab[t].open>>)
  /\ UNCHANGED <<seen, viewers, server>>

(* "cardPresence" is one card, "boardPresence" all of them.                   *)
Read(t) ==
  LET k == Socket(t)
      p == Head(down[k])
      c == tab[t].open
  IN
  /\ tab[t].online /\ down[k] # << >>
  /\ down' = [down EXCEPT ![k] = Tail(@)]
  /\ seen' = [seen EXCEPT ![t] = [d \in Cards |-> IF d \in p.of THEN p.users[d] ELSE @[d]]]
  /\ viewers' = IF p.kind = "card" /\ c \in p.of THEN [viewers EXCEPT ![t] = p.users[c]] ELSE viewers
  /\ UNCHANGED <<tab, up, status, pending, board, room, cardPresence, cardBoard, acts>>

Next ==
  \/ \E t \in Tabs : Connect(t) \/ Recover(t) \/ Drop(t) \/ Close(t) \/ Read(t) \/ Hear(t)
  \/ \E t \in Tabs, c \in Cards : Open(t, c)
  \/ \E k \in Sockets : FinishJoinBoard(k) \/ Disconnect(k) \/ Expire(k)
  \/ \E k \in Sockets, c \in Cards : FinishJoinCard(k, c)
  \/ Restart

Spec == Init /\ [][Next]_vars

-----------------------------------------------------------------------------
(* Properties *)

(* Tabs send the messages there are, and every map holds sockets and users.   *)
TypeOK ==
  /\ \A t \in Tabs : /\ tab[t].open \in Cards \cup {NoCard} /\ tab[t].n \in 0..MaxConns
                     /\ \A i \in DOMAIN up[t] : up[t][i] \in Messages
                     /\ seen[t] \in [Cards -> SUBSET Users]
                     /\ viewers[t] \in SUBSET Users
  /\ status \in [Sockets -> {"live", "kept", "gone"}]
  /\ pending \subseteq Sockets \X (Cards \cup {NoCard})
  /\ board \subseteq Sockets
  /\ room \in [Cards -> SUBSET Sockets]
  /\ cardPresence \in [Cards -> SUBSET Sockets]
  /\ cardBoard \subseteq Cards

(* Everything the tab has sent was handled and everything it was sent, read.  *)
CaughtUp(t) ==
  /\ tab[t].online /\ up[t] = << >>
  /\ down[Socket(t)] = << >>
  /\ \A p \in pending : p[1] # Socket(t)

(* No presence change is missed: a tab that is caught up - after drops,       *)
(* recoveries, restarts and snapshots in any order - shows on its tiles and   *)
(* in its open card the faces the server holds.                               *)
SeenIsServed ==
  \A t \in Tabs : CaughtUp(t) =>
    /\ \A c \in Cards : seen[t][c] = Faces(cardPresence, c)
    /\ tab[t].open # NoCard => viewers[t] = Faces(cardPresence, tab[t].open)

(* Whoever has a card open is on it: a tab that is caught up is never missing *)
(* from the card it shows, whatever became of its other sockets and of the    *)
(* person's other tabs (CardModal.vue 1460: "re-announce instead of silently  *)
(* vanishing").                                                               *)
PresentWhileOpen ==
  \A t \in Tabs :
    (CaughtUp(t) /\ tab[t].open # NoCard) => Socket(t) \in cardPresence[tab[t].open]

(* The faces are those the server holds, and the server holds whoever is      *)
(* looking.                                                                   *)
FacesAreRight == SeenIsServed /\ PresentWhileOpen

(* What the changelog promises (CHANGELOG.md:1355): presence clears when the  *)
(* modal closes or the connection drops.  Once the server has nothing left to *)
(* finish, only a live socket is on a card, and its tab shows that card or    *)
(* has not been heard yet.                                                    *)
PresenceClears ==
  pending = {} =>
    \A c \in Cards : \A k \in cardPresence[c] :
      /\ status[k] = "live"
      /\ \/ Lost(k)
         \/ tab[k[1]].open = c
         \/ up[k[1]] # << >>

=============================================================================
