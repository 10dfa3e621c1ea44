----------------------------- MODULE Presence -----------------------------
(***************************************************************************)
(* Who is online: the server's connection registry                         *)
(* (server/src/websocket/connection.registry.ts), the connection, close    *)
(* and heartbeat handlers of ChatWebSocketServer (websocket.server.ts),    *)
(* the broadcasts of PresenceHandler (presence.handler.ts), and on every   *)
(* browser tab the userStore that wsListeners.ts feeds with them.          *)
(*                                                                         *)
(* The server is one thread and none of these handlers awaits, so a        *)
(* handler is one action.  Between server and tab lies a FIFO connection   *)
(* whose two ends learn of its end at different times, or never: a tab     *)
(* that gave up may have a successor connected while the server still      *)
(* counts the old socket.                                                  *)
(***************************************************************************)
EXTENDS Naturals, Sequences

CONSTANTS
    Users,          \* accounts
    Tabs,           \* browser tabs
    UserOf,         \* [Tabs -> Users], who is signed in on each tab
    Watched,        \* the tabs whose events and list are followed; lists
                    \* influence nothing, so one at a time is enough
    Sockets,        \* identities of connections, reused once both ends let go;
                    \* the lowest free one is taken, as they carry no meaning
    MaxInFlight,    \* bound: events under way when another tab connects
    NONE

ASSUME UserOfAssumption == UserOf \in [Tabs -> Users] /\ Watched \subseteq Tabs
ASSUME SocketsAssumption == Sockets \subseteq Nat
ASSUME NoneAssumption   == NONE \notin Sockets \cup Users
ASSUME BoundAssumption  == MaxInFlight \in Nat

VARIABLES
    readyState,  \* [Sockets -> ...] the server's end of each connection
    owner,       \* socket.userId of each connection that is not closed
    registry,    \* userConnections; a user with no sockets has no entry
    isAlive,     \* socket.isAlive, as a set of sockets
    gone,        \* connections whose browser end is gone
    tabSocket,   \* [Tabs -> ...] the connection each tab is using
    inbox,       \* [Watched -> Seq(...)] events on that connection, in order
    onlineUsers, \* [Watched -> SUBSET Users], userStore.onlineUsers
    kept         \* tabs whose onlineUsers predates their last connection

serverVars == <<readyState, owner, registry, isAlive>>
tabVars    == <<tabSocket, onlineUsers, kept>>
vars == <<serverVars, gone, inbox, tabVars>>

\* user_online and presence_snapshot say who is online, user_offline who is
\* not: all three are a list of users and a flag.
Events == [ids : SUBSET Users, online : BOOLEAN]

TypeOK ==
    /\ readyState \in [Sockets -> {"open", "closing", "closed"}]
    /\ owner \in [Sockets -> Users \cup {NONE}]
    /\ registry \in [Users -> SUBSET Sockets]
    /\ isAlive \subseteq Sockets
    /\ gone \subseteq Sockets
    /\ inbox \in [Watched -> Seq(Events)]
    /\ tabSocket \in [Tabs -> Sockets \cup {NONE}]
    /\ onlineUsers \in [Watched -> SUBSET Users]
    /\ kept \subseteq Watched

Init ==
    /\ readyState = [s \in Sockets |-> "closed"]
    /\ owner = [s \in Sockets |-> NONE]
    /\ registry = [u \in Users |-> {}]
    /\ isAlive = {}
    /\ gone = {}
    /\ inbox = [t \in Watched |-> <<>>]
    /\ tabSocket = [t \in Tabs |-> NONE]
    /\ onlineUsers = [t \in Watched |-> {}]
    /\ kept = {}

----------------------------------------------------------------------------
\* getConnectedUsers: the registry's keys.
Connected == {u \in Users : registry[u] # {}}

\* handleClose: is this the user's last connection?
AnyConnection(s) == TRUE                                             \* mutant
CheckedBeforeSplice(s) == registry[owner[s]] = {}                    \* mutant
LastConnection(s) == registry[owner[s]] = {s}

\* The heartbeat asks everyone for a new sign of life.
TrustForever == isAlive' = isAlive                                   \* mutant
AskAgain == isAlive' = {}

\* A connection neither end knows about any more.
Unused(s) == /\ readyState[s] = "closed"
             /\ \A t \in Tabs : tabSocket[t] # s

Online(ids)  == [ids |-> ids, online |-> TRUE]
Offline(ids) == [ids |-> ids, online |-> FALSE]

\* A tab whose connection is open at both ends.
Listening(t) == tabSocket[t] # NONE /\ readyState[tabSocket[t]] = "open"

\* An event put on every connection that is open at the server
\* (wss.clients.forEach with the readyState check).
Broadcast(e) ==
    [t \in Watched |-> IF Listening(t) THEN Append(inbox[t], e) ELSE inbox[t]]

----------------------------------------------------------------------------
(***************************************************************************)
(* The server.                                                             *)
(***************************************************************************)
\* What everyone is told of a new connection, and what the new connection
\* is told: the broadcast that it is online, which reaches it too, and then
\* the snapshot of the others.
Welcome(t) ==
    [x \in Watched |->
        IF x = t THEN <<Online({UserOf[t]}), Online(Connected \ {UserOf[t]})>>
                 ELSE Broadcast(Online({UserOf[t]}))[x]]

\* wss 'connection' for a tab with a valid token.
Connect(t, s) ==
    /\ tabSocket[t] = NONE
    /\ Unused(s) /\ \A x \in Sockets : Unused(x) => s <= x
    /\ \A x \in Watched : Len(inbox[x]) <= MaxInFlight
    /\ readyState' = [readyState EXCEPT ![s] = "open"]
    /\ owner' = [owner EXCEPT ![s] = UserOf[t]]
    /\ registry' = [registry EXCEPT ![UserOf[t]] = @ \cup {s}]
    /\ isAlive' = isAlive \cup {s}
    /\ inbox' = Welcome(t)
    /\ tabSocket' = [tabSocket EXCEPT ![t] = s]
    /\ UNCHANGED <<gone, onlineUsers, kept>>

\* The connection starts to end at the server: the browser closed it or it
\* broke.  Broadcasts skip it from here on.
BeginClose(s) ==
    /\ readyState[s] = "open"
    /\ readyState' = [readyState EXCEPT ![s] = "closing"]
    /\ UNCHANGED <<owner, registry, isAlive, gone, inbox, tabVars>>

\* handleClose: leave the registry; the last connection of a user takes the
\* user offline.
HandleClose(s) ==
    /\ readyState[s] = "closing"
    /\ readyState' = [readyState EXCEPT ![s] = "closed"]
    /\ registry' = [registry EXCEPT ![owner[s]] = @ \ {s}]
    /\ inbox' = IF LastConnection(s)
                THEN Broadcast(Offline({owner[s]})) ELSE inbox
    /\ isAlive' = isAlive \ {s}
    /\ gone' = gone \ {s}
    /\ owner' = [owner EXCEPT ![s] = NONE]
    /\ UNCHANGED tabVars

\* The heartbeat interval: terminate who has not answered since the last
\* ping, ping the others.
Heartbeat ==
    /\ \E s \in Sockets : readyState[s] # "closed"
    /\ readyState' = [s \in Sockets |->
                        IF readyState[s] = "open" /\ s \notin isAlive
                        THEN "closing" ELSE readyState[s]]
    /\ AskAgain
    /\ UNCHANGED <<owner, registry, gone, inbox, tabVars>>

\* A browser that is still there answers the ping.
Pong(s) ==
    /\ readyState[s] = "open"
    /\ s \notin gone \cup isAlive
    /\ isAlive' = isAlive \cup {s}
    /\ UNCHANGED <<readyState, owner, registry, gone, inbox, tabVars>>

\* The server process dies and starts again with an empty registry.
Restart ==
    /\ readyState' = [s \in Sockets |-> "closed"]
    /\ registry' = [u \in Users |-> {}]
    /\ isAlive' = {}
    /\ gone' = {}
    /\ owner' = [s \in Sockets |-> NONE]
    /\ UNCHANGED <<inbox, tabVars>>

----------------------------------------------------------------------------
(***************************************************************************)
(* The tabs.                                                               *)
(***************************************************************************)
\* setOnline for each user an event names.
Apply(view, e) == IF e.online THEN view \cup e.ids ELSE view \ e.ids

\* The next event reaches the tab.
Deliver(t) ==
    /\ inbox[t] # <<>>
    /\ onlineUsers' = [onlineUsers EXCEPT ![t] = Apply(@, Head(inbox[t]))]
    /\ inbox' = [inbox EXCEPT ![t] = Tail(@)]
    /\ UNCHANGED <<serverVars, gone, tabSocket, kept>>

\* The tab's end of the connection is over: what was under way is lost, and
\* the server still has to find out unless its end closed first.
LetGo(t) ==
    /\ tabSocket[t] # NONE
    /\ tabSocket' = [tabSocket EXCEPT ![t] = NONE]
    /\ inbox' = [x \in Watched |-> IF x = t THEN <<>> ELSE inbox[x]]
    /\ gone' = IF readyState[tabSocket[t]] = "closed" THEN gone
               ELSE gone \cup {tabSocket[t]}
    /\ UNCHANGED serverVars

\* The connection dropped: the page lives on and will reconnect.
Drop(t) ==
    /\ LetGo(t)
    /\ kept' = kept \cup ({t} \cap Watched)
    /\ UNCHANGED onlineUsers

\* Logout (userStore.clear) or leaving the page.
Leave(t) ==
    /\ LetGo(t)
    /\ kept' = kept \ {t}
    /\ onlineUsers' = [x \in Watched |-> IF x = t THEN {} ELSE onlineUsers[x]]

----------------------------------------------------------------------------
Next ==
    \/ \E t \in Tabs, s \in Sockets : Connect(t, s)
    \/ \E s \in Sockets : BeginClose(s)
    \/ \E s \in Sockets : HandleClose(s)
    \/ Heartbeat
    \/ \E s \in Sockets : Pong(s)
    \/ Restart
    \/ \E t \in Watched : Deliver(t)
    \/ \E t \in Tabs : Drop(t)
    \/ \E t \in Tabs : Leave(t)

Spec == Init /\ [][Next]_vars

(***************************************************************************)
(* Fairness: the heartbeat interval fires again and again, and a socket    *)
(* that is closing gets its 'close' event.  Nothing is asked of browsers   *)
(* or of the network.                                                      *)
(***************************************************************************)
FairSpec == /\ Spec
            /\ WF_vars(Heartbeat)
            /\ \A s \in Sockets : WF_vars(HandleClose(s))

----------------------------------------------------------------------------
(***************************************************************************)
(* What presence promises.                                                 *)
(***************************************************************************)
\* Whether a view will show u once every event of q has reached it: the last
\* event about u decides, and the view itself if there is none.
WillShow(view, q, u) ==
    \/ \E i \in DOMAIN q : /\ u \in q[i].ids
                           /\ q[i].online
                           /\ \A j \in DOMAIN q : j > i => u \notin q[j].ids
    \/ u \in view /\ \A j \in DOMAIN q : u \notin q[j].ids

Shown(t) == {u \in Users : WillShow(onlineUsers[t], inbox[t], u)}

\* Whoever the registry holds is, or is about to be, shown online on every
\* connected tab: no join is lost, whatever the order of connects, closes and
\* terminations and however late the events (broadcastUserOnline,
\* sendPresenceSnapshot, handleClose).
NobodyMissing == \A t \in Watched : Listening(t) => Connected \subseteq Shown(t)

\* A tab that connected with an empty list shows nobody else: no departure
\* is lost, and closing one of several tabs takes nobody offline.
NoGhosts == \A t \in Watched : Listening(t) /\ t \notin kept => Shown(t) \subseteq Connected

\* A user whose tabs have all gone does not stay online: the heartbeat finds
\* a connection that ended without a word.
LeaversGoOffline ==
    \A u \in Users :
        (\A t \in Tabs : UserOf[t] = u => tabSocket[t] = NONE)
            ~> (u \notin Connected \/ \E t \in Tabs : UserOf[t] = u /\ tabSocket[t] # NONE)
=============================================================================
