--------------------------- MODULE ClientSocket ---------------------------
(***************************************************************************)
(* The browser's WebSocketService (client/src/shared/lib/websocket.ts):    *)
(* one page, its current socket, the sockets it has let go of but that     *)
(* have not closed yet, the offline queue, the reconnect timer with its    *)
(* bounded retries, and the ping/pong heartbeat.  The module also holds    *)
(* the three places that drive the service: authStore's login and logout,  *)
(* and a page load, which restores the session kept in localStorage.       *)
(*                                                                         *)
(* JavaScript runs each callback to completion, so one callback is one     *)
(* action.  The browser's side of a socket - handshake, close handshake, a *)
(* connection that breaks or falls silent - is the environment's choice.   *)
(***************************************************************************)
EXTENDS Naturals, Sequences, SequencesExt

CONSTANTS
    Users,                  \* accounts that sign in on this page
    Sockets,                \* identities for the `new WebSocket` objects
    MaxReconnectAttempts,   \* maxReconnectAttempts (8 in the code)
    MaxLogins,              \* bound: sign-ins and page loads in a behaviour
    MaxQueue,               \* bound: payloads waiting in the offline queue
    NONE                    \* JavaScript's null

ASSUME NoneAssumption == NONE \notin Users \cup Sockets
ASSUME MaxAssumption  == MaxReconnectAttempts \in Nat \ {0}
ASSUME BoundsAssumption == MaxLogins \in Nat /\ MaxQueue \in Nat

VARIABLES
    readyState,        \* [Sockets -> ...] the browser's state of each socket
    auth,              \* [Sockets -> ...] whose token is in the socket's URL
                       \* (NONE once the socket is closed)
    silent,            \* open sockets whose peer will never answer again
    socket,            \* this.socket
    socketsToClose,    \* this.socketsToClose
    reconnectAttempts, \* this.reconnectAttempts
    reconnectTimer,    \* this.reconnectTimer is set
    token,             \* this.token, named by the account it belongs to
    manualClose,       \* this.manualClose
    queue,             \* this.queue: for each payload, who was signed in
    heartbeatTimer,    \* this.heartbeatTimer is set
    pongTimer,         \* this.pongTimer is set
    user,              \* authStore.user (NONE when signed out)
    status,            \* chatStore.connectionStatus
    carried,           \* history: <<sender's session, socket's account>>
    logins             \* counts sign-ins and page loads, for MaxLogins

sockVars  == <<readyState, auth, silent>>
beatVars  == <<heartbeatTimer, pongTimer>>
retryVars == <<reconnectAttempts, reconnectTimer>>
authVars  == <<token, manualClose, user, logins>>
vars == <<sockVars, socket, socketsToClose, retryVars, beatVars, queue,
          status, carried, authVars>>

ReadyStates == {"connecting", "open", "closing", "closed"}
Statuses == {"connecting", "connected", "reconnecting", "disconnected", "error"}
Senders  == Users \cup {NONE}

TypeOK ==
    /\ readyState \in [Sockets -> ReadyStates]
    /\ auth \in [Sockets -> Senders]
    /\ silent \subseteq Sockets
    /\ socket \in Sockets \cup {NONE}
    /\ socketsToClose \subseteq Sockets
    /\ reconnectAttempts \in 0..MaxReconnectAttempts
    /\ token \in Senders
    /\ user \in Senders
    /\ queue \in Seq(Senders)
    /\ status \in Statuses
    /\ carried \subseteq Senders \X Users
    /\ logins \in 0..MaxLogins
    /\ reconnectTimer \in BOOLEAN /\ manualClose \in BOOLEAN
    /\ heartbeatTimer \in BOOLEAN /\ pongTimer \in BOOLEAN

(***************************************************************************)
(* A page that has just been loaded.                                       *)
(***************************************************************************)
Init ==
    /\ readyState = [s \in Sockets |-> "closed"]
    /\ auth = [s \in Sockets |-> NONE]
    /\ silent = {}
    /\ socket = NONE
    /\ socketsToClose = {}
    /\ reconnectAttempts = 0
    /\ reconnectTimer = FALSE
    /\ token = NONE
    /\ manualClose = FALSE
    /\ queue = <<>>
    /\ heartbeatTimer = FALSE
    /\ pongTimer = FALSE
    /\ user = NONE
    /\ status = "disconnected"
    /\ carried = {}
    /\ logins = 0

----------------------------------------------------------------------------
(***************************************************************************)
(* Helpers: the private methods of the class.                              *)
(***************************************************************************)
\* An object for `new WebSocket`: one nothing refers to any more.
Fresh(s) == readyState[s] = "closed" /\ s # socket /\ s \notin socketsToClose

IsConnected == socket # NONE /\ readyState[socket] = "open"

\* connect() keeps the socket it has while that is open or opening.
ReuseOpenOnly == socket # NONE /\ readyState[socket] = "open"        \* mutant
InFlight == socket # NONE /\ readyState[socket] \in {"connecting", "open"}

StopHeartbeat == heartbeatTimer' = FALSE /\ pongTimer' = FALSE

\* The pong timer armed after each ping.
PingOnly == pongTimer' = pongTimer                                   \* mutant
AwaitPong == pongTimer' = TRUE

\* disconnect() drops what waits in the offline queue.
KeepQueue == queue' = queue                                          \* mutant
DropQueue == queue' = <<>>

\* flushQueue: what waited in the queue goes out on the socket that opened.
FlushQueue(s) ==
    /\ carried' = carried \cup {<<by, auth[s]>> : by \in ToSet(queue)}
    /\ queue' = <<>>

\* What onclose announces depends on whether another attempt is allowed.
OneTooMany == reconnectAttempts <= MaxReconnectAttempts              \* mutant
CanRetry == reconnectAttempts + 1 <= MaxReconnectAttempts

AttemptReconnect ==
    IF reconnectTimer \/ reconnectAttempts >= MaxReconnectAttempts
    THEN UNCHANGED retryVars
    ELSE reconnectAttempts' = reconnectAttempts + 1 /\ reconnectTimer' = TRUE

\* connect() remembers the token and forgets an earlier disconnect().
RememberToken(u) == token' = u /\ manualClose' = manualClose         \* mutant
Adopt(u) == token' = u /\ manualClose' = FALSE

\* connect(u) keeps an open or in-flight socket, and otherwise replaces
\* this.socket with a new one.
Connect(u) ==
    /\ Adopt(u)
    /\ \/ /\ InFlight
          /\ UNCHANGED <<sockVars, socket, status>>
       \/ /\ ~InFlight
          /\ \E s \in Sockets :
                /\ Fresh(s)
                /\ readyState' = [readyState EXCEPT ![s] = "connecting"]
                /\ auth' = [auth EXCEPT ![s] = u]
                /\ socket' = s
          /\ silent' = silent
          /\ status' = "connecting"

----------------------------------------------------------------------------
(***************************************************************************)
(* Signing in and out, and loading the page.                               *)
(***************************************************************************)
\* authStore.login / register.  The login page is only routed to while
\* nobody is signed in.
Login(u) ==
    /\ user = NONE
    /\ logins < MaxLogins
    /\ user' = u
    /\ logins' = logins + 1
    /\ Connect(u)
    /\ UNCHANGED <<socketsToClose, retryVars, beatVars, queue, carried>>

\* disconnect.  A socket that is still connecting is only marked: it closes
\* itself when it opens.
Disconnect ==
    /\ manualClose' = TRUE
    /\ StopHeartbeat
    /\ reconnectTimer' = FALSE
    /\ reconnectAttempts' = 0
    /\ socket' = NONE
    /\ socketsToClose' = IF socket # NONE /\ readyState[socket] = "connecting"
                         THEN socketsToClose \cup {socket} ELSE socketsToClose
    /\ readyState' = IF IsConnected
                     THEN [readyState EXCEPT ![socket] = "closing"]
                     ELSE readyState
    /\ DropQueue

\* authStore.logout: disconnect(), then every store is cleared, which puts
\* the indicator back to "disconnected".
Logout ==
    /\ user # NONE
    /\ user' = NONE
    /\ Disconnect
    /\ status' = "disconnected"
    /\ UNCHANGED <<auth, silent, token, carried, logins>>

\* The page is loaded again: the old page's sockets, timers and queue are
\* gone, and restore() connects for the account u kept in localStorage, if
\* any.
PageLoad(u) ==
    /\ logins < MaxLogins
    /\ logins' = logins + 1
    /\ user' = u
    /\ token' = u
    /\ manualClose' = FALSE
    /\ socketsToClose' = {}
    /\ silent' = {}
    /\ reconnectAttempts' = 0
    /\ reconnectTimer' = FALSE
    /\ StopHeartbeat
    /\ queue' = <<>>
    /\ \/ /\ u = NONE
          /\ socket' = NONE
          /\ readyState' = [s \in Sockets |-> "closed"]
          /\ auth' = [s \in Sockets |-> NONE]
          /\ status' = "disconnected"
       \/ /\ u # NONE
          /\ \E n \in Sockets :
                /\ Fresh(n)
                /\ socket' = n
                /\ readyState' = [s \in Sockets |->
                                    IF s = n THEN "connecting" ELSE "closed"]
                /\ auth' = [s \in Sockets |-> IF s = n THEN u ELSE NONE]
          /\ status' = "connecting"
    /\ UNCHANGED carried

\* The user reloads, or opens the application with a session kept.
Reload == PageLoad(user)

\* StrictMode runs App's effect a second time: restore() finds the socket the
\* first run opened.
RestoreAgain ==
    /\ user # NONE /\ socket # NONE
    /\ readyState[socket] = "connecting" /\ reconnectAttempts = 0
    /\ Connect(user)
    /\ UNCHANGED <<socketsToClose, retryVars, beatVars, queue, carried, user, logins>>

\* The 401 interceptor forgets the session and redirects to /login.
SessionExpired == PageLoad(NONE)

\* wsService.send.  It has callers that outlive the session: after logout
\* (manualClose) DashboardPage's typing timer and CallChatPanel's unmount
\* still send.
Send ==
    /\ user # NONE \/ manualClose
    /\ \/ /\ IsConnected
          /\ carried' = carried \cup {<<user, auth[socket]>>}
          /\ UNCHANGED queue
       \/ /\ ~IsConnected
          /\ Len(queue) < MaxQueue
          /\ queue' = Append(queue, user)
          /\ UNCHANGED carried
    /\ UNCHANGED <<sockVars, socket, socketsToClose, retryVars, beatVars,
                   status, authVars>>

----------------------------------------------------------------------------
(***************************************************************************)
(* The socket's callbacks.                                                 *)
(***************************************************************************)
\* onopen on a socket that disconnect() marked: close it at once.
JustUnmark(s) == readyState' = [readyState EXCEPT ![s] = "open"]     \* mutant
CloseMarked(s) == readyState' = [readyState EXCEPT ![s] = "closing"]

OpenDoomed(s) ==
    /\ readyState[s] = "connecting"
    /\ s \in socketsToClose
    /\ socketsToClose' = socketsToClose \ {s}
    /\ CloseMarked(s)
    /\ socket' = IF socket = s THEN NONE ELSE socket
    /\ UNCHANGED <<auth, silent, retryVars, beatVars, queue, status, carried,
                   authVars>>

\* onopen otherwise: reset the retries, report, start the heartbeat, and
\* send what waited in the queue (flushQueue).
Open(s) ==
    /\ readyState[s] = "connecting"
    /\ s \notin socketsToClose
    /\ readyState' = [readyState EXCEPT ![s] = "open"]
    /\ reconnectAttempts' = 0
    /\ status' = "connected"
    /\ heartbeatTimer' = TRUE
    /\ pongTimer' = FALSE
    /\ FlushQueue(s)
    /\ UNCHANGED <<auth, silent, socket, socketsToClose, reconnectTimer,
                   authVars>>

\* onclose.  The current socket schedules a retry unless disconnect() was
\* called or the retries are used up; one that was let go of is silent while
\* a newer socket is current.  (disconnect() clears this.socket, so the
\* current socket never closes with manualClose set.)
CloseCurrent(s) ==
    /\ s = socket
    /\ StopHeartbeat
    /\ socket' = NONE
    /\ \/ /\ manualClose
          /\ status' = "disconnected"
          /\ UNCHANGED retryVars
       \/ /\ ~manualClose
          /\ status' = IF CanRetry THEN "reconnecting" ELSE "disconnected"
          /\ AttemptReconnect

\* The same task of the browser runs onerror first when the connection
\* failed, whichever socket it is; CloseCurrent overwrites what it reports.
CloseStale(s, failed) ==
    /\ s # socket
    /\ IF socket = NONE
       THEN StopHeartbeat /\ status' = "disconnected"
       ELSE /\ status' = IF failed THEN "error" ELSE status
            /\ UNCHANGED beatVars
    /\ UNCHANGED <<socket, retryVars>>

\* A socket in any live state closes: the peer closed, the connection broke,
\* our own close() completed, or - always a failure - the handshake did not.
Close(s, failed) ==
    /\ readyState[s] # "closed"
    /\ readyState[s] = "connecting" => failed
    /\ readyState' = [readyState EXCEPT ![s] = "closed"]
    /\ auth' = [auth EXCEPT ![s] = NONE]
    /\ silent' = silent \ {s}
    /\ CloseCurrent(s) \/ CloseStale(s, failed)
    /\ UNCHANGED <<socketsToClose, queue, carried, authVars>>

\* The peer of an open connection dies without closing it.
FallSilent(s) ==
    /\ readyState[s] = "open"
    /\ s \notin silent
    /\ silent' = silent \cup {s}
    /\ UNCHANGED <<readyState, auth, socket, socketsToClose, retryVars,
                   beatVars, queue, status, carried, authVars>>

----------------------------------------------------------------------------
(***************************************************************************)
(* The timers.                                                             *)
(***************************************************************************)
\* attemptReconnect's timeout.
Reconnect ==
    /\ reconnectTimer
    /\ reconnectTimer' = FALSE
    /\ \/ /\ token # NONE
          /\ ~manualClose
          /\ Connect(token)
       \/ /\ token = NONE \/ manualClose
          /\ UNCHANGED <<sockVars, socket, status, token, manualClose>>
    /\ UNCHANGED <<socketsToClose, reconnectAttempts, beatVars, queue, carried,
                   user, logins>>

\* startHeartbeat's interval: ping the current socket and wait for the pong.
HeartbeatTick ==
    /\ heartbeatTimer
    /\ IsConnected
    /\ AwaitPong
    /\ UNCHANGED <<sockVars, socket, socketsToClose, retryVars, heartbeatTimer,
                   queue, status, carried, authVars>>

\* A pong: only an open socket whose peer is alive delivers one.
Pong ==
    /\ pongTimer
    /\ IsConnected
    /\ socket \notin silent
    /\ pongTimer' = FALSE
    /\ UNCHANGED <<sockVars, socket, socketsToClose, retryVars, heartbeatTimer,
                   queue, status, carried, authVars>>

\* No pong in time: close whatever socket is current now.
PongTimeout ==
    /\ pongTimer
    /\ pongTimer' = FALSE
    /\ readyState' = IF IsConnected
                     THEN [readyState EXCEPT ![socket] = "closing"]
                     ELSE readyState
    /\ UNCHANGED <<auth, silent, socket, socketsToClose, retryVars,
                   heartbeatTimer, queue, status, carried, authVars>>

----------------------------------------------------------------------------
Next ==
    \/ \E u \in Users : Login(u)
    \/ Logout
    \/ Reload
    \/ RestoreAgain
    \/ SessionExpired
    \/ Send
    \/ \E s \in Sockets : OpenDoomed(s)
    \/ \E s \in Sockets : Open(s)
    \/ \E s \in Sockets, failed \in BOOLEAN : Close(s, failed)
    \/ \E s \in Sockets : FallSilent(s)
    \/ Reconnect
    \/ HeartbeatTick
    \/ Pong
    \/ PongTimeout

Spec == Init /\ [][Next]_vars

(***************************************************************************)
(* Fairness: the browser settles every handshake one way or the other and  *)
(* completes every close, and it runs the timers that are set.  Nothing is *)
(* asked of people, of the server, or of pongs.                            *)
(***************************************************************************)
Handshake(s) == /\ readyState[s] = "connecting"
                /\ OpenDoomed(s) \/ Open(s) \/ Close(s, TRUE)

FinishClose(s) == /\ readyState[s] = "closing"
                  /\ \E failed \in BOOLEAN : Close(s, failed)

Fairness ==
    /\ \A s \in Sockets : WF_vars(Handshake(s)) /\ WF_vars(FinishClose(s))
    /\ WF_vars(Reconnect)
    /\ WF_vars(HeartbeatTick)
    /\ WF_vars(PongTimeout)

FairSpec == Spec /\ Fairness

----------------------------------------------------------------------------
(***************************************************************************)
(* What the service promises.                                              *)
(***************************************************************************)
\* A socket that is connecting or open is either this.socket or marked to
\* close as soon as it opens, never both: connect, logout, sign-in and
\* retry in any order leave the page with at most one connection in use
\* (websocket.ts, connect() and disconnect()).
NoOrphanSocket ==
    \A s \in Sockets :
        readyState[s] \in {"connecting", "open"} =>
            (s = socket) # (s \in socketsToClose)

\* What was sent while an account was signed in is only ever carried by a
\* socket authenticated as that account: disconnect() drops the queue and
\* lets go of the socket before anyone else can sign in.
SessionIsolation ==
    \A c \in carried : c[1] # NONE => c[1] = c[2]

\* Nothing waits in the queue behind a live connection, so a payload sent
\* now cannot overtake one sent earlier (send() and flushQueue()).
QueueDrained == IsConnected => queue = <<>>

\* The indicator does not flatter: it shows "connected" only while the
\* current socket is open, or closing with its onclose still to run, and
\* "reconnecting" only while a retry is really scheduled.
HonestIndicator ==
    /\ status = "connected" =>
         socket # NONE /\ readyState[socket] \in {"open", "closing"}
    /\ status = "reconnecting" => reconnectTimer

\* A live connection is always watched by the heartbeat, and no heartbeat
\* or pong timeout outlives the socket it was started for.
HeartbeatWatches ==
    /\ heartbeatTimer <=>
         (socket # NONE /\ readyState[socket] \in {"open", "closing"})
    /\ pongTimer => heartbeatTimer

\* Whoever is signed in without a socket has a retry coming, or the retries are used
\* up and the page says so: however login, logout, page loads, retries and late
\* callbacks follow each other, nobody is left waiting for nothing (onclose,
\* attemptReconnect, connect).
NeverStranded ==
    user # NONE /\ socket = NONE =>
        \/ reconnectTimer
        \/ reconnectAttempts = MaxReconnectAttempts /\ status = "disconnected"

\* Signed in, the page is connected again and again, or it has used up its
\* retries, or the account signs out: no state leaves it waiting for
\* nothing.
Reconnects ==
    user # NONE ~> (IsConnected \/ user = NONE
                    \/ (socket = NONE /\ ~reconnectTimer
                        /\ reconnectAttempts = MaxReconnectAttempts))

\* A connection whose peer has gone silent does not stay the current one.
DeadPeerDetected ==
    \A s \in Sockets : (socket = s /\ s \in silent) ~> socket # s

\* disconnect() reaches even a socket that had not opened yet: each socket
\* it let go of is closed in the end, unless the page is loaded again.
LogoutClosesSockets ==
    \A s \in Sockets :
        (readyState[s] # "closed" /\ s # socket) ~> readyState[s] = "closed"
=============================================================================
