------------------------ MODULE ClientSocketProofs ------------------------
(***************************************************************************)
(* The safety properties of ClientSocket hold for every number of accounts *)
(* and sockets, every retry bound and every queue length.                  *)
(*                                                                         *)
(* None of them is inductive alone: that nobody's payload crosses a sign-  *)
(* in, for one, needs to know whose the queue is, which needs to know that *)
(* a socket in use belongs to whoever is signed in, which needs to know    *)
(* that no retry is pending across a logout.  IInv is their conjunction    *)
(* with the three facts that tie the service to the session.               *)
(***************************************************************************)
EXTENDS ClientSocket, TLAPS

\* The service follows the session: it has a socket or a retry pending only
\* for the account signed in, and disconnect() was called only if nobody is.
FollowsSession ==
    /\ user # NONE => token = user /\ ~manualClose
    /\ socket # NONE => user # NONE /\ auth[socket] = user
    /\ reconnectTimer => user # NONE /\ socket = NONE

\* this.socket is cleared in the callback that sees it closed.
SocketAlive == socket # NONE => readyState[socket] # "closed"

\* What waits in the queue was sent by the account signed in, or by nobody.
QueueOwner == \A i \in 1 .. Len(queue) : queue[i] \in {user, NONE}

IInv ==
    /\ TypeOK
    /\ FollowsSession
    /\ SocketAlive
    /\ QueueOwner
    /\ NoOrphanSocket
    /\ SessionIsolation
    /\ QueueDrained
    /\ HonestIndicator
    /\ HeartbeatWatches

----------------------------------------------------------------------------
\* A freshly loaded page satisfies the invariant.
LEMMA InitIInv == Init => IInv
  <1> SUFFICES ASSUME Init PROVE IInv
    OBVIOUS
  <1> USE NoneAssumption, MaxAssumption, BoundsAssumption DEF Init
  <1>1. TypeOK
    <2>1. readyState \in [Sockets -> ReadyStates]
      BY DEF ReadyStates
    <2>2. auth \in [Sockets -> Senders]
      BY DEF Senders
    <2>3. reconnectAttempts \in 0..MaxReconnectAttempts /\ logins \in 0..MaxLogins
      OBVIOUS
    <2>4. queue \in Seq(Senders)
      OBVIOUS
    <2>5. QED
      BY <2>1, <2>2, <2>3, <2>4 DEF TypeOK, Statuses, Senders
  <1>2. FollowsSession /\ SocketAlive /\ QueueOwner
    BY DEF FollowsSession, SocketAlive, QueueOwner
  <1>3. NoOrphanSocket /\ SessionIsolation /\ QueueDrained
    BY DEF NoOrphanSocket, SessionIsolation, QueueDrained, IsConnected
  <1>4. HonestIndicator /\ HeartbeatWatches
    BY DEF HonestIndicator, HeartbeatWatches
  <1>5. QED
    BY <1>1, <1>2, <1>3, <1>4 DEF IInv

\* What connect(u) leaves behind when the account u signs in with no socket,
\* or when a retry fires.
LEMMA ConnectFresh ==
  ASSUME NEW u \in Users, IInv, socket = NONE, Connect(u)
  PROVE  /\ token' = u /\ ~manualClose'
         /\ silent' = silent /\ status' = "connecting"
         /\ \E s \in Sockets :
               /\ Fresh(s)
               /\ readyState' = [readyState EXCEPT ![s] = "connecting"]
               /\ auth' = [auth EXCEPT ![s] = u]
               /\ socket' = s
  BY DEF Connect, Adopt, InFlight

----------------------------------------------------------------------------
(***************************************************************************)
(* Every step preserves the invariant: one lemma per kind of step.         *)
(***************************************************************************)
\* Signing in.
LEMMA LoginStep == ASSUME IInv, NEW u \in Users, Login(u) PROVE IInv'
  <1> USE NoneAssumption, MaxAssumption, BoundsAssumption
  <1>1. socket = NONE /\ user = NONE /\ ~reconnectTimer
    BY DEF Login, IInv, FollowsSession
  <1>2. PICK s \in Sockets :
               /\ Fresh(s)
               /\ readyState' = [readyState EXCEPT ![s] = "connecting"]
               /\ auth' = [auth EXCEPT ![s] = u]
               /\ socket' = s
    BY <1>1, ConnectFresh DEF Login
  <1>3. /\ token' = u /\ ~manualClose' /\ manualClose' \in BOOLEAN
        /\ user' = u /\ status' = "connecting" /\ silent' = silent
        /\ UNCHANGED <<socketsToClose, retryVars, beatVars, queue, carried>>
        /\ logins' = logins + 1 /\ logins < MaxLogins
    BY <1>1, ConnectFresh DEF Login, Connect, Adopt
  <1>4. TypeOK'
    BY <1>2, <1>3 DEF IInv, TypeOK, ReadyStates, Statuses, Senders, retryVars, beatVars
  <1>5. FollowsSession' /\ SocketAlive' /\ QueueOwner'
    BY <1>1, <1>2, <1>3 DEF IInv, TypeOK, ReadyStates, FollowsSession, SocketAlive,
                      QueueOwner, retryVars
  <1>6. NoOrphanSocket' /\ SessionIsolation' /\ QueueDrained'
    BY <1>1, <1>2, <1>3 DEF IInv, TypeOK, NoOrphanSocket, SessionIsolation,
                      QueueDrained, IsConnected, Fresh
  <1>7. HonestIndicator' /\ HeartbeatWatches'
    BY <1>1, <1>2, <1>3 DEF IInv, TypeOK, HonestIndicator, HeartbeatWatches, beatVars
  <1>8. QED
    BY <1>4, <1>5, <1>6, <1>7 DEF IInv

\* Signing out.
LEMMA LogoutStep == ASSUME IInv, Logout PROVE IInv'
  <1> USE NoneAssumption, MaxAssumption, BoundsAssumption
  <1> USE DEF Disconnect, StopHeartbeat, DropQueue
  <1>1. TypeOK'
    <2>1. readyState' \in [Sockets -> ReadyStates]
      BY DEF Logout, IInv, TypeOK, ReadyStates
    <2>2. queue' \in Seq(Senders) /\ user' \in Senders /\ status' \in Statuses
      BY DEF Logout, Senders, Statuses
    <2>3. socketsToClose' \subseteq Sockets
      BY DEF Logout, IInv, TypeOK
    <2>4. reconnectAttempts' \in 0..MaxReconnectAttempts
      BY DEF Logout
    <2>5. /\ UNCHANGED <<auth, silent, token, carried, logins>>
          /\ socket' = NONE /\ ~reconnectTimer' /\ ~heartbeatTimer' /\ ~pongTimer'
          /\ reconnectTimer' \in BOOLEAN /\ manualClose' \in BOOLEAN
          /\ heartbeatTimer' \in BOOLEAN /\ pongTimer' \in BOOLEAN
      BY DEF Logout
    <2>6. QED
      BY <2>1, <2>2, <2>3, <2>4, <2>5 DEF IInv, TypeOK
  <1>2. FollowsSession' /\ SocketAlive' /\ QueueOwner'
    BY DEF Logout, FollowsSession, SocketAlive, QueueOwner
  <1>3. NoOrphanSocket'
    BY DEF Logout, IInv, TypeOK, NoOrphanSocket, IsConnected
  <1>4. SessionIsolation' /\ QueueDrained'
    BY DEF Logout, IInv, SessionIsolation, QueueDrained
  <1>5. HonestIndicator' /\ HeartbeatWatches'
    BY DEF Logout, HonestIndicator, HeartbeatWatches
  <1>6. QED
    BY <1>1, <1>2, <1>3, <1>4, <1>5 DEF IInv

\* Loading the page again.
LEMMA PageLoadStep ==
  ASSUME IInv, NEW u \in Users \cup {NONE}, PageLoad(u) PROVE IInv'
  <1> USE NoneAssumption, MaxAssumption, BoundsAssumption DEF StopHeartbeat
  <1>1. /\ socketsToClose' = {} /\ silent' = {} /\ queue' = <<>>
        /\ reconnectAttempts' = 0 /\ reconnectTimer' = FALSE
        /\ heartbeatTimer' = FALSE /\ pongTimer' = FALSE /\ carried' = carried
        /\ user' = u /\ token' = u /\ manualClose' = FALSE
        /\ logins' = logins + 1 /\ logins < MaxLogins
    BY DEF PageLoad
  <1>2. CASE u = NONE
    <2>1. /\ socket' = NONE /\ readyState' = [s \in Sockets |-> "closed"]
          /\ auth' = [s \in Sockets |-> NONE] /\ status' = "disconnected"
      BY <1>2 DEF PageLoad
    <2>2. readyState' \in [Sockets -> ReadyStates] /\ auth' \in [Sockets -> Senders]
      BY <2>1 DEF ReadyStates, Senders
    <2>3. TypeOK'
      <3>1. queue' \in Seq(Senders) /\ reconnectAttempts' \in 0..MaxReconnectAttempts
        BY <1>1
      <3>2. logins' \in 0..MaxLogins
        BY <1>1 DEF IInv, TypeOK
      <3>3. QED
        BY <1>1, <2>1, <2>2, <3>1, <3>2 DEF IInv, TypeOK, Statuses, Senders
    <2>4. FollowsSession' /\ SocketAlive' /\ QueueOwner'
      BY <1>1, <1>2, <2>1 DEF FollowsSession, SocketAlive, QueueOwner
    <2>5. NoOrphanSocket' /\ SessionIsolation' /\ QueueDrained'
      BY <1>1, <2>1 DEF IInv, NoOrphanSocket, SessionIsolation, QueueDrained
    <2>6. HonestIndicator' /\ HeartbeatWatches'
      BY <1>1, <2>1 DEF HonestIndicator, HeartbeatWatches
    <2>7. QED
      BY <2>3, <2>4, <2>5, <2>6 DEF IInv
  <1>3. CASE u # NONE
    <2>1. PICK n \in Sockets :
             /\ socket' = n
             /\ readyState' = [s \in Sockets |-> IF s = n THEN "connecting" ELSE "closed"]
             /\ auth' = [s \in Sockets |-> IF s = n THEN u ELSE NONE]
      BY <1>3 DEF PageLoad
    <2>2. status' = "connecting"
      BY <1>3 DEF PageLoad
    <2>3. readyState' \in [Sockets -> ReadyStates] /\ auth' \in [Sockets -> Senders]
      BY <2>1 DEF ReadyStates, Senders
    <2>4. TypeOK'
      <3>1. queue' \in Seq(Senders) /\ reconnectAttempts' \in 0..MaxReconnectAttempts
        BY <1>1
      <3>2. logins' \in 0..MaxLogins
        BY <1>1 DEF IInv, TypeOK
      <3>3. QED
        BY <1>1, <2>1, <2>2, <2>3, <3>1, <3>2 DEF IInv, TypeOK, Statuses, Senders
    <2>5. FollowsSession' /\ SocketAlive' /\ QueueOwner'
      BY <1>1, <1>3, <2>1 DEF FollowsSession, SocketAlive, QueueOwner
    <2>6. NoOrphanSocket' /\ SessionIsolation' /\ QueueDrained'
      BY <1>1, <2>1 DEF IInv, NoOrphanSocket, SessionIsolation, QueueDrained
    <2>7. HonestIndicator' /\ HeartbeatWatches'
      BY <1>1, <2>1, <2>2 DEF HonestIndicator, HeartbeatWatches
    <2>8. QED
      BY <2>4, <2>5, <2>6, <2>7 DEF IInv
  <1>4. QED
    BY <1>2, <1>3

\* restore() running twice changes nothing.
LEMMA RestoreAgainStutters == IInv /\ RestoreAgain => UNCHANGED vars
  <1> SUFFICES ASSUME IInv, RestoreAgain PROVE UNCHANGED vars
    OBVIOUS
  <1>1. token = user /\ manualClose = FALSE /\ InFlight
    BY DEF RestoreAgain, IInv, FollowsSession, TypeOK, InFlight
  <1>2. /\ token' = user /\ manualClose' = FALSE
        /\ UNCHANGED <<sockVars, socket, status>>
    BY <1>1 DEF RestoreAgain, Connect, Adopt
  <1>3. QED
    BY <1>1, <1>2 DEF RestoreAgain, vars, authVars, sockVars, retryVars, beatVars

\* Sending, on the socket or into the queue.
LEMMA SendStep == ASSUME IInv, Send PROVE IInv'
  <1> USE NoneAssumption, MaxAssumption, BoundsAssumption
  <1>0. UNCHANGED <<sockVars, socket, socketsToClose, retryVars, beatVars,
                    status, authVars>>
    BY DEF Send
  <1> USE DEF sockVars, retryVars, beatVars, authVars
  <1>1. CASE IsConnected
    <2>1. carried' = carried \cup {<<user, auth[socket]>>} /\ queue' = queue
      BY <1>1 DEF Send
    <2>2. user \in Users /\ auth[socket] = user
      BY <1>1 DEF IInv, TypeOK, FollowsSession, IsConnected, Senders
    <2>3. TypeOK'
      BY <1>0, <2>1, <2>2 DEF IInv, TypeOK, Senders
    <2>4. SessionIsolation'
      BY <2>1, <2>2 DEF IInv, SessionIsolation
    <2>5. QED
      BY <1>0, <2>1, <2>3, <2>4 DEF IInv, FollowsSession, SocketAlive, QueueOwner,
         NoOrphanSocket, QueueDrained, IsConnected, HonestIndicator, HeartbeatWatches
  <1>2. CASE ~IsConnected
    <2>1. queue' = Append(queue, user) /\ carried' = carried
      BY <1>2 DEF Send
    <2>2. TypeOK'
      BY <1>0, <2>1 DEF IInv, TypeOK, Senders
    <2>3. QueueOwner'
      BY <1>0, <2>1 DEF IInv, TypeOK, QueueOwner, Senders
    <2>4. QED
      BY <1>0, <1>2, <2>1, <2>2, <2>3 DEF IInv, FollowsSession, SocketAlive,
         NoOrphanSocket, QueueDrained, IsConnected, HonestIndicator, HeartbeatWatches,
         SessionIsolation
  <1>3. QED
    BY <1>1, <1>2

\* onopen.
LEMMA OpenDoomedStep ==
  ASSUME IInv, NEW s \in Sockets, OpenDoomed(s) PROVE IInv'
  <1> USE NoneAssumption DEF CloseMarked
  <1>1. s # socket /\ socket' = socket
    BY DEF OpenDoomed, IInv, NoOrphanSocket
  <1>2. TypeOK'
    <2>1. readyState' \in [Sockets -> ReadyStates]
      BY DEF OpenDoomed, IInv, TypeOK, ReadyStates
    <2>2. QED
      BY <1>1, <2>1 DEF OpenDoomed, IInv, TypeOK, retryVars, beatVars, authVars
  <1>3. NoOrphanSocket'
    BY <1>1 DEF OpenDoomed, IInv, TypeOK, NoOrphanSocket
  <1>4. QED
    BY <1>1, <1>2, <1>3 DEF OpenDoomed, IInv, TypeOK, FollowsSession, SocketAlive,
       QueueOwner, SessionIsolation, QueueDrained, IsConnected, HonestIndicator,
       HeartbeatWatches, retryVars, beatVars, authVars

LEMMA OpenStep == ASSUME IInv, NEW s \in Sockets, Open(s) PROVE IInv'
  <1> USE NoneAssumption, MaxAssumption
  <1>1. s = socket /\ user \in Users /\ auth[s] = user
    BY DEF Open, IInv, NoOrphanSocket, FollowsSession, TypeOK, Senders
  <1>2. /\ carried' = carried \cup {<<by, auth[s]>> : by \in ToSet(queue)}
        /\ queue' = <<>>
    BY DEF Open, FlushQueue
  <1>3. ToSet(queue) \subseteq {user, NONE}
    BY DEF IInv, TypeOK, QueueOwner, ToSet
  <1>4. carried' \subseteq Senders \X Users
    BY <1>1, <1>2, <1>3 DEF IInv, TypeOK, Senders
  <1>5. TypeOK'
    <2>1. readyState' \in [Sockets -> ReadyStates]
      BY DEF Open, IInv, TypeOK, ReadyStates
    <2>2. queue' \in Seq(Senders) /\ reconnectAttempts' \in 0..MaxReconnectAttempts
      BY <1>2 DEF Open
    <2>3. QED
      BY <1>4, <2>1, <2>2 DEF Open, IInv, TypeOK, Statuses, authVars
  <1>6. SessionIsolation'
    BY <1>1, <1>2, <1>3 DEF IInv, SessionIsolation
  <1>7. QED
    BY <1>1, <1>2, <1>5, <1>6 DEF Open, IInv, TypeOK, FollowsSession, SocketAlive,
       QueueOwner, NoOrphanSocket, QueueDrained, HonestIndicator,
       HeartbeatWatches, authVars

\* onclose, with the onerror before it.
LEMMA CloseStep ==
  ASSUME IInv, NEW s \in Sockets, NEW failed \in BOOLEAN, Close(s, failed)
  PROVE  IInv'
  <1> USE NoneAssumption, MaxAssumption
  <1>1. /\ readyState' = [readyState EXCEPT ![s] = "closed"]
        /\ auth' = [auth EXCEPT ![s] = NONE]
        /\ silent' = silent \ {s}
        /\ UNCHANGED <<socketsToClose, queue, carried, token, manualClose, user, logins>>
    BY DEF Close, authVars
  <1>2. /\ readyState' \in [Sockets -> ReadyStates] /\ auth' \in [Sockets -> Senders]
        /\ silent' \subseteq Sockets
    BY <1>1 DEF IInv, TypeOK, ReadyStates, Senders
  <1>3. CASE CloseCurrent(s)
    <2>1. s = socket /\ socket' = NONE /\ ~manualClose /\ user # NONE /\ ~reconnectTimer
      BY <1>3 DEF CloseCurrent, IInv, FollowsSession, TypeOK
    <2>2. ~heartbeatTimer' /\ ~pongTimer' /\ heartbeatTimer' \in BOOLEAN /\ pongTimer' \in BOOLEAN
      BY <1>3 DEF CloseCurrent, StopHeartbeat
    <2>3. /\ status' = IF reconnectAttempts + 1 <= MaxReconnectAttempts
                       THEN "reconnecting" ELSE "disconnected"
          /\ IF reconnectAttempts >= MaxReconnectAttempts
             THEN reconnectAttempts' = reconnectAttempts /\ reconnectTimer' = reconnectTimer
             ELSE reconnectAttempts' = reconnectAttempts + 1 /\ reconnectTimer' = TRUE
      BY <1>3, <2>1 DEF CloseCurrent, CanRetry, AttemptReconnect, retryVars
    <2>4. TypeOK'
      <3>1. reconnectAttempts' \in 0..MaxReconnectAttempts
        BY <2>3 DEF IInv, TypeOK
      <3>2. reconnectTimer' \in BOOLEAN /\ status' \in Statuses
        BY <2>3 DEF IInv, TypeOK, Statuses
      <3>3. QED
        BY <1>1, <1>2, <2>1, <2>2, <3>1, <3>2 DEF IInv, TypeOK
    <2>5. FollowsSession' /\ SocketAlive' /\ QueueOwner'
      BY <1>1, <2>1 DEF IInv, FollowsSession, SocketAlive, QueueOwner
    <2>6. NoOrphanSocket' /\ SessionIsolation' /\ QueueDrained'
      BY <1>1, <2>1 DEF IInv, TypeOK, NoOrphanSocket, SessionIsolation, QueueDrained,
         IsConnected
    <2>7. HonestIndicator' /\ HeartbeatWatches'
      BY <2>1, <2>2, <2>3 DEF IInv, TypeOK, HonestIndicator, HeartbeatWatches
    <2>8. QED
      BY <2>4, <2>5, <2>6, <2>7 DEF IInv
  <1>4. CASE CloseStale(s, failed)
    <2>1. s # socket /\ socket' = socket /\ UNCHANGED retryVars
      BY <1>4 DEF CloseStale
    <2>2. CASE socket = NONE
      <3>1. /\ ~heartbeatTimer' /\ ~pongTimer' /\ heartbeatTimer' \in BOOLEAN
            /\ pongTimer' \in BOOLEAN /\ status' = "disconnected"
        BY <1>4, <2>2 DEF CloseStale, StopHeartbeat
      <3>2. TypeOK'
        BY <1>1, <1>2, <2>1, <3>1 DEF IInv, TypeOK, retryVars, Statuses
      <3>3. QED
        BY <1>1, <2>1, <2>2, <3>1, <3>2 DEF IInv, TypeOK, FollowsSession, SocketAlive,
           QueueOwner, NoOrphanSocket, SessionIsolation, QueueDrained, IsConnected,
           HonestIndicator, HeartbeatWatches, retryVars
    <2>3. CASE socket # NONE
      <3>1. UNCHANGED beatVars /\ (status' = "error" \/ status' = status)
        BY <1>4, <2>3 DEF CloseStale
      <3>2. TypeOK'
        BY <1>1, <1>2, <2>1, <3>1 DEF IInv, TypeOK, retryVars, beatVars, Statuses
      <3>3. readyState'[socket] = readyState[socket] /\ auth'[socket] = auth[socket]
        BY <1>1, <2>1, <2>3 DEF IInv, TypeOK
      <3>4. FollowsSession' /\ SocketAlive' /\ QueueOwner'
        BY <1>1, <2>1, <3>3 DEF IInv, FollowsSession, SocketAlive, QueueOwner, retryVars
      <3>5. NoOrphanSocket' /\ SessionIsolation' /\ QueueDrained'
        BY <1>1, <2>1, <3>3 DEF IInv, TypeOK, NoOrphanSocket, SessionIsolation,
           QueueDrained, IsConnected
      <3>6. HonestIndicator' /\ HeartbeatWatches'
        BY <2>1, <3>1, <3>3 DEF IInv, HonestIndicator, HeartbeatWatches, retryVars, beatVars
      <3>7. QED
        BY <3>2, <3>4, <3>5, <3>6 DEF IInv
    <2>4. QED
      BY <2>2, <2>3
  <1>5. QED
    BY <1>3, <1>4 DEF Close

\* The retry timer.
LEMMA ReconnectStep == ASSUME IInv, Reconnect PROVE IInv'
  <1> USE NoneAssumption
  <1>1. socket = NONE /\ user \in Users /\ token = user /\ ~manualClose
    BY DEF Reconnect, IInv, FollowsSession, TypeOK, Senders
  <1>2. /\ reconnectTimer' = FALSE /\ Connect(user)
        /\ UNCHANGED <<socketsToClose, reconnectAttempts, beatVars, queue, carried,
                       user, logins>>
    BY <1>1 DEF Reconnect
  <1>3. PICK s \in Sockets :
               /\ Fresh(s)
               /\ readyState' = [readyState EXCEPT ![s] = "connecting"]
               /\ auth' = [auth EXCEPT ![s] = user]
               /\ socket' = s
    BY <1>1, <1>2, ConnectFresh
  <1>4. /\ token' = user /\ manualClose' = FALSE
        /\ silent' = silent /\ status' = "connecting"
    BY <1>1, <1>2, ConnectFresh DEF Connect, Adopt
  <1>5. TypeOK'
    BY <1>1, <1>2, <1>3, <1>4 DEF IInv, TypeOK, ReadyStates, Statuses, Senders, beatVars
  <1>6. FollowsSession' /\ SocketAlive' /\ QueueOwner'
    BY <1>1, <1>2, <1>3, <1>4 DEF IInv, TypeOK, FollowsSession, SocketAlive, QueueOwner
  <1>7. NoOrphanSocket' /\ SessionIsolation' /\ QueueDrained'
    BY <1>1, <1>2, <1>3 DEF IInv, TypeOK, NoOrphanSocket, SessionIsolation, QueueDrained,
       IsConnected, Fresh
  <1>8. HonestIndicator' /\ HeartbeatWatches'
    BY <1>1, <1>2, <1>3, <1>4 DEF IInv, TypeOK, HonestIndicator, HeartbeatWatches, beatVars
  <1>9. QED
    BY <1>5, <1>6, <1>7, <1>8 DEF IInv

\* The connection falling silent, the ping, the pong and the missing pong.
LEMMA HeartbeatStep ==
  ASSUME IInv,
         (\E s \in Sockets : FallSilent(s)) \/ HeartbeatTick \/ Pong \/ PongTimeout
  PROVE  IInv'
  <1> USE NoneAssumption DEF sockVars, beatVars, retryVars, authVars, AwaitPong
  <1>1. ASSUME NEW s \in Sockets, FallSilent(s) PROVE IInv'
    BY <1>1 DEF FallSilent, IInv, TypeOK, FollowsSession, SocketAlive, QueueOwner,
       NoOrphanSocket, SessionIsolation, QueueDrained, IsConnected, HonestIndicator,
       HeartbeatWatches
  <1>2. CASE HeartbeatTick \/ Pong
    BY ZenonT(60), <1>2 DEF HeartbeatTick, Pong, IInv, TypeOK, FollowsSession, SocketAlive,
       QueueOwner, NoOrphanSocket, SessionIsolation, QueueDrained, IsConnected,
       HonestIndicator, HeartbeatWatches
  <1>3. CASE PongTimeout
    <2>1. /\ pongTimer' = FALSE /\ pongTimer
          /\ readyState' = IF IsConnected THEN [readyState EXCEPT ![socket] = "closing"]
                           ELSE readyState
          /\ UNCHANGED <<auth, silent, socket, socketsToClose, retryVars,
                         heartbeatTimer, queue, status, carried, authVars>>
      BY <1>3 DEF PongTimeout
    <2>2. socket \in Sockets /\ readyState[socket] \in {"open", "closing"}
      BY <2>1 DEF IInv, TypeOK, HeartbeatWatches
    <2>3. readyState' = [readyState EXCEPT ![socket] = "closing"]
      BY <2>1, <2>2 DEF IInv, TypeOK, IsConnected
    <2>4. TypeOK'
      <3>1. readyState' \in [Sockets -> ReadyStates]
        BY <2>2, <2>3 DEF IInv, TypeOK, ReadyStates
      <3>2. QED
        BY <2>1, <3>1 DEF IInv, TypeOK
    <2>5. NoOrphanSocket'
      BY <2>1, <2>2, <2>3 DEF IInv, TypeOK, NoOrphanSocket
    <2>6. QED
      BY <2>1, <2>2, <2>3, <2>4, <2>5 DEF IInv, TypeOK, FollowsSession, SocketAlive,
         QueueOwner, SessionIsolation, QueueDrained, IsConnected, HonestIndicator,
         HeartbeatWatches
  <1>4. QED
    BY <1>1, <1>2, <1>3

LEMMA StepIInv == IInv /\ [Next]_vars => IInv'
  <1> SUFFICES ASSUME IInv, [Next]_vars PROVE IInv'
    OBVIOUS
  <1>1. CASE \E u \in Users : Login(u)
    BY <1>1, LoginStep
  <1>2. CASE Logout
    BY <1>2, LogoutStep
  <1>3. CASE Reload \/ SessionExpired
    <2>1. user \in Users \cup {NONE}
      BY DEF IInv, TypeOK, Senders
    <2>2. QED
      BY <1>3, <2>1, PageLoadStep DEF Reload, SessionExpired
  <1>4. CASE Send
    BY <1>4, SendStep
  <1>5. CASE \E s \in Sockets : OpenDoomed(s)
    BY <1>5, OpenDoomedStep
  <1>6. CASE \E s \in Sockets : Open(s)
    BY <1>6, OpenStep
  <1>7. CASE \E s \in Sockets, failed \in BOOLEAN : Close(s, failed)
    BY <1>7, CloseStep
  <1>8. CASE Reconnect
    BY <1>8, ReconnectStep
  <1>9. CASE (\E s \in Sockets : FallSilent(s)) \/ HeartbeatTick \/ Pong \/ PongTimeout
    BY <1>9, HeartbeatStep
  <1>10. CASE UNCHANGED vars \/ RestoreAgain
    BY <1>10, RestoreAgainStutters DEF vars, sockVars, beatVars, retryVars, authVars, IInv, TypeOK,
       FollowsSession, SocketAlive, QueueOwner, NoOrphanSocket, SessionIsolation,
       QueueDrained, IsConnected, HonestIndicator, HeartbeatWatches
  <1>11. QED
    BY <1>1, <1>2, <1>3, <1>4, <1>5, <1>6, <1>7, <1>8, <1>9, <1>10 DEF Next

----------------------------------------------------------------------------
(***************************************************************************)
(* Nobody is stranded: each callback that leaves the account without a     *)
(* socket sets the retry timer, or has used up the retries and says so.    *)
(***************************************************************************)
LEMMA CloseStrands ==
  ASSUME IInv, NeverStranded, NEW s \in Sockets, NEW failed \in BOOLEAN, Close(s, failed)
  PROVE  NeverStranded'
  <1> USE NoneAssumption, MaxAssumption
  <1>1. UNCHANGED authVars
    BY DEF Close
  <1>2. CASE CloseCurrent(s)
    <2>1. user # NONE /\ ~manualClose /\ ~reconnectTimer
      BY <1>2 DEF CloseCurrent, IInv, FollowsSession
    <2>2. AttemptReconnect /\ status' = IF CanRetry THEN "reconnecting" ELSE "disconnected"
      BY <1>2, <2>1 DEF CloseCurrent
    <2>3. CASE reconnectAttempts >= MaxReconnectAttempts
      <3>1. reconnectAttempts = MaxReconnectAttempts /\ ~CanRetry
        BY <2>3 DEF IInv, TypeOK, CanRetry
      <3>2. reconnectAttempts' = MaxReconnectAttempts /\ status' = "disconnected"
        BY <2>2, <2>3, <3>1 DEF AttemptReconnect, retryVars
      <3>3. QED
        BY <3>2 DEF NeverStranded
    <2>4. CASE ~(reconnectAttempts >= MaxReconnectAttempts)
      <3>1. reconnectTimer'
        BY <2>1, <2>2, <2>4 DEF AttemptReconnect
      <3>2. QED
        BY <3>1 DEF NeverStranded
    <2>5. QED
      BY <2>3, <2>4
  <1>3. CASE CloseStale(s, failed)
    BY <1>1, <1>3 DEF CloseStale, NeverStranded, authVars, retryVars
  <1>4. QED
    BY <1>2, <1>3 DEF Close

LEMMA StrandedStep == IInv /\ NeverStranded /\ [Next]_vars => NeverStranded'
  <1> SUFFICES ASSUME IInv, NeverStranded, [Next]_vars PROVE NeverStranded'
    OBVIOUS
  <1> USE NoneAssumption
  <1>1. ASSUME NEW u \in Users, Login(u) PROVE NeverStranded'
    <2>1. socket = NONE
      BY <1>1 DEF Login, IInv, FollowsSession
    <2>2. socket' # NONE
      BY <1>1, <2>1, ConnectFresh DEF Login
    <2>3. QED
      BY <2>2 DEF NeverStranded
  <1>2. CASE Logout
    BY <1>2 DEF Logout, NeverStranded
  <1>3. CASE Reload \/ SessionExpired
    <2>1. PICK u : PageLoad(u)
      BY <1>3 DEF Reload, SessionExpired
    <2>2. user' = NONE \/ socket' # NONE
      BY <2>1 DEF PageLoad
    <2>3. QED
      BY <2>2 DEF NeverStranded
  <1>4. CASE Reconnect
    <2>1. socket = NONE /\ user \in Users /\ token = user /\ ~manualClose
      BY <1>4 DEF Reconnect, IInv, FollowsSession, TypeOK, Senders
    <2>2. Connect(user)
      BY <1>4, <2>1 DEF Reconnect
    <2>3. socket' # NONE
      BY <2>1, <2>2, ConnectFresh
    <2>4. QED
      BY <2>3 DEF NeverStranded
  <1>5. ASSUME NEW s \in Sockets, OpenDoomed(s) PROVE NeverStranded'
    <2>1. s # socket
      BY <1>5 DEF OpenDoomed, IInv, NoOrphanSocket
    <2>2. UNCHANGED <<socket, retryVars, status, user>>
      BY <1>5, <2>1 DEF OpenDoomed, authVars
    <2>3. QED
      BY <2>2 DEF NeverStranded, retryVars
  <1>6. ASSUME NEW s \in Sockets, Open(s) PROVE NeverStranded'
    <2>1. socket' # NONE
      BY <1>6 DEF Open, IInv, NoOrphanSocket
    <2>2. QED
      BY <2>1 DEF NeverStranded
  <1>7. CASE UNCHANGED vars \/ RestoreAgain
    BY <1>7, RestoreAgainStutters DEF vars, retryVars, authVars, NeverStranded
  <1>8. CASE Send \/ (\E s \in Sockets : FallSilent(s)) \/ HeartbeatTick \/ Pong \/ PongTimeout
    BY ZenonT(60), <1>8 DEF Send, FallSilent, HeartbeatTick, Pong, PongTimeout, retryVars,
       authVars, NeverStranded
  <1>9. QED
    BY <1>1, <1>2, <1>3, <1>4, <1>5, <1>6, <1>7, <1>8, CloseStrands DEF Next

----------------------------------------------------------------------------
\* The strengthening holds in every reachable state of the service.
THEOREM Invariance == Spec => []IInv
  BY InitIInv, StepIInv, PTL DEF Spec

\* Every variable of the service keeps its type; the retry counter never
\* passes maxReconnectAttempts (attemptReconnect).
THEOREM TypeCorrect == Spec => []TypeOK
  <1>1. IInv => TypeOK
    BY DEF IInv
  <1>2. QED
    BY Invariance, <1>1, PTL

\* connect, disconnect, sign-in and retry in any order leave the page with
\* at most one connection in use (connect(), disconnect(), onopen).
THEOREM OneConnection == Spec => []NoOrphanSocket
  <1>1. IInv => NoOrphanSocket
    BY DEF IInv
  <1>2. QED
    BY Invariance, <1>1, PTL

\* No payload sent while an account is signed in travels on another
\* account's connection (send(), flushQueue(), disconnect()).
THEOREM IsolatedSessions == Spec => []SessionIsolation
  <1>1. IInv => SessionIsolation
    BY DEF IInv
  <1>2. QED
    BY Invariance, <1>1, PTL

\* The offline queue is empty whenever the connection is open, so payloads
\* keep their order across a reconnect (send(), flushQueue()).
THEOREM OrderKept == Spec => []QueueDrained
  <1>1. IInv => QueueDrained
    BY DEF IInv
  <1>2. QED
    BY Invariance, <1>1, PTL

\* The indicator says "connected" or "reconnecting" only when it is so
\* (onopen, onclose, logout).
THEOREM IndicatorHonest == Spec => []HonestIndicator
  <1>1. IInv => HonestIndicator
    BY DEF IInv
  <1>2. QED
    BY Invariance, <1>1, PTL

\* The heartbeat watches exactly the connection in use (startHeartbeat,
\* stopHeartbeat).
THEOREM HeartbeatOnDuty == Spec => []HeartbeatWatches
  <1>1. IInv => HeartbeatWatches
    BY DEF IInv
  <1>2. QED
    BY Invariance, <1>1, PTL

\* Whoever is signed in without a socket has a retry scheduled, or the retries are
\* used up and the page says "disconnected": no order of sign-ins, page loads,
\* retries and callbacks leaves the account waiting for nothing (onclose,
\* attemptReconnect, the reuse of a socket in connect()).
THEOREM NobodyStranded == Spec => []NeverStranded
  <1>1. Init => NeverStranded
    BY DEF Init, NeverStranded
  <1>2. QED
    BY <1>1, Invariance, StrandedStep, PTL DEF Spec
===========================================================================
