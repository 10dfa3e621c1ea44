------------------------------- MODULE Calls -------------------------------
(***************************************************************************)
(* One-to-one calls: the server's CallHandler                              *)
(* (server/src/websocket/call.handler.ts) and, on every browser tab, the   *)
(* callStore (client/src/shared/stores/callStore.ts) with the ring         *)
(* timeouts of CallModal.tsx and IncomingCallModal.tsx.                    *)
(*                                                                         *)
(* ChatWebSocketServer.handleMessage does not wait for a handler, so a     *)
(* handler is split where it awaits the database: what is left of it is a  *)
(* task, and tasks finish in any order.  Each tab has a FIFO connection    *)
(* each way; the way up doubles as the offline queue while there is none.  *)
(* Which rings and signals a connection loses is its own module's concern  *)
(* (ClientSocket); here a tab is linked or it is not.                      *)
(***************************************************************************)
EXTENDS Naturals, Sequences, SequencesExt, FiniteSets

CONSTANTS
    Users,
    Clients,   \* browser tabs
    UserOf,    \* [Clients -> Users]
    CallIds,   \* what newCallId() makes: never used twice
    MadeBy,    \* [CallIds -> SUBSET Clients], the tabs that may make it
    MaxDrops,  \* bound: connections lost and pages left in a behaviour
    MaxTasks,  \* bound: handlers waiting for the database at once
    MaxSignals,\* bound: WebRTC signals under way at once
    NONE       \* JavaScript's null

ASSUME UserOfAssumption == UserOf \in [Clients -> Users]
ASSUME MadeByAssumption == MadeBy \in [CallIds -> SUBSET Clients]
ASSUME BoundAssumption  == MaxDrops \in Nat /\ MaxTasks \in Nat /\ MaxSignals \in Nat

VARIABLES
    linked,      \* tabs with a connection that works
    stale,       \* tabs with an older connection still in the registry
    up, down,    \* [Clients -> Seq(...)] events on the way to and from the server
    tasks,       \* handlers waiting for the database
    activeCalls, \* [CallIds -> ...] per call NONE or the users who accepted
    missed,      \* [CallIds -> Nat] missed-call notices stored for the callee
    dialled,     \* [CallIds -> ...] NONE or who calls whom, as call_start says
    active,      \* [Clients -> ...] callStore.active
    incoming,    \* [Clients -> ...] callStore.incoming
    rtc,         \* [Clients -> ...] the call of callStore.rtc
    peer,        \* [Clients -> ...] the user that mesh has a connection to
    timers,      \* [Clients -> SUBSET CallIds] clearAfter timeouts; of two for
                 \* one session the first to fire clears it
    rung,        \* history: calls the callee was rung for
    answered,    \* history: calls somebody accepted
    refused,     \* history: calls somebody declined
    over,        \* history: calls hung up, declined, unanswered, unavailable
    hungUp,      \* history: calls ended after they rang, in an event not lost
    drops        \* counts what MaxDrops bounds

linkVars    == <<linked, stale, drops>>
serverVars  == <<tasks, activeCalls, missed>>
sessionVars == <<active, incoming, timers>>
meshVars    == <<rtc, peer>>
histVars    == <<dialled, rung, answered, refused, over, hungUp>>
vars == <<linkVars, up, down, serverVars, sessionVars, meshVars, histVars>>

Requests == {"start", "accept", "decline", "end", "signal"}
Replies  == {"incoming", "unavailable", "accepted", "declined", "ended",
             "participants", "signal"}
Stages   == {"start", "startMissed", "accept", "participants", "decline", "endMissed"}
States   == {"ringing", "connected", "ended", "declined", "no_answer", "unavailable"}
Live     == {"ringing", "connected"}

\* An event from a tab names the call and the user it is about.
UpMsgs   == [op : Requests, call : CallIds, to : Users]
\* An event to a tab names the call; a signal also who sent it.
DownMsgs == [ev : Replies, call : CallIds, by : Users]
Tasks    == [stage : Stages, call : CallIds, tab : Clients, to : Users]
Sessions == [call : CallIds, out : BOOLEAN, state : States, with : Users]
Dialled  == [from : Users, to : Users]

ASSUME NoneAssumption == NONE \notin Users \cup CallIds \cup Dialled \cup Sessions

TypeOK ==
    /\ linked \subseteq Clients /\ stale \subseteq Clients
    /\ up \in [Clients -> Seq(UpMsgs)]
    /\ down \in [Clients -> Seq(DownMsgs)]
    /\ tasks \subseteq Tasks
    /\ activeCalls \in [CallIds -> (SUBSET Users) \cup {NONE}]
    /\ missed \in [CallIds -> Nat]
    /\ dialled \in [CallIds -> Dialled \cup {NONE}]
    /\ active \in [Clients -> Sessions \cup {NONE}]
    /\ incoming \in [Clients -> CallIds \cup {NONE}]
    /\ rtc \in [Clients -> CallIds \cup {NONE}]
    /\ peer \in [Clients -> Users \cup {NONE}]
    /\ timers \in [Clients -> SUBSET CallIds]
    /\ rung \subseteq CallIds /\ answered \subseteq CallIds
    /\ refused \subseteq CallIds /\ over \subseteq CallIds
    /\ hungUp \subseteq CallIds
    /\ drops \in 0..MaxDrops

Init ==
    /\ linked = Clients /\ stale = {}
    /\ up = [c \in Clients |-> <<>>] /\ down = [c \in Clients |-> <<>>]
    /\ tasks = {}
    /\ activeCalls = [k \in CallIds |-> NONE]
    /\ missed = [k \in CallIds |-> 0]
    /\ dialled = [k \in CallIds |-> NONE]
    /\ active = [c \in Clients |-> NONE]
    /\ incoming = [c \in Clients |-> NONE]
    /\ rtc = [c \in Clients |-> NONE]
    /\ peer = [c \in Clients |-> NONE]
    /\ timers = [c \in Clients |-> {}]
    /\ rung = {} /\ answered = {} /\ refused = {} /\ over = {} /\ hungUp = {}
    /\ drops = 0

----------------------------------------------------------------------------
(***************************************************************************)
(* The tab: what the user and the timeouts do.                             *)
(***************************************************************************)
\* wsService.send.
SendUp(c, op, k, to) ==
    up' = [up EXCEPT ![c] = Append(@, [op |-> op, call |-> k, to |-> to])]

\* startRtc for the session s: the mesh that exists is kept, whichever call
\* it is for.
StartRtc(c, s) ==
    IF rtc[c] # NONE THEN UNCHANGED meshVars
    ELSE rtc' = [rtc EXCEPT ![c] = s.call] /\ peer' = peer

TeardownRtc(c) ==
    /\ rtc' = [rtc EXCEPT ![c] = NONE]
    /\ peer' = [peer EXCEPT ![c] = NONE]

\* A session that is over: it is shown for a while and then cleared.
JustShow(c, state) ==                                                \* mutant
    active' = [active EXCEPT ![c].state = state] /\ timers' = timers
EndSession(c, state) ==
    /\ active' = [active EXCEPT ![c].state = state]
    /\ timers' = [timers EXCEPT ![c] = @ \cup {active[c].call}]

\* The call modals cover the page, the incoming one on top.
StartCall(c, u, k) ==
    /\ active[c] = NONE /\ incoming[c] = NONE
    /\ c \in MadeBy[k] /\ u # UserOf[c]
    /\ dialled[k] = NONE
    /\ dialled' = [dialled EXCEPT ![k] = [from |-> UserOf[c], to |-> u]]
    /\ active' = [active EXCEPT ![c] =
                    [call |-> k, out |-> TRUE, state |-> "ringing", with |-> u]]
    /\ SendUp(c, "start", k, u)
    /\ StartRtc(c, [call |-> k])
    /\ UNCHANGED <<linkVars, down, serverVars, incoming, timers, rung, answered,
                   refused, over, hungUp>>

\* accept replaces whatever call was active.
Accept(c) ==
    /\ incoming[c] # NONE
    /\ LET k == incoming[c]
           s == [call |-> k, out |-> FALSE, state |-> "connected",
                 with |-> dialled[k].from]
       IN  /\ SendUp(c, "accept", k, s.with)
           /\ active' = [active EXCEPT ![c] = s]
           /\ incoming' = [incoming EXCEPT ![c] = NONE]
           /\ StartRtc(c, s)
           /\ answered' = answered \cup {k}
    /\ UNCHANGED <<linkVars, down, serverVars, timers, dialled, rung, refused,
                   over, hungUp>>

\* decline, and missed for a ring that timed out: they differ in what they
\* tell the server.
Dismiss(c, op) ==
    /\ incoming[c] # NONE
    /\ SendUp(c, op, incoming[c], dialled[incoming[c]].from)
    /\ incoming' = [incoming EXCEPT ![c] = NONE]
    /\ over' = over \cup {incoming[c]}
    /\ UNCHANGED <<linkVars, down, serverVars, active, timers, meshVars,
                   dialled, rung, answered>>

Decline(c) ==
    /\ Dismiss(c, "decline")
    /\ refused' = refused \cup {incoming[c]}
    /\ UNCHANGED hungUp

\* Ending, not declining, has the server store a missed-call notice.
AsDeclined == "decline"                                              \* mutant
AsMissed == "end"

Missed(c) ==
    /\ Dismiss(c, AsMissed)
    /\ hungUp' = hungUp \cup ({incoming[c]} \cap rung)
    /\ UNCHANGED refused

\* endCall and noAnswer.
HangUp(c, state) ==
    /\ active[c] # NONE
    /\ TeardownRtc(c)
    /\ SendUp(c, "end", active[c].call, active[c].with)
    /\ EndSession(c, state)
    /\ over' = over \cup {active[c].call}
    /\ hungUp' = hungUp \cup ({active[c].call} \cap rung)
    /\ UNCHANGED <<linkVars, down, serverVars, incoming, dialled, rung,
                   answered, refused>>

\* The button, which is there until the session is cleared (bound: not again
\* while the session shows "ended").
EndCall(c) ==
    /\ incoming[c] = NONE
    /\ active[c] # NONE => active[c].state # "ended"
    /\ HangUp(c, "ended")

\* The outgoing ring timed out.
NoAnswer(c) ==
    /\ active[c] # NONE => active[c].out /\ active[c].state = "ringing"
    /\ HangUp(c, "no_answer")

\* clearAfter's timeout.
ClearAny(c, k) == active[c] # NONE                                   \* mutant
StillCurrent(c, k) == active[c] # NONE /\ active[c].call = k

ClearAfter(c, k) ==
    /\ k \in timers[c]
    /\ timers' = [timers EXCEPT ![c] = @ \ {k}]
    /\ active' = IF StillCurrent(c, k) THEN [active EXCEPT ![c] = NONE] ELSE active
    /\ UNCHANGED <<linkVars, up, down, serverVars, incoming, meshVars, histVars>>

\* WebRTCManager sends an offer, an answer or a candidate to its peer, under
\* the call it was made for.
Signalling(c) == \/ \E m \in ToSet(up[c]) : m.op = "signal"
                 \/ \E m \in ToSet(down[c]) : m.ev = "signal"

Signal(c) ==
    /\ rtc[c] # NONE /\ peer[c] # NONE
    /\ Cardinality({x \in Clients : Signalling(x)}) < MaxSignals
    /\ SendUp(c, "signal", rtc[c], peer[c])
    /\ UNCHANGED <<linkVars, down, serverVars, sessionVars, meshVars, histVars>>

----------------------------------------------------------------------------
(***************************************************************************)
(* The server.  A handler takes the next event of a tab; where it awaits   *)
(* it leaves a task behind.                                                *)
(***************************************************************************)
\* sendToUser, as the events it adds for every tab that will get them.
SendTo(q, u, ev, k, by) ==
    [c \in Clients |->
        IF UserOf[c] = u /\ c \in linked
        THEN Append(q[c], [ev |-> ev, call |-> k, by |-> by]) ELSE q[c]]

IsUserConnected(u) == \E c \in Clients : UserOf[c] = u /\ c \in linked \cup stale

\* The tab's next event.
Takes(c, op) == c \in linked /\ up[c] # <<>> /\ Head(up[c]).op = op

Task(stage, k, c, to) == [stage |-> stage, call |-> k, tab |-> c, to |-> to]

\* call_start, call_accept and call_decline first look up who sent them.
Handle(c) ==
    /\ \E op \in {"start", "accept", "decline"} : Takes(c, op)
    /\ Cardinality(tasks) < MaxTasks
    /\ LET m == Head(up[c])
       IN  tasks' = tasks \cup {Task(m.op, m.call, c, m.to)}
    /\ up' = [up EXCEPT ![c] = Tail(@)]
    /\ UNCHANGED <<linkVars, down, activeCalls, missed, sessionVars, meshVars,
                   histVars>>

\* call_end retires the call at once; nobody having accepted it, a notice is
\* stored before the other side is told.
NobodyAccepted(k) == activeCalls[k] = {}

HandleEnd(c) ==
    /\ Takes(c, "end")
    /\ LET m == Head(up[c])
       IN  /\ activeCalls' = [activeCalls EXCEPT ![m.call] = NONE]
           /\ Cardinality(tasks) < MaxTasks
           /\ IF NobodyAccepted(m.call)
              THEN /\ tasks' = tasks \cup {Task("endMissed", m.call, c, m.to)}
                   /\ down' = down
              ELSE /\ tasks' = tasks
                   /\ down' = SendTo(down, m.to, "ended", m.call, UserOf[c])
    /\ up' = [up EXCEPT ![c] = Tail(@)]
    /\ UNCHANGED <<linkVars, missed, sessionVars, meshVars, histVars>>

\* handleRtcRelay: only to somebody in the call.
HandleSignal(c) ==
    /\ Takes(c, "signal")
    /\ LET m == Head(up[c])
           isParticipant == /\ activeCalls[m.call] # NONE
                            /\ m.to \in activeCalls[m.call] \cup {dialled[m.call].from}
       IN  down' = IF isParticipant
                   THEN SendTo(down, m.to, "signal", m.call, UserOf[c]) ELSE down
    /\ up' = [up EXCEPT ![c] = Tail(@)]
    /\ UNCHANGED <<linkVars, serverVars, sessionVars, meshVars, histVars>>

\* handleCallStart after its lookups.
FinishStart(t) ==
    /\ t.stage = "start"
    /\ activeCalls' = [activeCalls EXCEPT ![t.call] = {}]
    /\ \/ /\ IsUserConnected(t.to)
          /\ tasks' = tasks \ {t}
          /\ down' = SendTo(down, t.to, "incoming", t.call, UserOf[t.tab])
          /\ rung' = rung \cup {t.call}
       \/ /\ ~IsUserConnected(t.to)
          /\ tasks' = (tasks \ {t}) \cup {Task("startMissed", t.call, t.tab, t.to)}
          /\ UNCHANGED <<down, rung>>
    /\ UNCHANGED <<linkVars, up, missed, sessionVars, meshVars, dialled,
                   answered, refused, over, hungUp>>

\* recordMissedCall, then the event that was waiting for it.
FinishMissed(t) ==
    /\ t.stage \in {"startMissed", "endMissed"}
    /\ missed' = [missed EXCEPT ![t.call] = @ + 1]
    /\ tasks' = tasks \ {t}
    /\ IF t.stage = "startMissed"
       THEN /\ down' = SendTo(down, UserOf[t.tab], "unavailable", t.call, UserOf[t.tab])
            /\ over' = over \cup {t.call}
       ELSE /\ down' = SendTo(down, t.to, "ended", t.call, UserOf[t.tab])
            /\ over' = over
    /\ UNCHANGED <<linkVars, up, activeCalls, sessionVars, meshVars, dialled,
                   rung, answered, refused, hungUp>>

\* handleCallAccept after its lookup.
Join(k, u) ==
    activeCalls' = IF activeCalls[k] = NONE THEN activeCalls
                   ELSE [activeCalls EXCEPT ![k] = @ \cup {u}]

FinishAccept(t) ==
    /\ t.stage = "accept"
    /\ Join(t.call, UserOf[t.tab])
    /\ tasks' = (tasks \ {t}) \cup
                   IF activeCalls[t.call] = NONE THEN {}
                   ELSE {Task("participants", t.call, t.tab, t.to)}
    /\ down' = SendTo(down, t.to, "accepted", t.call, UserOf[t.tab])
    /\ UNCHANGED <<linkVars, up, missed, sessionVars, meshVars, histVars>>

\* broadcastParticipants after its lookups: caller and callee learn of each
\* other.
FinishParticipants(t) ==
    /\ t.stage = "participants"
    /\ tasks' = tasks \ {t}
    /\ down' = SendTo(SendTo(down, t.to, "participants", t.call, UserOf[t.tab]),
                      UserOf[t.tab], "participants", t.call, t.to)
    /\ UNCHANGED <<linkVars, up, activeCalls, missed, sessionVars, meshVars,
                   histVars>>

\* handleCallDecline after its lookup.
CopiedReply == "accepted"                                            \* mutant
DeclineReply == "declined"

FinishDecline(t) ==
    /\ t.stage = "decline"
    /\ activeCalls' = [activeCalls EXCEPT ![t.call] = NONE]
    /\ tasks' = tasks \ {t}
    /\ down' = SendTo(down, t.to, DeclineReply, t.call, UserOf[t.tab])
    /\ UNCHANGED <<linkVars, up, missed, sessionVars, meshVars, histVars>>

----------------------------------------------------------------------------
(***************************************************************************)
(* The tab: what the server's events do.                                   *)
(***************************************************************************)
\* The next event for the tab is ev, and it is about call k.
Gets(c, ev, k) ==
    /\ down[c] # <<>>
    /\ Head(down[c]).ev = ev
    /\ k = Head(down[c]).call
    /\ down' = [down EXCEPT ![c] = Tail(@)]
    /\ UNCHANGED <<linkVars, up, serverVars, histVars>>

\* Every handler but handleIncoming looks for its call among the sessions.
AnySession(c, k) == active[c] # NONE                                 \* mutant
IsActive(c, k) == active[c] # NONE /\ active[c].call = k

Ignored(c) ==
    \E k \in CallIds, ev \in Replies \ {"incoming"} :
        /\ Gets(c, ev, k)
        /\ ~IsActive(c, k)
        /\ incoming' = IF ev = "ended" /\ incoming[c] = k
                       THEN [incoming EXCEPT ![c] = NONE] ELSE incoming
        /\ UNCHANGED <<active, timers, meshVars>>

HandleIncoming(c) ==
    \E k \in CallIds :
        /\ Gets(c, "incoming", k)
        /\ incoming' = [incoming EXCEPT ![c] = k]
        /\ UNCHANGED <<active, timers, meshVars>>

HandleAccepted(c) ==
    \E k \in CallIds :
        /\ IsActive(c, k)
        /\ Gets(c, "accepted", k)
        /\ active' = [active EXCEPT ![c].state = "connected"]
        /\ UNCHANGED <<incoming, timers, meshVars>>

\* handleDeclined, handleUnavailable and handleEnded close the session.
HandleClosed(c) ==
    \E k \in CallIds, ev \in {"declined", "unavailable", "ended"} :
        /\ IsActive(c, k)
        /\ Gets(c, ev, k)
        /\ TeardownRtc(c)
        /\ EndSession(c, ev)
        /\ UNCHANGED incoming

\* handleParticipants and the three handleRtc: the mesh gets a connection to
\* the other user.
HandleMesh(c) ==
    \E k \in CallIds, ev \in {"participants", "signal"} :
        /\ IsActive(c, k)
        /\ Gets(c, ev, k)
        /\ rtc' = IF rtc[c] = NONE THEN [rtc EXCEPT ![c] = k] ELSE rtc
        /\ peer' = [peer EXCEPT ![c] = Head(down[c]).by]
        /\ UNCHANGED sessionVars

----------------------------------------------------------------------------
(***************************************************************************)
(* The connection.                                                         *)
(***************************************************************************)
\* The connection is lost with what was on it; the server may be the last to
\* know.
Unlink(c) ==
    /\ drops < MaxDrops
    /\ drops' = drops + 1
    /\ linked' = linked \ {c}
    /\ \/ stale' = stale
       \/ stale' = IF c \in linked THEN stale \cup {c} ELSE stale
    /\ down' = [down EXCEPT ![c] = <<>>]
    /\ up' = [up EXCEPT ![c] = <<>>]
    /\ hungUp' = hungUp \ {m.call : m \in ToSet(up[c])}
    /\ UNCHANGED <<dialled, rung, answered, refused, over>>

Drop(c) ==
    /\ c \in linked
    /\ Unlink(c)
    /\ UNCHANGED <<serverVars, sessionVars, meshVars>>

\* The page is left or reloaded, or the user signs out (callStore.clear).
Leave(c) ==
    /\ Unlink(c)
    /\ active' = [active EXCEPT ![c] = NONE]
    /\ incoming' = [incoming EXCEPT ![c] = NONE]
    /\ timers' = [timers EXCEPT ![c] = {}]
    /\ TeardownRtc(c)
    /\ UNCHANGED serverVars

Relink(c) ==
    /\ c \notin linked
    /\ linked' = linked \cup {c}
    /\ UNCHANGED <<stale, drops, up, down, serverVars, sessionVars, meshVars,
                   histVars>>

\* The server finds out that an old connection is gone.
Forget(c) ==
    /\ c \in stale
    /\ stale' = stale \ {c}
    /\ UNCHANGED <<linked, drops, up, down, serverVars, sessionVars, meshVars,
                   histVars>>

----------------------------------------------------------------------------
Tab(c) ==
    \/ \E u \in Users, k \in CallIds : StartCall(c, u, k)
    \/ Accept(c)
    \/ Decline(c)
    \/ Missed(c)
    \/ EndCall(c)
    \/ NoAnswer(c)
    \/ \E k \in CallIds : ClearAfter(c, k)
    \/ Signal(c)
    \/ HandleIncoming(c)
    \/ HandleAccepted(c)
    \/ HandleClosed(c)
    \/ HandleMesh(c)
    \/ Ignored(c)

Server ==
    \/ \E c \in Clients : Handle(c) \/ HandleEnd(c) \/ HandleSignal(c)
    \/ \E t \in tasks : \/ FinishStart(t)
                        \/ FinishMissed(t)
                        \/ FinishAccept(t)
                        \/ FinishParticipants(t)
                        \/ FinishDecline(t)

Network ==
    \/ \E c \in Clients : Drop(c)
    \/ \E c \in Clients : Leave(c)
    \/ \E c \in Clients : Relink(c)
    \/ \E c \in Clients : Forget(c)

Next == (\E c \in Clients : Tab(c)) \/ Server \/ Network

Spec == Init /\ [][Next]_vars

(***************************************************************************)
(* Fairness: only the timeouts callStore sets itself.  The ring timeouts   *)
(* belong to modals that exist only while the dashboard page is shown.     *)
(***************************************************************************)
FairSpec == /\ Spec
            /\ \A c \in Clients, k \in CallIds : WF_vars(ClearAfter(c, k))

----------------------------------------------------------------------------
(***************************************************************************)
(* What the signalling promises.                                           *)
(***************************************************************************)
\* A caller is only told that the call is connected when somebody accepted
\* that very call, whatever the order in which handlers finish and however
\* late their events arrive (handleCallAccept, handleAccepted).
ConnectedMeansAnswered ==
    \A c \in Clients :
        active[c] # NONE /\ active[c].state = "connected" => active[c].call \in answered

\* A call that rang and was ended with nobody having touched it leaves a
\* missed-call notice, whichever side gave up first (handleCallEnd, missed).
UnansweredIsRecorded ==
    \A k \in hungUp \ (answered \cup refused) :
        \/ missed[k] > 0
        \/ \E c \in Clients : \E m \in ToSet(up[c]) : m.op = "end" /\ m.call = k
        \/ \E t \in tasks : t.stage = "endMissed" /\ t.call = k

\* A live session is never ended by anything but its own call being over,
\* its user taking another call, or the page being left: not by an event or
\* a timeout that belongs to another call.
NoSpontaneousHangup ==
    [][\A c \in Clients :
          active[c] # NONE /\ active[c].state \in Live =>
             \/ active'[c] # NONE /\ active'[c].call = active[c].call
                                  /\ active'[c].state \in Live
             \/ active[c].call \in over'
             \/ incoming[c] # NONE /\ incoming'[c] = NONE /\ incoming[c] \in answered'
             \/ drops' # drops]_vars

\* A session that is over does not stay on the screen.
SessionsClear ==
    \A c \in Clients, k \in CallIds :
        (active[c] # NONE /\ active[c].call = k /\ active[c].state \notin Live)
            ~> (active[c] = NONE \/ active[c].call # k)
=============================================================================
