---------------------------- MODULE CallsProofs ----------------------------
(***************************************************************************)
(* The promises of the signalling for any users, tabs and calls, any       *)
(* number of tabs of one user, and whatever connections are lost.          *)
(*                                                                         *)
(* None of them is inductive: the session of a tab is only as true as the  *)
(* events on their way to it, these as the handlers that wait for the      *)
(* database, and these as the requests on their way to the server.  So     *)
(* the invariant says of all four what they have to be true of (UpFine,    *)
(* TaskFine, DownFine), and of a call that rang where its notice is.       *)
(***************************************************************************)
EXTENDS Calls, TLAPS

\* What a request on its way says has happened.
UpFine(m) ==
    /\ m.op = "start" => dialled[m.call] # NONE
    /\ m.op = "accept" => m.call \in answered
    /\ m.op = "decline" => m.call \in refused
    /\ m.op \in {"decline", "end"} => m.call \in over

\* What a handler that waits for the database is about to say.
TaskFine(t) ==
    /\ t.stage = "start" => dialled[t.call] # NONE
    /\ t.stage = "accept" => t.call \in answered
    /\ t.stage = "decline" => t.call \in refused
    /\ t.stage \in {"decline", "endMissed"} => t.call \in over

\* What an event on its way to a tab says has happened.
DownFine(m) ==
    /\ m.ev = "incoming" => dialled[m.call] # NONE
    /\ m.ev = "accepted" => m.call \in answered
    /\ m.ev \in {"declined", "unavailable", "ended"} => m.call \in over

UpsFine == \A c \in Clients : \A m \in ToSet(up[c]) : UpFine(m)
TasksFine == \A t \in tasks : TaskFine(t)
DownsFine == \A c \in Clients : \A m \in ToSet(down[c]) : DownFine(m)
RingsDialled == \A c \in Clients : incoming[c] # NONE => dialled[incoming[c]] # NONE

IFine == TypeOK /\ UpsFine /\ TasksFine /\ DownsFine /\ RingsDialled

\* Only a session that was over has a timeout to clear it.
TimersAreOver == \A c \in Clients : timers[c] \subseteq over

\* A call that rang stays in activeCalls with nobody in it, or has its notice.
Noticed(k) == missed[k] > 0 \/ \E t \in tasks : t.stage = "endMissed" /\ t.call = k

RangIsKnown ==
    /\ hungUp \subseteq rung
    /\ \A k \in rung \ (answered \cup refused) : activeCalls[k] = {} \/ Noticed(k)

IInv == /\ IFine
        /\ ConnectedMeansAnswered
        /\ TimersAreOver
        /\ RangIsKnown
        /\ UnansweredIsRecorded

-----------------------------------------------------------------------------
(* Queues.                                                                 *)

LEMMA Appended ==
  ASSUME NEW S, NEW s \in Seq(S), NEW x \in S
  PROVE  Append(s, x) \in Seq(S) /\ ToSet(Append(s, x)) = ToSet(s) \cup {x}
  <1>1. Append(s, x) \in Seq(S) /\ DOMAIN Append(s, x) = 1..(Len(s) + 1) /\ DOMAIN s = 1..Len(s)
        /\ Len(s) \in Nat
    OBVIOUS
  <1>2. Append(s, x)[Len(s) + 1] = x /\ \A i \in 1..Len(s) : Append(s, x)[i] = s[i]
    OBVIOUS
  <1>3. ToSet(s) \cup {x} \subseteq ToSet(Append(s, x))
    BY <1>1, <1>2 DEF ToSet
  <1>4. \A i \in 1..(Len(s) + 1) : i \in 1..Len(s) \/ i = Len(s) + 1
    BY <1>1
  <1>5. ToSet(Append(s, x)) \subseteq ToSet(s) \cup {x}
    BY <1>1, <1>2, <1>4 DEF ToSet
  <1>6. QED
    BY <1>1, <1>3, <1>5

LEMMA Taken ==
  ASSUME NEW S, NEW s \in Seq(S), s # <<>>
  PROVE  /\ Head(s) \in S /\ Tail(s) \in Seq(S)
         /\ Head(s) \in ToSet(s)
         /\ ToSet(Tail(s)) \subseteq ToSet(s)
         /\ ToSet(s) \subseteq ToSet(Tail(s)) \cup {Head(s)}
  <1>1. Len(s) \in Nat \ {0} /\ DOMAIN s = 1..Len(s) /\ Head(s) = s[1]
    OBVIOUS
  <1>2. Tail(s) \in Seq(S) /\ DOMAIN Tail(s) = 1..(Len(s) - 1)
    BY <1>1
  <1>3. \A i \in DOMAIN Tail(s) : Tail(s)[i] = s[i + 1] /\ i + 1 \in DOMAIN s
    BY <1>1, <1>2
  <1>4. \A i \in DOMAIN s : i = 1 \/ (i - 1 \in DOMAIN Tail(s) /\ s[i] = Tail(s)[i - 1])
    BY <1>1, <1>2, <1>3
  <1>5. Head(s) \in S /\ Head(s) \in ToSet(s)
    BY <1>1 DEF ToSet
  <1>6. ToSet(Tail(s)) \subseteq ToSet(s)
    BY <1>3 DEF ToSet
  <1>7. ToSet(s) \subseteq ToSet(Tail(s)) \cup {Head(s)}
    BY <1>1, <1>4 DEF ToSet
  <1>8. QED
    BY <1>2, <1>5, <1>6, <1>7

-----------------------------------------------------------------------------
(* What has happened does not unhappen, so what was fine stays so.         *)

Grows ==
    /\ \A k \in CallIds : dialled[k] # NONE => dialled'[k] # NONE
    /\ answered \subseteq answered' /\ refused \subseteq refused' /\ over \subseteq over'

LEMMA NextGrows ==
  ASSUME TypeOK, Next
  PROVE  Grows
  <1>1. ASSUME NEW c \in Clients, Tab(c) PROVE Grows
    <2>1. \A k \in CallIds : dialled[k] # NONE => dialled'[k] # NONE
      <3>1. dialled' = dialled \/ \E u \in Users, k \in CallIds : StartCall(c, u, k)
        BY <1>1 DEF Tab, Accept, Decline, Missed, Dismiss, EndCall, NoAnswer, HangUp,
           ClearAfter, Signal, HandleIncoming, HandleAccepted, HandleClosed, HandleMesh,
           Ignored, Gets, histVars
      <3>2. ASSUME NEW u \in Users, NEW k \in CallIds, StartCall(c, u, k)
            PROVE  \A j \in CallIds : dialled[j] # NONE => dialled'[j] # NONE
        BY <3>2 DEF StartCall, TypeOK
      <3>3. QED
        BY <3>1, <3>2
    <2>2. answered \subseteq answered' /\ refused \subseteq refused' /\ over \subseteq over'
      BY <1>1 DEF Tab, StartCall, Accept, Decline, Missed, Dismiss, EndCall, NoAnswer, HangUp,
         ClearAfter, Signal, HandleIncoming, HandleAccepted, HandleClosed, HandleMesh,
         Ignored, Gets, histVars
    <2>3. QED
      BY <2>1, <2>2 DEF Grows
  <1>2. ASSUME Server PROVE Grows
    BY <1>2 DEF Server, Grows, Handle, HandleEnd, HandleSignal, FinishStart, FinishMissed,
       FinishAccept, FinishParticipants, FinishDecline, histVars
  <1>3. ASSUME Network PROVE Grows
    BY <1>3 DEF Network, Grows, Drop, Leave, Unlink, Relink, Forget, histVars
  <1>4. QED
    BY <1>1, <1>2, <1>3 DEF Next

LEMMA FineStays ==
  ASSUME Grows
  PROVE  /\ \A m \in UpMsgs : UpFine(m) => UpFine(m)'
         /\ \A t \in Tasks : TaskFine(t) => TaskFine(t)'
         /\ \A m \in DownMsgs : DownFine(m) => DownFine(m)'
         /\ TypeOK /\ RingsDialled /\ incoming' = incoming => RingsDialled'
  <1>1. \A m \in UpMsgs : m.call \in CallIds
    BY DEF UpMsgs
  <1>2. \A t \in Tasks : t.call \in CallIds
    BY DEF Tasks
  <1>3. \A m \in DownMsgs : m.call \in CallIds
    BY DEF DownMsgs
  <1>4. \A m \in UpMsgs : UpFine(m) => UpFine(m)'
    BY <1>1 DEF Grows, UpFine
  <1>5. \A t \in Tasks : TaskFine(t) => TaskFine(t)'
    BY <1>2 DEF Grows, TaskFine
  <1>6. \A m \in DownMsgs : DownFine(m) => DownFine(m)'
    BY <1>3 DEF Grows, DownFine
  <1>7. TypeOK /\ RingsDialled /\ incoming' = incoming => RingsDialled'
    BY DEF Grows, TypeOK, RingsDialled
  <1>8. QED
    BY <1>4, <1>5, <1>6, <1>7

-----------------------------------------------------------------------------
(* What the queues hold after a step.                                      *)

UpOK == up \in [Clients -> Seq(UpMsgs)] /\ UpsFine
DownOK == down \in [Clients -> Seq(DownMsgs)] /\ DownsFine
TasksOK == tasks \subseteq Tasks /\ TasksFine

LEMMA Untouched ==
  ASSUME IFine, Grows
  PROVE  /\ up' = up => UpOK'
         /\ down' = down => DownOK'
         /\ tasks' \subseteq tasks => TasksOK'
  <1>1. \A c \in Clients : ToSet(up[c]) \subseteq UpMsgs /\ ToSet(down[c]) \subseteq DownMsgs
    BY DEF IFine, TypeOK, ToSet
  <1>2. up' = up => UpOK'
    BY <1>1, FineStays DEF IFine, TypeOK, UpOK, UpsFine
  <1>3. down' = down => DownOK'
    BY <1>1, FineStays DEF IFine, TypeOK, DownOK, DownsFine
  <1>4. tasks' \subseteq tasks => TasksOK'
    BY FineStays DEF IFine, TypeOK, TasksOK, TasksFine
  <1>5. QED
    BY <1>2, <1>3, <1>4

\* A request is sent.
LEMMA Sent ==
  ASSUME IFine, Grows, NEW c \in Clients, NEW op \in Requests, NEW k \in CallIds,
         NEW u \in Users, SendUp(c, op, k, u),
         UpFine([op |-> op, call |-> k, to |-> u])'
  PROVE  /\ UpOK'
         /\ \A d \in Clients : ToSet(up[d]) \subseteq ToSet(up'[d])
         /\ [op |-> op, call |-> k, to |-> u] \in ToSet(up'[c])
  <1> DEFINE m == [op |-> op, call |-> k, to |-> u]
  <1>1. m \in UpMsgs
    BY DEF UpMsgs
  <1>2. up \in [Clients -> Seq(UpMsgs)]
    BY DEF IFine, TypeOK
  <1>3. up' = [up EXCEPT ![c] = Append(up[c], m)]
    BY DEF SendUp
  <1>4. UpFine(m)'
    OBVIOUS
  <1> HIDE DEF m
  <1>5. up' \in [Clients -> Seq(UpMsgs)] /\ up'[c] = Append(up[c], m)
        /\ \A d \in Clients : d # c => up'[d] = up[d]
    BY <1>1, <1>2, <1>3, Appended
  <1>6. ToSet(up'[c]) = ToSet(up[c]) \cup {m}
    BY <1>1, <1>2, <1>5, Appended
  <1>7. \A d \in Clients : \A x \in ToSet(up[d]) : UpFine(x)'
    <2>1. \A d \in Clients : ToSet(up[d]) \subseteq UpMsgs
      BY <1>2 DEF ToSet
    <2>2. QED
      BY <2>1, FineStays DEF IFine, UpsFine
  <1>8. UpsFine'
    BY <1>4, <1>5, <1>6, <1>7 DEF UpsFine
  <1>9. QED
    BY <1>5, <1>6, <1>8 DEF UpOK, m

\* The server takes a request.
LEMMA TakenUp ==
  ASSUME IFine, Grows, NEW c \in Clients, up[c] # <<>>, up' = [up EXCEPT ![c] = Tail(@)]
  PROVE  /\ UpOK'
         /\ Head(up[c]) \in UpMsgs /\ UpFine(Head(up[c]))
         /\ \A d \in Clients : ToSet(up[d]) \subseteq
                IF d = c THEN ToSet(up'[d]) \cup {Head(up[c])} ELSE ToSet(up'[d])
  <1>1. up \in [Clients -> Seq(UpMsgs)] /\ up[c] \in Seq(UpMsgs)
    BY DEF IFine, TypeOK
  <1>2. Head(up[c]) \in UpMsgs /\ Tail(up[c]) \in Seq(UpMsgs)
        /\ Head(up[c]) \in ToSet(up[c]) /\ ToSet(Tail(up[c])) \subseteq ToSet(up[c])
        /\ ToSet(up[c]) \subseteq ToSet(Tail(up[c])) \cup {Head(up[c])}
    BY <1>1, Taken
  <1>3. up' \in [Clients -> Seq(UpMsgs)] /\ up'[c] = Tail(up[c])
        /\ \A d \in Clients : d # c => up'[d] = up[d]
    BY <1>1, <1>2
  <1>4. \A d \in Clients : ToSet(up[d]) \subseteq UpMsgs
    BY <1>1 DEF ToSet
  <1>5. \A d \in Clients : \A x \in ToSet(up[d]) : UpFine(x) /\ UpFine(x)'
    BY <1>4, FineStays DEF IFine, UpsFine
  <1>6. \A d \in Clients : ToSet(up'[d]) \subseteq ToSet(up[d])
    BY <1>2, <1>3
  <1>7. UpsFine'
    BY <1>5, <1>6 DEF UpsFine
  <1>8. UpOK'
    BY <1>3, <1>7 DEF UpOK
  <1>9. ASSUME NEW d \in Clients
        PROVE  ToSet(up[d]) \subseteq
                   IF d = c THEN ToSet(up'[d]) \cup {Head(up[c])} ELSE ToSet(up'[d])
    <2>1. CASE d = c
      BY <1>2, <1>3, <2>1
    <2>2. CASE d # c
      BY <1>3, <2>2
    <2>3. QED
      BY <2>1, <2>2
  <1>10. UpFine(Head(up[c]))
    BY <1>2, <1>5
  <1>11. QED
    BY <1>2, <1>8, <1>9, <1>10

\* Events are sent to the tabs of a user.
LEMMA SentTo ==
  ASSUME NEW q \in [Clients -> Seq(DownMsgs)], NEW u \in Users, NEW ev \in Replies,
         NEW k \in CallIds, NEW by \in Users
  PROVE  /\ SendTo(q, u, ev, k, by) \in [Clients -> Seq(DownMsgs)]
         /\ \A c \in Clients : ToSet(SendTo(q, u, ev, k, by)[c]) \subseteq
                ToSet(q[c]) \cup {[ev |-> ev, call |-> k, by |-> by]}
  <1> DEFINE m == [ev |-> ev, call |-> k, by |-> by]
  <1>1. m \in DownMsgs
    BY DEF DownMsgs
  <1>2. \A c \in Clients : SendTo(q, u, ev, k, by)[c] \in {q[c], Append(q[c], m)}
    BY DEF SendTo
  <1>3. SendTo(q, u, ev, k, by) = [c \in Clients |-> SendTo(q, u, ev, k, by)[c]]
    BY DEF SendTo
  <1> HIDE DEF m
  <1>4. \A c \in Clients : Append(q[c], m) \in Seq(DownMsgs)
                        /\ ToSet(Append(q[c], m)) = ToSet(q[c]) \cup {m}
    BY <1>1, Appended
  <1>5. \A c \in Clients : SendTo(q, u, ev, k, by)[c] \in Seq(DownMsgs)
                        /\ ToSet(SendTo(q, u, ev, k, by)[c]) \subseteq ToSet(q[c]) \cup {m}
    BY <1>2, <1>4
  <1>6. SendTo(q, u, ev, k, by) \in [Clients -> Seq(DownMsgs)]
    BY <1>3, <1>5
  <1>7. QED
    BY <1>5, <1>6 DEF m

LEMMA SentDown ==
  ASSUME IFine, Grows, NEW u \in Users, NEW ev \in Replies,
         NEW k \in CallIds, NEW by \in Users, down' = SendTo(down, u, ev, k, by),
         DownFine([ev |-> ev, call |-> k, by |-> by])'
  PROVE  DownOK'
  <1>1. down \in [Clients -> Seq(DownMsgs)]
    BY DEF IFine, TypeOK
  <1>2. \A d \in Clients : ToSet(down[d]) \subseteq DownMsgs
    BY <1>1 DEF ToSet
  <1>3. \A d \in Clients : \A x \in ToSet(down[d]) : DownFine(x)'
    BY <1>2, FineStays DEF IFine, DownsFine
  <1> DEFINE q == SendTo(down, u, ev, k, by)
             x == [ev |-> ev, call |-> k, by |-> by]
  <1>4. q \in [Clients -> Seq(DownMsgs)]
        /\ \A d \in Clients : ToSet(q[d]) \subseteq ToSet(down[d]) \cup {x}
    BY <1>1, SentTo
  <1>5. DownFine(x)' /\ down' = q
    OBVIOUS
  <1> HIDE DEF q, x
  <1>6. DownsFine'
    BY <1>3, <1>4, <1>5 DEF DownsFine
  <1>7. QED
    BY <1>4, <1>5, <1>6 DEF DownOK

\* A tab takes an event.
LEMMA TakenDown ==
  ASSUME IFine, Grows, NEW c \in Clients, NEW ev, NEW k, Gets(c, ev, k)
  PROVE  /\ DownOK' /\ UpOK' /\ TasksOK'
         /\ Head(down[c]) \in DownMsgs /\ DownFine(Head(down[c]))
         /\ Head(down[c]).ev = ev /\ Head(down[c]).call = k /\ k \in CallIds
  <1>1. down \in [Clients -> Seq(DownMsgs)] /\ down[c] \in Seq(DownMsgs)
    BY DEF IFine, TypeOK
  <1>2. down[c] # <<>> /\ down' = [down EXCEPT ![c] = Tail(@)]
        /\ Head(down[c]).ev = ev /\ Head(down[c]).call = k
    BY DEF Gets
  <1>3. Head(down[c]) \in DownMsgs /\ Tail(down[c]) \in Seq(DownMsgs)
        /\ Head(down[c]) \in ToSet(down[c]) /\ ToSet(Tail(down[c])) \subseteq ToSet(down[c])
    BY <1>1, <1>2, Taken
  <1>4. down' \in [Clients -> Seq(DownMsgs)] /\ down'[c] = Tail(down[c])
        /\ \A d \in Clients : d # c => down'[d] = down[d]
    BY <1>1, <1>2, <1>3
  <1>5. \A d \in Clients : ToSet(down[d]) \subseteq DownMsgs
    BY <1>1 DEF ToSet
  <1>6. \A d \in Clients : \A x \in ToSet(down[d]) : DownFine(x) /\ DownFine(x)'
    BY <1>5, FineStays DEF IFine, DownsFine
  <1>7. \A d \in Clients : ToSet(down'[d]) \subseteq ToSet(down[d])
    BY <1>3, <1>4
  <1>8. DownOK'
    BY <1>4, <1>6, <1>7 DEF DownOK, DownsFine
  <1>9. UpOK' /\ TasksOK'
    BY Untouched DEF Gets, serverVars
  <1>10. k \in CallIds
    BY <1>2, <1>3 DEF DownMsgs
  <1>11. QED
    BY <1>2, <1>3, <1>6, <1>8, <1>9, <1>10

\* What the queues and rings add up to.
LEMMA Assembled ==
  ASSUME UpOK', DownOK', TasksOK', RingsDialled',
         UpOK' /\ DownOK' /\ TasksOK' => TypeOK'
  PROVE  IFine'
  BY DEF IFine, UpOK, DownOK, TasksOK

-----------------------------------------------------------------------------
(* The tab.                                                                *)

LEMMA FineUser ==
  ASSUME IFine, Grows, NEW c \in Clients,
         \/ \E u \in Users, k \in CallIds : StartCall(c, u, k)
         \/ Accept(c) \/ Decline(c) \/ Missed(c) \/ EndCall(c) \/ NoAnswer(c)
  PROVE  IFine'
  <1>0. UserOf[c] \in Users
    BY UserOfAssumption
  <1>1. ASSUME NEW u \in Users, NEW k \in CallIds, StartCall(c, u, k) PROVE IFine'
    <2>1. dialled'[k] # NONE
      BY <1>0, <1>1, NoneAssumption DEF StartCall, IFine, TypeOK, Dialled
    <2>6. UpFine([op |-> "start", call |-> k, to |-> u])'
      BY <2>1 DEF UpFine
    <2>2. UpOK'
      BY <1>1, <2>6, Sent DEF StartCall, Requests
    <2>3. DownOK' /\ TasksOK' /\ RingsDialled'
      BY <1>1, Untouched, FineStays DEF StartCall, serverVars, IFine
    <2>4. UpOK' /\ DownOK' /\ TasksOK' => TypeOK'
      <3>1. dialled' \in [CallIds -> Dialled \cup {NONE}]
        BY <1>0, <1>1 DEF StartCall, IFine, TypeOK, Dialled
      <3>2. active' \in [Clients -> Sessions \cup {NONE}]
        BY <1>1 DEF StartCall, IFine, TypeOK, Sessions, States
      <3>3. rtc' \in [Clients -> CallIds \cup {NONE}] /\ peer' \in [Clients -> Users \cup {NONE}]
        BY <1>1 DEF StartCall, StartRtc, meshVars, IFine, TypeOK
      <3>4. QED
        BY <1>1, <3>1, <3>2, <3>3 DEF StartCall, linkVars, serverVars, IFine, TypeOK, UpOK, DownOK, TasksOK
    <2>5. QED
      BY <2>2, <2>3, <2>4, Assembled
  <1>2. CASE Accept(c)
    <2>1. PICK k \in CallIds, u \in Users : k = incoming[c] /\ u = dialled[k].from /\ k # NONE
      <3>1. incoming[c] # NONE /\ incoming[c] \in CallIds
        BY <1>2 DEF Accept, IFine, TypeOK
      <3>2. dialled[incoming[c]].from \in Users
        BY <3>1 DEF IFine, TypeOK, Dialled, RingsDialled
      <3>3. QED
        BY <3>1, <3>2
    <2>2. SendUp(c, "accept", k, u) /\ answered' = answered \cup {k}
      BY <1>2, <2>1 DEF Accept
    <2>3. UpFine([op |-> "accept", call |-> k, to |-> u])'
      BY <2>2 DEF UpFine
    <2>4. UpOK'
      BY <2>1, <2>2, <2>3, Sent DEF Requests
    <2>5. DownOK' /\ TasksOK'
      BY <1>2, Untouched DEF Accept, serverVars
    <2>6. RingsDialled'
      BY <1>2 DEF Accept, Grows, IFine, TypeOK, RingsDialled
    <2>7. UpOK' /\ DownOK' /\ TasksOK' => TypeOK'
      <3>1. active' \in [Clients -> Sessions \cup {NONE}] /\ incoming' \in [Clients -> CallIds \cup {NONE}]
        BY <1>2, <2>1 DEF Accept, IFine, TypeOK, Sessions, States
      <3>2. rtc' \in [Clients -> CallIds \cup {NONE}] /\ peer' \in [Clients -> Users \cup {NONE}]
        BY <1>2, <2>1 DEF Accept, StartRtc, meshVars, IFine, TypeOK
      <3>3. answered' \subseteq CallIds
        BY <2>1, <2>2 DEF IFine, TypeOK
      <3>4. QED
        BY <1>2, <3>1, <3>2, <3>3 DEF Accept, linkVars, serverVars, IFine, TypeOK, UpOK, DownOK, TasksOK
    <2>8. QED
      BY <2>4, <2>5, <2>6, <2>7, Assembled
  <1>3. CASE Decline(c) \/ Missed(c)
    <2>1. PICK op \in {"decline", "end"} :
              Dismiss(c, op) /\ (op = "decline" => refused' = refused \cup {incoming[c]})
      BY <1>3 DEF Decline, Missed, AsMissed
    <2>2. PICK k \in CallIds, u \in Users : k = incoming[c] /\ u = dialled[k].from /\ k # NONE
      <3>1. incoming[c] # NONE /\ incoming[c] \in CallIds
        BY <2>1 DEF Dismiss, IFine, TypeOK
      <3>2. dialled[incoming[c]].from \in Users
        BY <3>1 DEF IFine, TypeOK, Dialled, RingsDialled
      <3>3. QED
        BY <3>1, <3>2
    <2>3. SendUp(c, op, k, u) /\ over' = over \cup {k}
      BY <2>1, <2>2 DEF Dismiss
    <2>4. UpFine([op |-> op, call |-> k, to |-> u])'
      BY <2>1, <2>2, <2>3 DEF UpFine
    <2>5. UpOK'
      BY <2>2, <2>3, <2>4, Sent DEF Requests
    <2>6. DownOK' /\ TasksOK'
      BY <2>1, Untouched DEF Dismiss, serverVars
    <2>7. RingsDialled'
      BY <2>1 DEF Dismiss, Grows, IFine, TypeOK, RingsDialled
    <2>8. UpOK' /\ DownOK' /\ TasksOK' => TypeOK'
      <3>1. incoming' \in [Clients -> CallIds \cup {NONE}]
        BY <2>1 DEF Dismiss, IFine, TypeOK
      <3>2. over' \subseteq CallIds
        BY <2>2, <2>3 DEF IFine, TypeOK
      <3>3. refused' \subseteq CallIds /\ hungUp' \subseteq CallIds
        BY <1>3, <2>2 DEF Decline, Missed, IFine, TypeOK
      <3>4. QED
        BY <2>1, <3>1, <3>2, <3>3 DEF Dismiss, linkVars, serverVars, meshVars, IFine, TypeOK, UpOK, DownOK, TasksOK
    <2>9. QED
      BY <2>5, <2>6, <2>7, <2>8, Assembled
  <1>4. CASE EndCall(c) \/ NoAnswer(c)
    <2>1. PICK state \in States : HangUp(c, state)
      BY <1>4 DEF EndCall, NoAnswer, States
    <2>2. PICK k \in CallIds, u \in Users :
              active[c] \in Sessions /\ k = active[c].call /\ u = active[c].with
      BY <2>1 DEF HangUp, IFine, TypeOK, Sessions
    <2>3. SendUp(c, "end", k, u) /\ over' = over \cup {k}
      BY <2>1, <2>2 DEF HangUp
    <2>4. UpFine([op |-> "end", call |-> k, to |-> u])'
      BY <2>3 DEF UpFine
    <2>5. UpOK'
      BY <2>2, <2>3, <2>4, Sent DEF Requests
    <2>6. DownOK' /\ TasksOK' /\ RingsDialled'
      BY <2>1, Untouched, FineStays DEF HangUp, serverVars, IFine
    <2>7. UpOK' /\ DownOK' /\ TasksOK' => TypeOK'
      <3>1. active' \in [Clients -> Sessions \cup {NONE}]
        BY <2>1, <2>2 DEF HangUp, EndSession, IFine, TypeOK, Sessions
      <3>2. timers' \in [Clients -> SUBSET CallIds]
        BY <2>1, <2>2 DEF HangUp, EndSession, IFine, TypeOK
      <3>3. rtc' \in [Clients -> CallIds \cup {NONE}] /\ peer' \in [Clients -> Users \cup {NONE}]
        BY <2>1 DEF HangUp, TeardownRtc, IFine, TypeOK
      <3>4. over' \subseteq CallIds /\ hungUp' \subseteq CallIds
        BY <2>1, <2>2 DEF HangUp, IFine, TypeOK
      <3>5. QED
        BY <2>1, <3>1, <3>2, <3>3, <3>4 DEF HangUp, linkVars, serverVars, IFine, TypeOK, UpOK, DownOK, TasksOK
    <2>8. QED
      BY <2>5, <2>6, <2>7, Assembled
  <1>5. QED
    BY <1>1, <1>2, <1>3, <1>4

LEMMA FinePage ==
  ASSUME IFine, Grows, NEW c \in Clients,
         \/ \E k \in CallIds : ClearAfter(c, k)
         \/ Signal(c) \/ HandleIncoming(c) \/ HandleAccepted(c) \/ HandleClosed(c)
         \/ HandleMesh(c) \/ Ignored(c)
  PROVE  IFine'
  <1>1. ASSUME NEW k \in CallIds, ClearAfter(c, k) PROVE IFine'
    <2>1. UpOK' /\ DownOK' /\ TasksOK' /\ RingsDialled'
      BY <1>1, Untouched, FineStays DEF ClearAfter, serverVars, IFine
    <2>2. timers' \in [Clients -> SUBSET CallIds] /\ active' \in [Clients -> Sessions \cup {NONE}]
      BY <1>1 DEF ClearAfter, IFine, TypeOK
    <2>3. TypeOK'
      BY <1>1, <2>2 DEF ClearAfter, linkVars, serverVars, meshVars, histVars, IFine, TypeOK
    <2>4. QED
      BY <2>1, <2>3, Assembled
  <1>2. CASE Signal(c)
    <2>1. PICK k \in CallIds, u \in Users : SendUp(c, "signal", k, u)
      BY <1>2 DEF Signal, IFine, TypeOK
    <2>2. UpFine([op |-> "signal", call |-> k, to |-> u])'
      BY DEF UpFine
    <2>3. UpOK'
      BY <2>1, <2>2, Sent DEF Requests
    <2>4. DownOK' /\ TasksOK' /\ RingsDialled'
      BY <1>2, Untouched, FineStays DEF Signal, serverVars, sessionVars, IFine
    <2>5. UpOK' => TypeOK'
      BY <1>2 DEF Signal, linkVars, serverVars, sessionVars, meshVars, histVars, IFine, TypeOK, UpOK
    <2>6. QED
      BY <2>3, <2>4, <2>5, Assembled
  <1>3. ASSUME NEW ev \in Replies, NEW k \in CallIds, Gets(c, ev, k),
               \/ ev = "incoming" /\ incoming' = [incoming EXCEPT ![c] = k]
               \/ incoming' \in {incoming, [incoming EXCEPT ![c] = NONE]},
               active' \in [Clients -> Sessions \cup {NONE}],
               timers' \in [Clients -> SUBSET CallIds],
               rtc' \in [Clients -> CallIds \cup {NONE}],
               peer' \in [Clients -> Users \cup {NONE}]
        PROVE  IFine'
    <2>1. DownOK' /\ UpOK' /\ TasksOK'
          /\ DownFine(Head(down[c])) /\ Head(down[c]).ev = ev /\ Head(down[c]).call = k
      BY <1>3, TakenDown
    <2>2. ev = "incoming" => dialled[k] # NONE
      BY <2>1 DEF DownFine
    <2>3. incoming' \in [Clients -> CallIds \cup {NONE}]
      BY <1>3 DEF IFine, TypeOK
    <2>4. RingsDialled'
      BY <1>3, <2>2 DEF Gets, histVars, IFine, TypeOK, RingsDialled
    <2>5. UpOK' /\ DownOK' /\ TasksOK' => TypeOK'
      BY <1>3, <2>3 DEF Gets, linkVars, serverVars, histVars, IFine, TypeOK, UpOK, DownOK, TasksOK
    <2>6. QED
      BY <2>1, <2>4, <2>5, Assembled
  <1>4. CASE HandleIncoming(c)
    <2>1. PICK k \in CallIds : Gets(c, "incoming", k) /\ incoming' = [incoming EXCEPT ![c] = k]
                               /\ UNCHANGED <<active, timers, meshVars>>
      BY <1>4 DEF HandleIncoming
    <2>2. QED
      BY <1>3, <2>1 DEF meshVars, Replies, IFine, TypeOK
  <1>5. CASE HandleAccepted(c)
    <2>1. PICK k \in CallIds : IsActive(c, k) /\ Gets(c, "accepted", k)
                               /\ active' = [active EXCEPT ![c].state = "connected"]
                               /\ UNCHANGED <<incoming, timers, meshVars>>
      BY <1>5 DEF HandleAccepted
    <2>4. active[c] \in Sessions
      BY <2>1 DEF IsActive, IFine, TypeOK
    <2>2. active' \in [Clients -> Sessions \cup {NONE}]
      BY <2>1, <2>4 DEF IFine, TypeOK, Sessions, States
    <2>3. QED
      BY <1>3, <2>1, <2>2 DEF meshVars, Replies, IFine, TypeOK
  <1>6. CASE HandleClosed(c)
    <2>1. PICK k \in CallIds, ev \in {"declined", "unavailable", "ended"} :
              IsActive(c, k) /\ Gets(c, ev, k) /\ TeardownRtc(c) /\ EndSession(c, ev)
              /\ UNCHANGED incoming
      BY <1>6 DEF HandleClosed
    <2>2. active[c] \in Sessions
      BY <2>1 DEF IsActive, IFine, TypeOK
    <2>3. active' \in [Clients -> Sessions \cup {NONE}]
      BY <2>1, <2>2 DEF EndSession, IFine, TypeOK, Sessions, States
    <2>4. timers' \in [Clients -> SUBSET CallIds]
      BY <2>1, <2>2 DEF EndSession, IFine, TypeOK, Sessions
    <2>5. rtc' \in [Clients -> CallIds \cup {NONE}] /\ peer' \in [Clients -> Users \cup {NONE}]
      BY <2>1 DEF TeardownRtc, IFine, TypeOK
    <2>6. QED
      BY <1>3, <2>1, <2>3, <2>4, <2>5 DEF Replies
  <1>7. CASE HandleMesh(c)
    <2>1. PICK k \in CallIds, ev \in {"participants", "signal"} :
              Gets(c, ev, k) /\ rtc' = (IF rtc[c] = NONE THEN [rtc EXCEPT ![c] = k] ELSE rtc)
              /\ peer' = [peer EXCEPT ![c] = Head(down[c]).by] /\ UNCHANGED sessionVars
      BY <1>7 DEF HandleMesh
    <2>2. Head(down[c]).by \in Users
      BY <2>1, TakenDown DEF DownMsgs
    <2>3. rtc' \in [Clients -> CallIds \cup {NONE}]
      BY <2>1 DEF IFine, TypeOK
    <2>4. peer' \in [Clients -> Users \cup {NONE}]
      BY <2>1, <2>2 DEF IFine, TypeOK
    <2>5. incoming' = incoming /\ active' = active /\ timers' = timers
      BY <2>1 DEF sessionVars
    <2>6. active' \in [Clients -> Sessions \cup {NONE}] /\ timers' \in [Clients -> SUBSET CallIds]
      BY <2>5 DEF IFine, TypeOK
    <2>7. ev \in Replies
      BY DEF Replies
    <2>8. QED
      BY <1>3, <2>1, <2>3, <2>4, <2>5, <2>6, <2>7
  <1>8. CASE Ignored(c)
    <2>1. PICK k \in CallIds, ev \in Replies \ {"incoming"} :
              Gets(c, ev, k) /\ incoming' \in {incoming, [incoming EXCEPT ![c] = NONE]}
              /\ UNCHANGED <<active, timers, meshVars>>
      BY <1>8 DEF Ignored
    <2>2. QED
      BY <1>3, <2>1 DEF meshVars, Replies, IFine, TypeOK
  <1>9. QED
    BY <1>1, <1>2, <1>4, <1>5, <1>6, <1>7, <1>8

-----------------------------------------------------------------------------
(* The server.                                                             *)

LEMMA TasksGrow ==
  ASSUME IFine, Grows, NEW t \in Tasks, TaskFine(t)', tasks' \subseteq tasks \cup {t}
  PROVE  TasksOK'
  BY FineStays DEF IFine, TypeOK, TasksOK, TasksFine

\* What a handler leaves alone.
LEMMA ServerFine ==
  ASSUME IFine, Grows, UpOK', DownOK', TasksOK',
         activeCalls' \in [CallIds -> (SUBSET Users) \cup {NONE}],
         missed' \in [CallIds -> Nat], rung' \subseteq CallIds, over' \subseteq CallIds,
         UNCHANGED <<linkVars, sessionVars, meshVars, dialled, answered, refused, hungUp>>
  PROVE  IFine'
  <1>1. RingsDialled'
    BY FineStays DEF sessionVars, IFine
  <1>2. TypeOK'
    BY DEF linkVars, sessionVars, meshVars, IFine, TypeOK, UpOK, DownOK, TasksOK
  <1>3. QED
    BY <1>1, <1>2, Assembled

LEMMA FineHandlers ==
  ASSUME IFine, Grows, NEW c \in Clients, Handle(c) \/ HandleEnd(c) \/ HandleSignal(c)
  PROVE  IFine'
  <1>1. /\ up[c] # <<>> /\ up' = [up EXCEPT ![c] = Tail(@)]
        /\ UNCHANGED <<linkVars, missed, sessionVars, meshVars, histVars>>
    BY DEF Handle, HandleEnd, HandleSignal, Takes, serverVars
  <1>2. PICK m \in UpMsgs : m = Head(up[c]) /\ UpFine(m)
    BY <1>1, TakenUp
  <1>3. UpOK' /\ UpFine(m)'
    BY <1>1, <1>2, TakenUp, FineStays
  <1>4. m.call \in CallIds /\ m.to \in Users /\ m.op \in Requests /\ UserOf[c] \in Users
    BY UserOfAssumption DEF UpMsgs
  <1>5. /\ missed' \in [CallIds -> Nat] /\ rung' \subseteq CallIds /\ over' \subseteq CallIds
        /\ UNCHANGED <<linkVars, sessionVars, meshVars, dialled, answered, refused, hungUp>>
    BY <1>1 DEF histVars, IFine, TypeOK
  <1>6. CASE Handle(c)
    <2>1. m.op \in {"start", "accept", "decline"} /\ tasks' = tasks \cup {Task(m.op, m.call, c, m.to)}
          /\ UNCHANGED <<down, activeCalls>>
      BY <1>2, <1>6 DEF Handle, Takes
    <2>2. Task(m.op, m.call, c, m.to) \in Tasks
      BY <1>4, <2>1 DEF Task, Tasks, Stages
    <2>3. TaskFine(Task(m.op, m.call, c, m.to))'
      BY <1>3, <2>1 DEF UpFine, TaskFine, Task
    <2>4. TasksOK'
      BY <2>1, <2>2, <2>3, TasksGrow
    <2>5. DownOK'
      BY <2>1, Untouched
    <2>6. activeCalls' \in [CallIds -> (SUBSET Users) \cup {NONE}]
      BY <2>1 DEF IFine, TypeOK
    <2>7. QED
      BY <1>3, <1>5, <2>4, <2>5, <2>6, ServerFine
  <1>7. CASE HandleEnd(c)
    <2>1. /\ m.op = "end"
          /\ activeCalls' = [activeCalls EXCEPT ![m.call] = NONE]
          /\ \/ tasks' = tasks \cup {Task("endMissed", m.call, c, m.to)} /\ down' = down
             \/ tasks' = tasks /\ down' = SendTo(down, m.to, "ended", m.call, UserOf[c])
      BY <1>2, <1>7 DEF HandleEnd, Takes
    <2>2. Task("endMissed", m.call, c, m.to) \in Tasks
      BY <1>4 DEF Task, Tasks, Stages
    <2>3. m.call \in over'
      BY <1>3, <2>1 DEF UpFine
    <2>4. TaskFine(Task("endMissed", m.call, c, m.to))'
      BY <2>3 DEF TaskFine, Task
    <2>5. TasksOK'
      BY <2>1, <2>2, <2>4, TasksGrow
    <2>6. DownFine([ev |-> "ended", call |-> m.call, by |-> UserOf[c]])'
      BY <2>3 DEF DownFine
    <2>7. DownOK'
      BY <1>4, <2>1, <2>6, SentDown, Untouched DEF Replies
    <2>8. activeCalls' \in [CallIds -> (SUBSET Users) \cup {NONE}]
      BY <2>1 DEF IFine, TypeOK
    <2>9. QED
      BY <1>3, <1>5, <2>5, <2>7, <2>8, ServerFine
  <1>8. CASE HandleSignal(c)
    <2>1. /\ down' = down \/ down' = SendTo(down, m.to, "signal", m.call, UserOf[c])
          /\ UNCHANGED <<tasks, activeCalls>>
      BY <1>2, <1>8 DEF HandleSignal, serverVars
    <2>2. DownFine([ev |-> "signal", call |-> m.call, by |-> UserOf[c]])'
      BY DEF DownFine
    <2>3. DownOK'
      BY <1>4, <2>1, <2>2, SentDown, Untouched DEF Replies
    <2>4. TasksOK' /\ activeCalls' \in [CallIds -> (SUBSET Users) \cup {NONE}]
      BY <2>1, Untouched DEF IFine, TypeOK
    <2>5. QED
      BY <1>3, <1>5, <2>3, <2>4, ServerFine
  <1>9. QED
    BY <1>6, <1>7, <1>8

LEMMA FineTasks ==
  ASSUME IFine, Grows, NEW t \in tasks,
         \/ FinishStart(t) \/ FinishMissed(t) \/ FinishAccept(t)
         \/ FinishParticipants(t) \/ FinishDecline(t)
  PROVE  IFine'
  <1>1. t \in Tasks /\ TaskFine(t)
    BY DEF IFine, TypeOK, TasksFine
  <1>2. TaskFine(t)'
    BY <1>1, FineStays
  <1>3. t.call \in CallIds /\ t.to \in Users /\ t.tab \in Clients /\ UserOf[t.tab] \in Users
    BY <1>1, UserOfAssumption DEF Tasks
  <1>4. /\ UpOK'
        /\ UNCHANGED <<linkVars, sessionVars, meshVars, dialled, answered, refused, hungUp>>
    BY Untouched DEF FinishStart, FinishMissed, FinishAccept, FinishParticipants,
       FinishDecline, histVars
  <1>5. activeCalls' \in [CallIds -> (SUBSET Users) \cup {NONE}] /\ missed' \in [CallIds -> Nat]
        /\ rung' \subseteq CallIds /\ over' \subseteq CallIds
    <2>1. CASE FinishStart(t)
      BY <1>3, <2>1 DEF FinishStart, IFine, TypeOK
    <2>2. CASE FinishMissed(t)
      BY <1>3, <2>2 DEF FinishMissed, IFine, TypeOK
    <2>3. CASE FinishAccept(t)
      <3>1. activeCalls[t.call] = NONE \/ activeCalls[t.call] \cup {UserOf[t.tab]} \in SUBSET Users
        BY <1>3 DEF IFine, TypeOK
      <3>2. activeCalls' \in [CallIds -> (SUBSET Users) \cup {NONE}]
        BY <1>3, <2>3, <3>1 DEF FinishAccept, Join, IFine, TypeOK
      <3>3. QED
        BY <2>3, <3>2 DEF FinishAccept, histVars, IFine, TypeOK
    <2>4. CASE FinishParticipants(t) \/ FinishDecline(t)
      BY <1>3, <2>4 DEF FinishParticipants, FinishDecline, histVars, IFine, TypeOK
    <2>5. QED
      BY <2>1, <2>2, <2>3, <2>4
  <1>6. TasksOK'
    <2>1. CASE FinishStart(t)
      <3>1. tasks' \subseteq tasks \cup {Task("startMissed", t.call, t.tab, t.to)}
        BY <2>1 DEF FinishStart
      <3>2. Task("startMissed", t.call, t.tab, t.to) \in Tasks
        BY <1>3 DEF Task, Tasks, Stages
      <3>3. TaskFine(Task("startMissed", t.call, t.tab, t.to))'
        BY DEF TaskFine, Task
      <3>4. QED
        BY <3>1, <3>2, <3>3, TasksGrow
    <2>2. CASE FinishAccept(t)
      <3>1. tasks' \subseteq tasks \cup {Task("participants", t.call, t.tab, t.to)}
        BY <2>2 DEF FinishAccept
      <3>2. Task("participants", t.call, t.tab, t.to) \in Tasks
        BY <1>3 DEF Task, Tasks, Stages
      <3>3. TaskFine(Task("participants", t.call, t.tab, t.to))'
        BY DEF TaskFine, Task
      <3>4. QED
        BY <3>1, <3>2, <3>3, TasksGrow
    <2>3. CASE FinishMissed(t) \/ FinishParticipants(t) \/ FinishDecline(t)
      <3>1. tasks' \subseteq tasks
        BY <2>3 DEF FinishMissed, FinishParticipants, FinishDecline
      <3>2. QED
        BY <3>1, Untouched
    <2>4. QED
      BY <2>1, <2>2, <2>3
  <1>7. DownOK'
    <2>1. CASE FinishStart(t)
      <3>1. down' = down \/ down' = SendTo(down, t.to, "incoming", t.call, UserOf[t.tab])
        BY <2>1 DEF FinishStart
      <3>2. DownFine([ev |-> "incoming", call |-> t.call, by |-> UserOf[t.tab]])'
        BY <1>2, <2>1 DEF FinishStart, TaskFine, DownFine
      <3>3. QED
        BY <1>3, <3>1, <3>2, SentDown, Untouched DEF Replies
    <2>2. CASE FinishMissed(t)
      <3>1. CASE t.stage = "startMissed"
        <4>1. down' = SendTo(down, UserOf[t.tab], "unavailable", t.call, UserOf[t.tab])
              /\ t.call \in over'
          BY <2>2, <3>1 DEF FinishMissed
        <4>2. DownFine([ev |-> "unavailable", call |-> t.call, by |-> UserOf[t.tab]])'
          BY <4>1 DEF DownFine
        <4>3. QED
          BY <1>3, <4>1, <4>2, SentDown DEF Replies
      <3>2. CASE t.stage = "endMissed"
        <4>1. down' = SendTo(down, t.to, "ended", t.call, UserOf[t.tab])
          BY <2>2, <3>2 DEF FinishMissed
        <4>2. DownFine([ev |-> "ended", call |-> t.call, by |-> UserOf[t.tab]])'
          BY <1>2, <3>2 DEF TaskFine, DownFine
        <4>3. QED
          BY <1>3, <4>1, <4>2, SentDown DEF Replies
      <3>3. QED
        BY <2>2, <3>1, <3>2 DEF FinishMissed
    <2>3. CASE FinishAccept(t)
      <3>1. down' = SendTo(down, t.to, "accepted", t.call, UserOf[t.tab])
        BY <2>3 DEF FinishAccept
      <3>2. DownFine([ev |-> "accepted", call |-> t.call, by |-> UserOf[t.tab]])'
        BY <1>2, <2>3 DEF FinishAccept, TaskFine, DownFine
      <3>3. QED
        BY <1>3, <3>1, <3>2, SentDown DEF Replies
    <2>4. CASE FinishParticipants(t)
      <3> DEFINE q == SendTo(down, t.to, "participants", t.call, UserOf[t.tab])
                 r == SendTo(q, UserOf[t.tab], "participants", t.call, t.to)
                 x == [ev |-> "participants", call |-> t.call, by |-> UserOf[t.tab]]
                 y == [ev |-> "participants", call |-> t.call, by |-> t.to]
      <3>1. down' = r
        BY <2>4 DEF FinishParticipants
      <3>2. down \in [Clients -> Seq(DownMsgs)]
        BY DEF IFine, TypeOK
      <3>3. q \in [Clients -> Seq(DownMsgs)]
            /\ \A c \in Clients : ToSet(q[c]) \subseteq ToSet(down[c]) \cup {x}
        BY <1>3, <3>2, SentTo DEF Replies
      <3>4. r \in [Clients -> Seq(DownMsgs)]
            /\ \A c \in Clients : ToSet(r[c]) \subseteq ToSet(q[c]) \cup {y}
        BY <1>3, <3>3, SentTo DEF Replies
      <3>5. DownFine(x)' /\ DownFine(y)'
        BY DEF DownFine
      <3>6. \A c \in Clients : ToSet(down[c]) \subseteq DownMsgs
        BY <3>2 DEF ToSet
      <3>7. \A c \in Clients : \A m \in ToSet(down[c]) : DownFine(m)'
        BY <3>6, FineStays DEF IFine, DownsFine
      <3> HIDE DEF q, r, x, y
      <3>8. \A c \in Clients : ToSet(down'[c]) \subseteq ToSet(down[c]) \cup {x, y}
        BY <3>1, <3>3, <3>4
      <3>9. DownsFine'
        BY <3>5, <3>7, <3>8 DEF DownsFine
      <3>10. QED
        BY <3>1, <3>4, <3>9 DEF DownOK
    <2>5. CASE FinishDecline(t)
      <3>1. down' = SendTo(down, t.to, "declined", t.call, UserOf[t.tab])
        BY <2>5 DEF FinishDecline, DeclineReply
      <3>2. DownFine([ev |-> "declined", call |-> t.call, by |-> UserOf[t.tab]])'
        BY <1>2, <2>5 DEF FinishDecline, TaskFine, DownFine
      <3>3. QED
        BY <1>3, <3>1, <3>2, SentDown DEF Replies
    <2>6. QED
      BY <2>1, <2>2, <2>3, <2>4, <2>5
  <1>8. QED
    BY <1>4, <1>5, <1>6, <1>7, ServerFine

-----------------------------------------------------------------------------
(* The connection, and the whole.                                          *)

LEMMA Unlinked ==
  ASSUME IFine, Grows, NEW c \in Clients, Unlink(c), UNCHANGED serverVars
  PROVE  /\ UpOK' /\ DownOK' /\ TasksOK'
         /\ linked' \subseteq Clients /\ stale' \subseteq Clients
         /\ drops' \in 0..MaxDrops /\ hungUp' \subseteq CallIds
         /\ \A d \in Clients : d # c => up'[d] = up[d]
  <1>1. up \in [Clients -> Seq(UpMsgs)] /\ down \in [Clients -> Seq(DownMsgs)]
    BY DEF IFine, TypeOK
  <1>2. up' \in [Clients -> Seq(UpMsgs)] /\ up'[c] = <<>>
        /\ \A d \in Clients : d # c => up'[d] = up[d]
    BY <1>1 DEF Unlink
  <1>3. down' \in [Clients -> Seq(DownMsgs)] /\ down'[c] = <<>>
        /\ \A d \in Clients : d # c => down'[d] = down[d]
    BY <1>1 DEF Unlink
  <1>4. ToSet(<<>>) = {}
    BY DEF ToSet
  <1>5. \A d \in Clients : ToSet(up[d]) \subseteq UpMsgs /\ ToSet(down[d]) \subseteq DownMsgs
    BY <1>1 DEF ToSet
  <1>6. \A d \in Clients : /\ \A x \in ToSet(up[d]) : UpFine(x)'
                           /\ \A x \in ToSet(down[d]) : DownFine(x)'
    BY <1>5, FineStays DEF IFine, UpsFine, DownsFine
  <1>7. UpOK'
    BY <1>2, <1>4, <1>6 DEF UpOK, UpsFine
  <1>8. DownOK'
    BY <1>3, <1>4, <1>6 DEF DownOK, DownsFine
  <1>9. TasksOK'
    BY Untouched DEF serverVars
  <1>10. linked' \subseteq Clients /\ stale' \subseteq Clients
         /\ drops' \in 0..MaxDrops /\ hungUp' \subseteq CallIds
    BY BoundAssumption DEF Unlink, IFine, TypeOK
  <1>11. QED
    BY <1>2, <1>7, <1>8, <1>9, <1>10

LEMMA FineNetwork ==
  ASSUME IFine, Grows, NEW c \in Clients, Drop(c) \/ Leave(c) \/ Relink(c) \/ Forget(c)
  PROVE  IFine'
  <1>1. CASE Drop(c)
    <2>1. Unlink(c) /\ UNCHANGED <<serverVars, sessionVars, meshVars, dialled, rung,
                                   answered, refused, over>>
      BY <1>1 DEF Drop, Unlink
    <2>2. UpOK' /\ DownOK' /\ TasksOK' /\ RingsDialled'
      BY <2>1, Unlinked, FineStays DEF sessionVars, serverVars, IFine
    <2>3. TypeOK'
      BY <2>1, <2>2, Unlinked DEF serverVars, sessionVars, meshVars, IFine, TypeOK, UpOK,
         DownOK, TasksOK
    <2>4. QED
      BY <2>2, <2>3, Assembled
  <1>2. CASE Leave(c)
    <2>1. Unlink(c) /\ UNCHANGED <<serverVars, dialled, rung, answered, refused, over>>
      BY <1>2 DEF Leave, Unlink
    <2>2. active' \in [Clients -> Sessions \cup {NONE}]
          /\ incoming' \in [Clients -> CallIds \cup {NONE}]
          /\ timers' \in [Clients -> SUBSET CallIds]
          /\ rtc' \in [Clients -> CallIds \cup {NONE}] /\ peer' \in [Clients -> Users \cup {NONE}]
      BY <1>2 DEF Leave, TeardownRtc, IFine, TypeOK
    <2>3. UpOK' /\ DownOK' /\ TasksOK'
      BY <2>1, Unlinked DEF serverVars
    <2>4. RingsDialled'
      BY <1>2, <2>1 DEF Leave, IFine, TypeOK, RingsDialled
    <2>5. TypeOK'
      BY <2>1, <2>2, <2>3, Unlinked DEF serverVars, IFine, TypeOK, UpOK, DownOK, TasksOK
    <2>6. QED
      BY <2>3, <2>4, <2>5, Assembled
  <1>3. CASE Relink(c) \/ Forget(c)
    <2>1. UNCHANGED <<drops, up, down, serverVars, sessionVars, meshVars, histVars>>
          /\ linked' \subseteq Clients /\ stale' \subseteq Clients
      BY <1>3 DEF Relink, Forget, IFine, TypeOK
    <2>2. UpOK' /\ DownOK' /\ TasksOK' /\ RingsDialled'
      BY <2>1, Untouched, FineStays DEF serverVars, sessionVars, IFine
    <2>3. TypeOK'
      BY <2>1 DEF serverVars, sessionVars, meshVars, histVars, IFine, TypeOK
    <2>4. QED
      BY <2>2, <2>3, Assembled
  <1>4. QED
    BY <1>1, <1>2, <1>3

LEMMA FineKept ==
  ASSUME IFine, Next
  PROVE  IFine'
  <1>1. Grows
    BY NextGrows DEF IFine
  <1>2. ASSUME NEW c \in Clients, Tab(c) PROVE IFine'
    BY <1>1, <1>2, FineUser, FinePage DEF Tab
  <1>3. ASSUME Server PROVE IFine'
    BY <1>1, <1>3, FineHandlers, FineTasks DEF Server
  <1>4. ASSUME Network PROVE IFine'
    BY <1>1, <1>4, FineNetwork DEF Network
  <1>5. QED
    BY <1>2, <1>3, <1>4 DEF Next

LEMMA FineInit ==
  ASSUME Init
  PROVE  IFine
  <1>1. ToSet(<<>>) = {}
    BY DEF ToSet
  <1>2. TypeOK
    BY BoundAssumption DEF Init, TypeOK
  <1>3. UpsFine /\ TasksFine /\ DownsFine /\ RingsDialled
    BY <1>1 DEF Init, UpsFine, TasksFine, DownsFine, RingsDialled
  <1>4. QED
    BY <1>2, <1>3 DEF IFine

LEMMA FineStutter ==
  ASSUME IFine, UNCHANGED vars
  PROVE  IFine'
  BY DEF vars, linkVars, serverVars, sessionVars, meshVars, histVars, IFine, TypeOK, UpsFine,
     TasksFine, DownsFine, RingsDialled, UpFine, TaskFine, DownFine

-----------------------------------------------------------------------------
(* The session of a tab.                                                   *)

\* Which steps change a session, and to what.
LEMMA SessionSteps ==
  ASSUME IFine, Next, NEW d \in Clients, active'[d] # active[d]
  PROVE  \/ \E u \in Users, k \in CallIds : StartCall(d, u, k)
         \/ Accept(d) \/ EndCall(d) \/ NoAnswer(d)
         \/ \E k \in CallIds : ClearAfter(d, k)
         \/ HandleAccepted(d) \/ HandleClosed(d) \/ Leave(d)
  <1>1. active \in [Clients -> Sessions \cup {NONE}]
    BY DEF IFine, TypeOK
  <1>2. ASSUME NEW c \in Clients, Tab(c), c # d PROVE FALSE
    <2>1. \E x : active' = [active EXCEPT ![c] = x]
      <3>1. CASE active' = active
        BY <1>1, <3>1
      <3>2. CASE \E u \in Users, k \in CallIds : StartCall(c, u, k)
        BY <3>2 DEF StartCall
      <3>3. CASE Accept(c)
        BY <3>3 DEF Accept
      <3>4. CASE EndCall(c) \/ NoAnswer(c) \/ HandleClosed(c)
        BY <3>4 DEF EndCall, NoAnswer, HangUp, HandleClosed, EndSession
      <3>5. CASE \E k \in CallIds : ClearAfter(c, k)
        BY <1>1, <3>5 DEF ClearAfter
      <3>6. CASE HandleAccepted(c)
        BY <3>6 DEF HandleAccepted
      <3>7. QED
        BY <1>2, <3>1, <3>2, <3>3, <3>4, <3>5, <3>6 DEF Tab, Decline, Missed, Dismiss, Signal,
           HandleIncoming, HandleMesh, Ignored, sessionVars
    <2>2. QED
      BY <1>1, <1>2, <2>1
  <1>3. CASE Tab(d)
    BY <1>3 DEF Tab, Decline, Missed, Dismiss, Signal, HandleIncoming, HandleMesh, Ignored,
       sessionVars
  <1>4. ~Server
    BY DEF Server, Handle, HandleEnd, HandleSignal, FinishStart, FinishMissed, FinishAccept,
       FinishParticipants, FinishDecline, sessionVars
  <1>5. ASSUME Network PROVE Leave(d)
    BY <1>1, <1>5 DEF Network, Drop, Leave, Relink, Forget, sessionVars
  <1>6. QED
    BY <1>2, <1>3, <1>4, <1>5 DEF Next

LEMMA ConnectedKept ==
  ASSUME IFine, ConnectedMeansAnswered, Next
  PROVE  ConnectedMeansAnswered'
  <1>1. Grows
    BY NextGrows DEF IFine
  <1> SUFFICES ASSUME NEW d \in Clients, active'[d] # NONE, active'[d].state = "connected"
               PROVE  active'[d].call \in answered'
    BY DEF ConnectedMeansAnswered
  <1>2. active \in [Clients -> Sessions \cup {NONE}]
    BY DEF IFine, TypeOK
  <1>3. CASE active'[d] = active[d]
    BY <1>1, <1>3 DEF ConnectedMeansAnswered, Grows
  <1>4. CASE \E u \in Users, k \in CallIds : StartCall(d, u, k)
    BY <1>2, <1>4 DEF StartCall
  <1>5. CASE Accept(d)
    BY <1>2, <1>5 DEF Accept
  <1>6. CASE EndCall(d) \/ NoAnswer(d)
    <2>1. PICK state \in {"ended", "no_answer"} : HangUp(d, state)
      BY <1>6 DEF EndCall, NoAnswer
    <2>2. active[d] \in Sessions /\ active' = [active EXCEPT ![d].state = state]
      BY <1>2, <2>1 DEF HangUp, EndSession
    <2>3. active'[d].state = state
      BY <1>2, <2>2 DEF Sessions
    <2>4. QED
      BY <2>3
  <1>7. CASE \E k \in CallIds : ClearAfter(d, k)
    BY <1>1, <1>2, <1>7 DEF ClearAfter, ConnectedMeansAnswered, Grows
  <1>8. CASE HandleAccepted(d)
    <2>1. PICK k \in CallIds : IsActive(d, k) /\ Gets(d, "accepted", k)
                               /\ active' = [active EXCEPT ![d].state = "connected"]
      BY <1>8 DEF HandleAccepted
    <2>2. active[d] \in Sessions /\ active[d].call = k
      BY <1>2, <2>1 DEF IsActive
    <2>3. k \in answered
      BY <1>1, <2>1, TakenDown DEF DownFine
    <2>4. active'[d].call = k
      BY <1>2, <2>1, <2>2 DEF Sessions
    <2>5. QED
      BY <1>1, <2>3, <2>4 DEF Grows
  <1>9. CASE HandleClosed(d)
    <2>1. PICK k \in CallIds, ev \in {"declined", "unavailable", "ended"} :
              IsActive(d, k) /\ active' = [active EXCEPT ![d].state = ev]
      BY <1>9 DEF HandleClosed, EndSession
    <2>2. active[d] \in Sessions
      BY <1>2, <2>1 DEF IsActive
    <2>3. active'[d].state = ev
      BY <1>2, <2>1, <2>2 DEF Sessions
    <2>4. QED
      BY <2>3
  <1>10. CASE Leave(d)
    BY <1>2, <1>10 DEF Leave
  <1>11. QED
    BY <1>3, <1>4, <1>5, <1>6, <1>7, <1>8, <1>9, <1>10, SessionSteps

\* A call whose session is closed is over.
LEMMA ClosedIsOver ==
  ASSUME IFine, Grows, NEW c \in Clients, NEW k \in CallIds,
         NEW ev \in {"declined", "unavailable", "ended"}, Gets(c, ev, k)
  PROVE  k \in over'
  <1>1. DownFine(Head(down[c])) /\ Head(down[c]).ev = ev /\ Head(down[c]).call = k
    BY TakenDown
  <1>2. k \in over
    BY <1>1 DEF DownFine
  <1>3. QED
    BY <1>2 DEF Grows

LEMMA TimersKept ==
  ASSUME IFine, TimersAreOver, Next
  PROVE  TimersAreOver'
  <1>1. Grows
    BY NextGrows DEF IFine
  <1>2. timers \in [Clients -> SUBSET CallIds]
    BY DEF IFine, TypeOK
  <1>3. CASE timers' = timers
    BY <1>1, <1>3 DEF TimersAreOver, Grows
  <1>4. ASSUME NEW c \in Clients,
               \E X \in SUBSET (timers[c] \cup over') : timers' = [timers EXCEPT ![c] = X]
        PROVE  TimersAreOver'
    BY <1>1, <1>2, <1>4 DEF TimersAreOver, Grows
  <1>5. ASSUME NEW c \in Clients, Tab(c) PROVE TimersAreOver'
    <2>1. CASE EndCall(c) \/ NoAnswer(c)
      <3>1. timers' = [timers EXCEPT ![c] = @ \cup {active[c].call}] /\ active[c].call \in over'
        BY <2>1 DEF EndCall, NoAnswer, HangUp, EndSession
      <3>2. QED
        BY <1>2, <1>4, <3>1
    <2>2. CASE \E k \in CallIds : ClearAfter(c, k)
      <3>1. PICK k \in CallIds : timers' = [timers EXCEPT ![c] = @ \ {k}]
        BY <2>2 DEF ClearAfter
      <3>2. QED
        BY <1>2, <1>4, <3>1
    <2>3. CASE HandleClosed(c)
      <3>1. PICK k \in CallIds, ev \in {"declined", "unavailable", "ended"} :
                IsActive(c, k) /\ Gets(c, ev, k) /\ EndSession(c, ev)
        BY <2>3 DEF HandleClosed
      <3>2. timers' = [timers EXCEPT ![c] = @ \cup {k}]
        BY <3>1 DEF EndSession, IsActive
      <3>3. QED
        BY <1>1, <1>2, <1>4, <3>1, <3>2, ClosedIsOver
    <2>4. QED
      BY <1>3, <1>5, <2>1, <2>2, <2>3 DEF Tab, StartCall, Accept, Decline, Missed, Dismiss, Signal,
         HandleIncoming, HandleAccepted, HandleMesh, Ignored, sessionVars
  <1>6. ASSUME Server PROVE timers' = timers
    BY <1>6 DEF Server, Handle, HandleEnd, HandleSignal, FinishStart, FinishMissed,
       FinishAccept, FinishParticipants, FinishDecline, sessionVars
  <1>7. ASSUME Network PROVE TimersAreOver'
    <2>1. timers' = timers \/ \E c \in Clients : timers' = [timers EXCEPT ![c] = {}]
      BY <1>7 DEF Network, Drop, Leave, Relink, Forget, sessionVars
    <2>2. QED
      BY <1>3, <1>4, <2>1
  <1>8. QED
    BY <1>3, <1>5, <1>6, <1>7 DEF Next

-----------------------------------------------------------------------------
(* The notice of a call that rang.                                         *)

\* What the tabs and the network leave to the server.
LEMMA ServerOnly ==
  ASSUME Next, ~Server
  PROVE  UNCHANGED <<tasks, activeCalls, missed, rung>>
  <1>1. ASSUME NEW c \in Clients, Tab(c) PROVE UNCHANGED <<tasks, activeCalls, missed, rung>>
    <2>1. CASE \/ \E u \in Users, k \in CallIds : StartCall(c, u, k)
               \/ Accept(c) \/ Decline(c) \/ Missed(c) \/ EndCall(c) \/ NoAnswer(c)
      BY <2>1 DEF StartCall, Accept, Decline, Missed, Dismiss, EndCall, NoAnswer, HangUp,
         serverVars
    <2>2. CASE \/ \E k \in CallIds : ClearAfter(c, k)
               \/ Signal(c) \/ HandleIncoming(c) \/ HandleAccepted(c) \/ HandleClosed(c)
               \/ HandleMesh(c) \/ Ignored(c)
      BY <2>2 DEF ClearAfter, Signal, HandleIncoming, HandleAccepted, HandleClosed, HandleMesh,
         Ignored, Gets, serverVars, histVars
    <2>3. QED
      BY <1>1, <2>1, <2>2 DEF Tab
  <1>2. ASSUME Network PROVE UNCHANGED <<tasks, activeCalls, missed, rung>>
    BY <1>2 DEF Network, Drop, Leave, Unlink, Relink, Forget, serverVars, histVars
  <1>3. QED
    BY <1>1, <1>2 DEF Next

\* Which steps end a call that rang.
LEMMA HungUpSteps ==
  ASSUME Next, NEW k \in hungUp', k \notin hungUp
  PROVE  /\ k \in rung
         /\ \E c \in Clients : \/ Missed(c) /\ k = incoming[c]
                               \/ (EndCall(c) \/ NoAnswer(c)) /\ k = active[c].call
  <1>1. ASSUME NEW c \in Clients, Tab(c)
        PROVE  /\ k \in rung
               /\ \/ Missed(c) /\ k = incoming[c]
                  \/ (EndCall(c) \/ NoAnswer(c)) /\ k = active[c].call
    <2>1. CASE Missed(c)
      BY <2>1 DEF Missed
    <2>2. CASE EndCall(c) \/ NoAnswer(c)
      BY <2>2 DEF EndCall, NoAnswer, HangUp
    <2>3. CASE (\E u \in Users, j \in CallIds : StartCall(c, u, j)) \/ Accept(c) \/ Decline(c)
      BY <2>3 DEF StartCall, Accept, Decline
    <2>4. CASE \/ \E j \in CallIds : ClearAfter(c, j)
               \/ Signal(c) \/ HandleIncoming(c) \/ HandleAccepted(c) \/ HandleClosed(c)
               \/ HandleMesh(c) \/ Ignored(c)
      BY <2>4 DEF ClearAfter, Signal, HandleIncoming, HandleAccepted, HandleClosed, HandleMesh,
         Ignored, Gets, histVars
    <2>5. QED
      BY <1>1, <2>1, <2>2, <2>3, <2>4 DEF Tab
  <1>2. ~Server
    BY DEF Server, Handle, HandleEnd, HandleSignal, FinishStart, FinishMissed, FinishAccept,
       FinishParticipants, FinishDecline, histVars
  <1>3. ~Network
    BY DEF Network, Drop, Leave, Unlink, Relink, Forget, histVars
  <1>4. QED
    BY <1>1, <1>2, <1>3 DEF Next

\* A notice that is stored, or about to be, stays.
LEMMA NoticedStays ==
  ASSUME TypeOK, Next, NEW k \in CallIds, Noticed(k)
  PROVE  Noticed(k)'
  <1>1. CASE ~Server
    BY <1>1, ServerOnly DEF Noticed
  <1>2. ASSUME NEW c \in Clients, Handle(c) \/ HandleEnd(c) \/ HandleSignal(c) PROVE Noticed(k)'
    <2>1. tasks \subseteq tasks' /\ missed' = missed
      BY <1>2 DEF Handle, HandleEnd, HandleSignal, serverVars
    <2>2. QED
      BY <2>1 DEF Noticed
  <1>3. ASSUME NEW t \in tasks, FinishMissed(t) PROVE Noticed(k)'
    <2>1. missed' = [missed EXCEPT ![t.call] = @ + 1] /\ tasks' = tasks \ {t}
      BY <1>3 DEF FinishMissed
    <2>2. t.call \in CallIds /\ missed \in [CallIds -> Nat]
      BY DEF TypeOK, Tasks
    <2>3. missed'[k] \in Nat /\ missed'[k] >= missed[k] /\ (t.call = k => missed'[k] > 0)
      BY <2>1, <2>2
    <2>4. QED
      BY <2>1, <2>2, <2>3 DEF Noticed
  <1>4. ASSUME NEW t \in tasks,
               FinishStart(t) \/ FinishAccept(t) \/ FinishParticipants(t) \/ FinishDecline(t)
        PROVE  Noticed(k)'
    <2>1. t.stage # "endMissed" /\ missed' = missed /\ tasks \ {t} \subseteq tasks'
      BY <1>4 DEF FinishStart, FinishAccept, FinishParticipants, FinishDecline
    <2>2. QED
      BY <2>1 DEF Noticed
  <1>5. QED
    BY <1>1, <1>2, <1>3, <1>4 DEF Server

\* Ending a call that rang and that nobody touched leads to a notice.
LEMMA EndIsNoticed ==
  ASSUME IFine, RangIsKnown, Next, NEW c \in Clients, HandleEnd(c), NEW k \in CallIds,
         k = Head(up[c]).call, k \in rung \ (answered \cup refused)
  PROVE  Noticed(k)'
  <1>1. CASE Noticed(k)
    BY <1>1, NoticedStays DEF IFine
  <1>2. CASE activeCalls[k] = {}
    <2>1. Task("endMissed", k, c, Head(up[c]).to) \in tasks'
      BY <1>2 DEF HandleEnd, NobodyAccepted
    <2>2. QED
      BY <2>1 DEF Noticed, Task
  <1>3. QED
    BY <1>1, <1>2 DEF RangIsKnown

LEMMA RangKept ==
  ASSUME IFine, RangIsKnown, Next
  PROVE  RangIsKnown'
  <1>1. Grows
    BY NextGrows DEF IFine
  <1>2. activeCalls \in [CallIds -> (SUBSET Users) \cup {NONE}] /\ rung \subseteq CallIds
    BY DEF IFine, TypeOK
  <1>3. hungUp' \subseteq rung'
    <2>1. rung \subseteq rung'
      BY ServerOnly DEF Server, Handle, HandleEnd, HandleSignal, FinishStart, FinishMissed,
         FinishAccept, FinishParticipants, FinishDecline, histVars
    <2>2. hungUp' \subseteq hungUp \cup rung
      BY HungUpSteps
    <2>3. QED
      BY <2>1, <2>2 DEF RangIsKnown
  <1>4. ASSUME NEW k \in rung' \ (answered' \cup refused') PROVE activeCalls'[k] = {} \/ Noticed(k)'
    <2>1. k \notin answered /\ k \notin refused
      BY <1>1, <1>4 DEF Grows
    <2>2. CASE k \notin rung
      <3>1. Server
        BY <2>2, ServerOnly
      <3>2. PICK t \in tasks : FinishStart(t) /\ rung' = rung \cup {t.call}
        BY <2>2, <3>1 DEF Server, Handle, HandleEnd, HandleSignal, FinishStart, FinishMissed,
           FinishAccept, FinishParticipants, FinishDecline, histVars
      <3>3. k = t.call /\ k \in CallIds
        BY <2>2, <3>2 DEF IFine, TypeOK, Tasks
      <3>4. QED
        BY <1>2, <3>2, <3>3 DEF FinishStart
    <2>3. CASE k \in rung /\ Noticed(k)
      BY <1>2, <2>3, NoticedStays DEF IFine
    <2>4. CASE k \in rung /\ activeCalls[k] = {}
      <3>1. k \in CallIds
        BY <1>2, <2>4
      <3>2. CASE activeCalls'[k] = activeCalls[k]
        BY <2>4, <3>2
      <3>3. ASSUME NEW c \in Clients, HandleEnd(c), k = Head(up[c]).call PROVE Noticed(k)'
        BY <2>1, <2>4, <3>1, <3>3, EndIsNoticed
      <3>4. ASSUME NEW c \in Clients, HandleEnd(c), k # Head(up[c]).call
            PROVE  activeCalls'[k] = activeCalls[k]
        BY <1>2, <3>1, <3>4 DEF HandleEnd
      <3>5. ASSUME NEW t \in tasks, FinishStart(t) PROVE activeCalls'[k] = {}
        BY <1>2, <2>4, <3>1, <3>5 DEF FinishStart
      <3>6. ASSUME NEW t \in tasks, FinishAccept(t) \/ FinishDecline(t)
            PROVE  activeCalls'[k] = activeCalls[k]
        <4>1. t.call \in answered \cup refused
          BY <3>6 DEF FinishAccept, FinishDecline, IFine, TasksFine, TaskFine
        <4>2. t.call # k
          BY <2>1, <4>1
        <4>3. QED
          BY <1>2, <3>1, <3>6, <4>2 DEF FinishAccept, Join, FinishDecline
      <3>7. QED
        BY <2>4, <3>2, <3>3, <3>4, <3>5, <3>6, ServerOnly DEF Server, Handle, HandleSignal,
           FinishMissed, FinishParticipants, serverVars
    <2>5. QED
      BY <2>1, <2>2, <2>3, <2>4 DEF RangIsKnown
  <1>5. QED
    BY <1>3, <1>4 DEF RangIsKnown

\* An end is on its way to the server.
EndSent(k) == \E c \in Clients : \E m \in ToSet(up[c]) : m.op = "end" /\ m.call = k

LEMMA EndStays ==
  ASSUME IFine, RangIsKnown, Next, NEW k \in hungUp', EndSent(k),
         k \in rung \ (answered \cup refused)
  PROVE  EndSent(k)' \/ Noticed(k)'
  <1>1. Grows
    BY NextGrows DEF IFine
  <1>a. PICK d \in Clients : \E x \in ToSet(up[d]) : x.op = "end" /\ x.call = k
    BY DEF EndSent
  <1>2. PICK x \in ToSet(up[d]) : x.op = "end" /\ x.call = k
    BY <1>a
  <1>3. ASSUME ToSet(up[d]) \subseteq ToSet(up'[d]) PROVE EndSent(k)'
    BY <1>2, <1>3 DEF EndSent
  <1>4. CASE up' = up
    BY <1>3, <1>4
  <1>5. ASSUME NEW c \in Clients, Tab(c), up' # up PROVE EndSent(k)'
    <2>1. PICK m \in UpMsgs : up' = [up EXCEPT ![c] = Append(@, m)]
      <3>1. \E op, j, u : SendUp(c, op, j, u)
        BY <1>5 DEF Tab, StartCall, Accept, Decline, Missed, Dismiss, EndCall, NoAnswer, HangUp,
           ClearAfter, Signal, HandleIncoming, HandleAccepted, HandleClosed, HandleMesh,
           Ignored, Gets
      <3>2. PICK op, j, u : SendUp(c, op, j, u)
        BY <3>1
      <3>3. up' = [up EXCEPT ![c] = Append(@, [op |-> op, call |-> j, to |-> u])]
        BY <3>2 DEF SendUp
      <3>4. up' \in [Clients -> Seq(UpMsgs)]
        BY FineKept DEF IFine, TypeOK
      <3>5. up \in [Clients -> Seq(UpMsgs)]
        BY DEF IFine, TypeOK
      <3> DEFINE m == [op |-> op, call |-> j, to |-> u]
      <3> HIDE DEF m
      <3>6. up' = [up EXCEPT ![c] = Append(@, m)]
        BY <3>3 DEF m
      <3>7. up'[c] = Append(up[c], m) /\ up'[c] \in Seq(UpMsgs) /\ up[c] \in Seq(UpMsgs)
        BY <3>4, <3>5, <3>6
      <3>8. Len(up[c]) + 1 \in 1..Len(up'[c]) /\ up'[c][Len(up[c]) + 1] = m
        BY <3>7
      <3>9. m \in UpMsgs
        BY <3>7, <3>8
      <3>10. QED
        BY <3>6, <3>9
    <2>2. up \in [Clients -> Seq(UpMsgs)]
      BY DEF IFine, TypeOK
    <2>3. ToSet(up[d]) \subseteq ToSet(up'[d])
      <3>1. CASE d = c
        BY <2>1, <2>2, <3>1, Appended
      <3>2. CASE d # c
        BY <2>1, <2>2, <3>2
      <3>3. QED
        BY <3>1, <3>2
    <2>4. QED
      BY <1>3, <2>3
  <1>6. ASSUME NEW c \in Clients, Handle(c) \/ HandleEnd(c) \/ HandleSignal(c)
        PROVE  EndSent(k)' \/ Noticed(k)'
    <2>1. up[c] # <<>> /\ up' = [up EXCEPT ![c] = Tail(@)]
      BY <1>6 DEF Handle, HandleEnd, HandleSignal, Takes
    <2>2. CASE x \in ToSet(up'[d])
      BY <1>2, <2>2 DEF EndSent
    <2>3. CASE x \notin ToSet(up'[d])
      <3>1. d = c /\ x = Head(up[c])
        BY <1>1, <1>2, <2>1, <2>3, TakenUp
      <3>2. HandleEnd(c)
        BY <1>2, <1>6, <3>1 DEF Handle, HandleSignal, Takes
      <3>3. k \in CallIds
        BY DEF IFine, TypeOK
      <3>4. QED
        BY <1>2, <3>1, <3>2, <3>3, EndIsNoticed
    <2>4. QED
      BY <2>2, <2>3
  <1>7. ASSUME NEW c \in Clients, Drop(c) \/ Leave(c) PROVE EndSent(k)'
    <2>1. Unlink(c) /\ UNCHANGED serverVars
      BY <1>7 DEF Drop, Leave
    <2>2. d # c
      <3>1. hungUp' = hungUp \ {m.call : m \in ToSet(up[c])}
        BY <2>1 DEF Unlink
      <3>2. QED
        BY <1>2, <3>1
    <2>3. up'[d] = up[d]
      BY <1>1, <2>1, <2>2, Unlinked
    <2>4. QED
      BY <1>3, <2>3
  <1>8. QED
    BY <1>4, <1>5, <1>6, <1>7 DEF Next, Server, FinishStart, FinishMissed, FinishAccept,
       FinishParticipants, FinishDecline, Network, Relink, Forget

LEMMA RecordedKept ==
  ASSUME IFine, RangIsKnown, UnansweredIsRecorded, Next
  PROVE  UnansweredIsRecorded'
  <1>1. Grows
    BY NextGrows DEF IFine
  <1> SUFFICES ASSUME NEW k \in hungUp' \ (answered' \cup refused')
               PROVE  EndSent(k)' \/ Noticed(k)'
    BY DEF UnansweredIsRecorded, EndSent, Noticed
  <1>2. k \notin answered /\ k \notin refused
    BY <1>1 DEF Grows
  <1>3. CASE k \in hungUp
    <2>1. EndSent(k) \/ Noticed(k)
      BY <1>2, <1>3 DEF UnansweredIsRecorded, EndSent, Noticed
    <2>2. k \in CallIds /\ k \in rung
      BY <1>3 DEF IFine, TypeOK, RangIsKnown
    <2>3. QED
      BY <1>2, <2>1, <2>2, EndStays, NoticedStays DEF IFine
  <1>4. CASE k \notin hungUp
    <2>1. PICK c \in Clients : \/ Missed(c) /\ k = incoming[c]
                               \/ (EndCall(c) \/ NoAnswer(c)) /\ k = active[c].call
      <3>1. k \in hungUp'
        OBVIOUS
      <3>2. QED
        BY <1>4, <3>1, HungUpSteps
    <2>2. PICK u : SendUp(c, "end", k, u)
      BY <2>1 DEF Missed, Dismiss, AsMissed, EndCall, NoAnswer, HangUp
    <2>3. up'[c] = Append(up[c], [op |-> "end", call |-> k, to |-> u])
          /\ up[c] \in Seq(UpMsgs) /\ up'[c] \in Seq(UpMsgs)
      <3>1. up \in [Clients -> Seq(UpMsgs)]
        BY DEF IFine, TypeOK
      <3>2. up' \in [Clients -> Seq(UpMsgs)]
        BY FineKept DEF IFine, TypeOK
      <3>3. QED
        BY <2>2, <3>1, <3>2 DEF SendUp
    <2> DEFINE m == [op |-> "end", call |-> k, to |-> u]
    <2>4. m.op = "end" /\ m.call = k
      OBVIOUS
    <2>5. up'[c] = Append(up[c], m)
      BY <2>3
    <2> HIDE DEF m
    <2>6. Len(up[c]) + 1 \in DOMAIN up'[c] /\ up'[c][Len(up[c]) + 1] = m
      BY <2>3, <2>5
    <2>7. m \in ToSet(up'[c])
      BY <2>6 DEF ToSet
    <2>8. QED
      BY <2>4, <2>7 DEF EndSent
  <1>5. QED
    BY <1>3, <1>4

-----------------------------------------------------------------------------
(* The promises.                                                           *)

LEMMA Inductive ==
  IInv /\ [Next]_vars => IInv'
  <1> SUFFICES ASSUME IInv, [Next]_vars PROVE IInv'
    OBVIOUS
  <1>1. CASE Next
    BY <1>1, FineKept, ConnectedKept, TimersKept, RangKept, RecordedKept DEF IInv
  <1>2. CASE UNCHANGED vars
    <2>1. IFine'
      BY <1>2, FineStutter DEF IInv
    <2>2. ConnectedMeansAnswered' /\ TimersAreOver' /\ RangIsKnown' /\ UnansweredIsRecorded'
      BY <1>2 DEF vars, linkVars, serverVars, sessionVars, meshVars, histVars, IInv,
         ConnectedMeansAnswered, TimersAreOver, RangIsKnown, Noticed, UnansweredIsRecorded
    <2>3. QED
      BY <2>1, <2>2 DEF IInv
  <1>3. QED
    BY <1>1, <1>2

\* The invariant holds of every behaviour.
THEOREM Invariance == Spec => []IInv
  <1>1. Init => IInv
    BY FineInit DEF Init, IInv, ConnectedMeansAnswered, TimersAreOver, RangIsKnown,
       UnansweredIsRecorded
  <1>2. QED
    BY <1>1, Inductive, PTL DEF Spec

\* Every variable keeps its type, whatever is sent and whoever is connected.
THEOREM TypeCorrect == Spec => []TypeOK
  <1>1. IInv => TypeOK
    BY DEF IInv, IFine
  <1>2. QED
    BY <1>1, Invariance, PTL

\* A tab shows a call as connected only when somebody accepted that call
\* (handleCallAccept, handleAccepted).
THEOREM OnlyAnsweredConnect == Spec => []ConnectedMeansAnswered
  <1>1. IInv => ConnectedMeansAnswered
    BY DEF IInv
  <1>2. QED
    BY <1>1, Invariance, PTL

\* A call that rang and was ended untouched leaves a missed-call notice, or
\* the event or handler that will store it is on its way (handleCallEnd).
THEOREM EndedIsRecorded == Spec => []UnansweredIsRecorded
  <1>1. IInv => UnansweredIsRecorded
    BY DEF IInv
  <1>2. QED
    BY <1>1, Invariance, PTL

\* What may end a live session, in one step.
KeepsSession(c) ==
    active[c] # NONE /\ active[c].state \in Live =>
       \/ active'[c] # NONE /\ active'[c].call = active[c].call /\ active'[c].state \in Live
       \/ active[c].call \in over'
       \/ incoming[c] # NONE /\ incoming'[c] = NONE /\ incoming[c] \in answered'
       \/ drops' # drops

LEMMA SessionKept ==
  ASSUME IInv, Next, NEW d \in Clients
  PROVE  KeepsSession(d)
  <1> SUFFICES ASSUME active[d] # NONE, active[d].state \in Live PROVE KeepsSession(d)
    BY DEF KeepsSession
  <1>1. IFine /\ Grows
    BY NextGrows DEF IInv, IFine
  <1>2. active \in [Clients -> Sessions \cup {NONE}] /\ active[d] \in Sessions
    BY <1>1 DEF IFine, TypeOK
  <1>3. CASE active'[d] = active[d]
    BY <1>3 DEF KeepsSession
  <1>4. CASE \E u \in Users, k \in CallIds : StartCall(d, u, k)
    BY <1>4 DEF StartCall
  <1>5. CASE Accept(d)
    BY <1>1, <1>5 DEF Accept, KeepsSession, IFine, TypeOK
  <1>6. CASE EndCall(d) \/ NoAnswer(d)
    BY <1>6 DEF EndCall, NoAnswer, HangUp, KeepsSession
  <1>7. CASE \E k \in CallIds : ClearAfter(d, k)
    <2>1. PICK k \in CallIds : k \in timers[d] /\ (active' = active \/ active[d].call = k)
      BY <1>7 DEF ClearAfter, StillCurrent
    <2>2. k \in over'
      BY <1>1, <2>1 DEF IInv, TimersAreOver, Grows
    <2>3. QED
      BY <1>3, <2>1, <2>2 DEF KeepsSession
  <1>8. CASE HandleAccepted(d)
    <2>1. active' = [active EXCEPT ![d].state = "connected"]
      BY <1>8 DEF HandleAccepted
    <2>2. active'[d] = [active[d] EXCEPT !.state = "connected"]
      BY <1>2, <2>1
    <2>3. active'[d] \in Sessions /\ active'[d].call = active[d].call
          /\ active'[d].state = "connected"
      BY <1>2, <2>2 DEF Sessions, States
    <2>4. QED
      BY <2>3, NoneAssumption DEF KeepsSession, Live
  <1>9. CASE HandleClosed(d)
    <2>1. PICK k \in CallIds, ev \in {"declined", "unavailable", "ended"} :
              IsActive(d, k) /\ Gets(d, ev, k)
      BY <1>9 DEF HandleClosed
    <2>2. k \in over' /\ active[d].call = k
      BY <1>1, <2>1, ClosedIsOver DEF IsActive
    <2>3. QED
      BY <2>2 DEF KeepsSession
  <1>10. CASE Leave(d)
    <2>1. drops' = drops + 1 /\ drops \in Nat
      BY <1>1, <1>10, BoundAssumption DEF Leave, Unlink, IFine, TypeOK
    <2>2. QED
      BY <2>1 DEF KeepsSession
  <1>11. QED
    BY <1>1, <1>3, <1>4, <1>5, <1>6, <1>7, <1>8, <1>9, <1>10, SessionSteps

\* No event and no timeout of another call ends a live session (clearAfter,
\* handleEnded, handleDeclined, handleUnavailable).
THEOREM SessionsLast == Spec => NoSpontaneousHangup
  <1>1. IInv /\ [Next]_vars => [\A c \in Clients : KeepsSession(c)]_vars
    BY SessionKept
  <1>2. QED
    BY <1>1, Invariance, PTL DEF Spec, NoSpontaneousHangup, KeepsSession
=============================================================================
