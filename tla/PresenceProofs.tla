-------------------------- MODULE PresenceProofs --------------------------
(***************************************************************************)
(* What a connected tab shows converges to the registry, for every number  *)
(* of accounts, tabs and connections and every queue of events under way.  *)
(*                                                                         *)
(* The two view properties are inductive once it is known that the         *)
(* registry holds exactly the connections that have not closed (RegistryIs *)
(* below): a close takes its user offline exactly when the user's entry    *)
(* disappears.                                                             *)
(***************************************************************************)
EXTENDS Presence, SequenceTheorems, TLAPS

\* The registry holds each connection from its 'connection' event to its
\* 'close' event, under the user whose token it presented.
RegistryIs ==
    /\ \A s \in Sockets : readyState[s] # "closed" => owner[s] \in Users
    /\ \A u \in Users, s \in Sockets :
          s \in registry[u] <=> (readyState[s] # "closed" /\ owner[s] = u)

\* A tab without a connection has nothing under way, and an empty list
\* unless it is one that is about to reconnect.
IdleTabs ==
    \A t \in Watched :
        tabSocket[t] = NONE => inbox[t] = <<>> /\ (t \notin kept => onlineUsers[t] = {})

IInv ==
    /\ TypeOK
    /\ RegistryIs
    /\ IdleTabs
    /\ NobodyMissing
    /\ NoGhosts

----------------------------------------------------------------------------
(***************************************************************************)
(* The two facts about queues of presence events that everything rests on. *)
(***************************************************************************)
\* An event put at the end decides for the users it names.
LEMMA WillShowAppend ==
  ASSUME NEW view \in SUBSET Users, NEW q \in Seq(Events), NEW e \in Events,
         NEW u \in Users
  PROVE  WillShow(view, Append(q, e), u) <=>
           IF u \in e.ids THEN e.online ELSE WillShow(view, q, u)
  <1> DEFINE r == Append(q, e)
             n == Len(q)
  <1>1. /\ n \in Nat /\ DOMAIN q = 1..n /\ DOMAIN r = 1..(n + 1)
        /\ r[n + 1] = e /\ \A i \in 1..n : r[i] = q[i]
    OBVIOUS
  <1> HIDE DEF r, n
  <1>2. CASE u \in e.ids
    <2>1. e.online \in BOOLEAN
      BY DEF Events
    <2>2. ~(u \in view /\ \A j \in DOMAIN r : u \notin r[j].ids)
      BY <1>1, <1>2
    <2>3. ASSUME e.online PROVE WillShow(view, r, u)
      <3>1. /\ n + 1 \in DOMAIN r /\ u \in r[n + 1].ids /\ r[n + 1].online
            /\ \A j \in DOMAIN r : j > n + 1 => u \notin r[j].ids
        BY <1>1, <1>2, <2>3
      <3>2. QED
        BY <3>1 DEF WillShow
    <2>4. ASSUME WillShow(view, r, u) PROVE e.online
      <3>1. PICK i \in DOMAIN r : /\ u \in r[i].ids /\ r[i].online
                                  /\ \A j \in DOMAIN r : j > i => u \notin r[j].ids
        BY <2>2, <2>4 DEF WillShow
      <3>2. i = n + 1
        BY <1>1, <1>2, <3>1
      <3>3. QED
        BY <1>1, <3>1, <3>2
    <2>5. QED
      BY <1>2, <2>1, <2>3, <2>4 DEF r
  <1>3. CASE u \notin e.ids
    <2>1. ASSUME WillShow(view, r, u) PROVE WillShow(view, q, u)
      <3>1. CASE u \in view /\ \A j \in DOMAIN r : u \notin r[j].ids
        BY <1>1, <3>1 DEF WillShow
      <3>2. CASE \E i \in DOMAIN r : /\ u \in r[i].ids /\ r[i].online
                                     /\ \A j \in DOMAIN r : j > i => u \notin r[j].ids
        <4>1. PICK i \in DOMAIN r : /\ u \in r[i].ids /\ r[i].online
                                    /\ \A j \in DOMAIN r : j > i => u \notin r[j].ids
          BY <3>2
        <4>2. i \in 1..n
          BY <1>1, <1>3, <4>1
        <4>3. u \in q[i].ids /\ q[i].online /\ \A j \in DOMAIN q : j > i => u \notin q[j].ids
          BY <1>1, <4>1, <4>2
        <4>4. QED
          BY <1>1, <4>2, <4>3 DEF WillShow
      <3>3. QED
        BY <2>1, <3>1, <3>2 DEF WillShow
    <2>2. ASSUME WillShow(view, q, u) PROVE WillShow(view, r, u)
      <3>1. CASE u \in view /\ \A j \in DOMAIN q : u \notin q[j].ids
        BY <1>1, <1>3, <3>1 DEF WillShow
      <3>2. CASE \E i \in DOMAIN q : /\ u \in q[i].ids /\ q[i].online
                                     /\ \A j \in DOMAIN q : j > i => u \notin q[j].ids
        <4>1. PICK i \in DOMAIN q : /\ u \in q[i].ids /\ q[i].online
                                    /\ \A j \in DOMAIN q : j > i => u \notin q[j].ids
          BY <3>2
        <4>2. /\ i \in DOMAIN r /\ u \in r[i].ids /\ r[i].online
              /\ \A j \in DOMAIN r : j > i => u \notin r[j].ids
          BY <1>1, <1>3, <4>1
        <4>3. QED
          BY <4>2 DEF WillShow
      <3>3. QED
        BY <2>2, <3>1, <3>2 DEF WillShow
    <2>3. QED
      BY <1>3, <2>1, <2>2 DEF r
  <1>4. QED
    BY <1>2, <1>3

\* Receiving the first event changes nothing about what will be shown.
LEMMA WillShowDeliver ==
  ASSUME NEW view \in SUBSET Users, NEW q \in Seq(Events), q # <<>>,
         NEW u \in Users
  PROVE  WillShow(Apply(view, Head(q)), Tail(q), u) <=> WillShow(view, q, u)
  <1> DEFINE r == Tail(q)
             n == Len(q)
             v == Apply(view, Head(q))
  <1>1. /\ n \in Nat /\ n > 0 /\ DOMAIN q = 1..n /\ DOMAIN r = 1..(n - 1)
        /\ Head(q) = q[1] /\ \A i \in 1..(n - 1) : r[i] = q[i + 1]
    OBVIOUS
  <1>2. u \in v <=> IF u \in q[1].ids THEN q[1].online ELSE u \in view
    BY <1>1 DEF Apply
  <1> HIDE DEF r, n, v
  <1>3. ASSUME WillShow(v, r, u) PROVE WillShow(view, q, u)
    <2>1. CASE u \in v /\ \A j \in DOMAIN r : u \notin r[j].ids
      <3>1. \A j \in DOMAIN q : j > 1 => u \notin q[j].ids
        <4>1. ASSUME NEW j \in 1..n, j > 1 PROVE u \notin q[j].ids
          <5>1. j - 1 \in 1..(n - 1) /\ r[j - 1] = q[(j - 1) + 1]
            BY <1>1, <4>1
          <5>2. (j - 1) + 1 = j
            BY <1>1
          <5>3. QED
            BY <1>1, <2>1, <5>1, <5>2
        <4>2. QED
          BY <1>1, <4>1
      <3>2. CASE u \in q[1].ids
        <4>1. q[1].online /\ 1 \in DOMAIN q
          BY <1>1, <1>2, <2>1, <3>2
        <4>2. QED
          BY <3>1, <3>2, <4>1 DEF WillShow
      <3>3. CASE u \notin q[1].ids
        <4>1. u \in view
          BY <1>2, <2>1, <3>3
        <4>2. \A j \in DOMAIN q : u \notin q[j].ids
          BY <1>1, <3>1, <3>3
        <4>3. QED
          BY <4>1, <4>2 DEF WillShow
      <3>4. QED
        BY <3>2, <3>3
    <2>2. CASE \E i \in DOMAIN r : /\ u \in r[i].ids /\ r[i].online
                                   /\ \A j \in DOMAIN r : j > i => u \notin r[j].ids
      <3>1. PICK i \in DOMAIN r : /\ u \in r[i].ids /\ r[i].online
                                  /\ \A j \in DOMAIN r : j > i => u \notin r[j].ids
        BY <2>2
      <3>2. i + 1 \in DOMAIN q /\ u \in q[i + 1].ids /\ q[i + 1].online
        BY <1>1, <3>1
      <3>3. ASSUME NEW j \in DOMAIN q, j > i + 1 PROVE u \notin q[j].ids
        <4>1. j - 1 \in 1..(n - 1) /\ j - 1 > i /\ r[j - 1] = q[(j - 1) + 1]
          BY <1>1, <3>1, <3>3
        <4>2. (j - 1) + 1 = j
          BY <1>1
        <4>3. QED
          BY <1>1, <3>1, <4>1, <4>2
      <3>4. QED
        BY <3>2, <3>3 DEF WillShow
    <2>3. QED
      BY <1>3, <2>1, <2>2 DEF WillShow
  <1>4. ASSUME WillShow(view, q, u) PROVE WillShow(v, r, u)
    <2>1. CASE u \in view /\ \A j \in DOMAIN q : u \notin q[j].ids
      <3>1. u \in v
        BY <1>1, <1>2, <2>1
      <3>2. ASSUME NEW j \in DOMAIN r PROVE u \notin r[j].ids
        <4>1. j + 1 \in DOMAIN q /\ r[j] = q[j + 1]
          BY <1>1
        <4>2. QED
          BY <2>1, <4>1
      <3>3. QED
        BY <3>1, <3>2 DEF WillShow
    <2>2. CASE \E i \in DOMAIN q : /\ u \in q[i].ids /\ q[i].online
                                   /\ \A j \in DOMAIN q : j > i => u \notin q[j].ids
      <3>1. PICK i \in DOMAIN q : /\ u \in q[i].ids /\ q[i].online
                                  /\ \A j \in DOMAIN q : j > i => u \notin q[j].ids
        BY <2>2
      <3>2. \A j \in DOMAIN r : j > i - 1 => u \notin r[j].ids
        BY <1>1, <3>1
      <3>3. CASE i = 1
        <4>1. u \in v /\ \A j \in DOMAIN r : u \notin r[j].ids
          BY <1>1, <1>2, <3>1, <3>2, <3>3
        <4>2. QED
          BY <4>1 DEF WillShow
      <3>4. CASE i > 1
        <4>1. i - 1 \in 1..(n - 1) /\ r[i - 1] = q[(i - 1) + 1] /\ (i - 1) + 1 = i
          BY <1>1, <3>1, <3>4
        <4>2. i - 1 \in DOMAIN r /\ u \in r[i - 1].ids /\ r[i - 1].online
          BY <1>1, <3>1, <4>1
        <4>3. QED
          BY <3>2, <4>2 DEF WillShow
      <3>5. QED
        BY <1>1, <3>1, <3>3, <3>4
    <2>3. QED
      BY <1>4, <2>1, <2>2 DEF WillShow
  <1>5. QED
    BY <1>3, <1>4 DEF r, v

----------------------------------------------------------------------------
\* A server with no connections satisfies the invariant.
LEMMA InitIInv == Init => IInv
  <1> SUFFICES ASSUME Init PROVE IInv
    OBVIOUS
  <1> USE UserOfAssumption, NoneAssumption DEF Init
  <1>1. TypeOK
    <2>1. inbox \in [Watched -> Seq(Events)] /\ onlineUsers \in [Watched -> SUBSET Users]
      OBVIOUS
    <2>2. registry \in [Users -> SUBSET Sockets] /\ owner \in [Sockets -> Users \cup {NONE}]
      OBVIOUS
    <2>3. QED
      BY <2>1, <2>2 DEF TypeOK
  <1>2. RegistryIs
    BY DEF RegistryIs
  <1>3. IdleTabs /\ NobodyMissing /\ NoGhosts
    BY DEF IdleTabs, NobodyMissing, NoGhosts, Listening
  <1>4. QED
    BY <1>1, <1>2, <1>3 DEF IInv

\* A step that touches neither a list, nor an inbox, nor the registry, and
\* opens no connection, preserves both view properties.
LEMMA ViewsUntouched ==
  ASSUME IInv, UNCHANGED <<onlineUsers, inbox, registry, kept>>,
         \A t \in Watched : Listening(t)' => Listening(t)
  PROVE  NobodyMissing' /\ NoGhosts'
  BY DEF IInv, NobodyMissing, NoGhosts, Connected, Shown, WillShow

\* wss 'connection'.
LEMMA ConnectStep ==
  ASSUME IInv, NEW t \in Tabs, NEW s \in Sockets, Connect(t, s)
  PROVE  IInv'
  <1> DEFINE u == UserOf[t]
  <1>1. u \in Users
    BY UserOfAssumption
  <1>2. readyState[s] = "closed" /\ \A x \in Tabs : tabSocket[x] # s
    BY DEF Connect, Unused
  <1>3. /\ readyState' = [readyState EXCEPT ![s] = "open"]
        /\ owner' = [owner EXCEPT ![s] = u]
        /\ registry' = [registry EXCEPT ![u] = @ \cup {s}]
        /\ isAlive' = isAlive \cup {s}
        /\ inbox' = Welcome(t)
        /\ tabSocket' = [tabSocket EXCEPT ![t] = s]
        /\ UNCHANGED <<gone, onlineUsers, kept>>
    BY DEF Connect
  <1>4. Connected \subseteq Users /\ Connected' = Connected \cup {u}
    BY <1>1, <1>3 DEF IInv, TypeOK, Connected
  <1>5. Online({u}) \in Events /\ Online(Connected \ {u}) \in Events
    BY <1>1, <1>4 DEF Online, Events
  <1> HIDE DEF u
  <1>6. inbox' = [x \in Watched |->
                    IF x = t THEN <<Online({u}), Online(Connected \ {u})>>
                    ELSE IF Listening(x) THEN Append(inbox[x], Online({u})) ELSE inbox[x]]
    BY <1>3 DEF Welcome, Broadcast, u
  <1>7. TypeOK'
    <2>1. inbox' \in [Watched -> Seq(Events)]
      BY <1>5, <1>6 DEF IInv, TypeOK
    <2>2. registry' \in [Users -> SUBSET Sockets]
      BY <1>1, <1>3 DEF IInv, TypeOK
    <2>3. QED
      BY <1>1, <1>3, <2>1, <2>2 DEF IInv, TypeOK
  <1>8. RegistryIs'
    BY <1>1, <1>2, <1>3, NoneAssumption DEF IInv, TypeOK, RegistryIs
  <1>9. ASSUME NEW x \in Watched, Listening(x)', x # t
        PROVE  /\ Listening(x) /\ inbox'[x] = Append(inbox[x], Online({u}))
               /\ onlineUsers'[x] = onlineUsers[x]
               /\ \A w \in Users : WillShow(onlineUsers[x], Append(inbox[x], Online({u})), w)
                                     <=> w = u \/ WillShow(onlineUsers[x], inbox[x], w)
    <2>1. x \in Tabs /\ tabSocket'[x] = tabSocket[x] /\ tabSocket[x] # s
      BY <1>2, <1>3, <1>9, UserOfAssumption DEF IInv, TypeOK
    <2>2. Listening(x)
      BY <1>3, <1>9, <2>1 DEF Listening, IInv, TypeOK
    <2>3. onlineUsers[x] \in SUBSET Users /\ inbox[x] \in Seq(Events)
      BY DEF IInv, TypeOK
    <2>4. ASSUME NEW w \in Users
          PROVE  WillShow(onlineUsers[x], Append(inbox[x], Online({u})), w)
                   <=> w = u \/ WillShow(onlineUsers[x], inbox[x], w)
      <3>1. Online({u}).ids = {u} /\ Online({u}).online = TRUE
        BY DEF Online
      <3>2. WillShow(onlineUsers[x], Append(inbox[x], Online({u})), w) <=>
              IF w \in Online({u}).ids THEN Online({u}).online
              ELSE WillShow(onlineUsers[x], inbox[x], w)
        BY <1>5, <2>3, WillShowAppend
      <3>3. QED
        BY <3>1, <3>2
    <2>5. QED
      BY <1>3, <1>6, <1>9, <2>2, <2>4
  <1>10. ASSUME NEW w \in Users, t \in Watched
         PROVE  WillShow(onlineUsers'[t], inbox'[t], w) <=>
                  w \in Connected' \/ w \in onlineUsers[t]
    <2>1. inbox'[t] = <<Online({u}), Online(Connected \ {u})>>
      BY <1>6, <1>10
    <2> DEFINE q == <<Online({u}), Online(Connected \ {u})>>
    <2>2. /\ DOMAIN q = {1, 2}
          /\ q[1].ids = {u} /\ q[1].online /\ q[2].ids = Connected \ {u} /\ q[2].online
      BY DEF Online
    <2> HIDE DEF q
    <2>3. WillShow(onlineUsers[t], q, w) <=> w \in Connected \cup {u} \/ w \in onlineUsers[t]
      BY <2>2 DEF WillShow
    <2>4. QED
      BY <1>3, <1>4, <2>1, <2>3 DEF q
  <1>11. IdleTabs'
    <2>1. ASSUME NEW x \in Watched, tabSocket'[x] = NONE
          PROVE  x # t /\ tabSocket[x] = NONE /\ ~Listening(x)
      BY <1>3, <2>1, NoneAssumption, UserOfAssumption DEF IInv, TypeOK, Listening
    <2>2. QED
      BY <1>3, <1>6, <2>1 DEF IInv, IdleTabs
  <1>12. ASSUME NEW x \in Watched, Listening(x)'
         PROVE  /\ Connected' \subseteq Shown(x)'
                /\ x \notin kept' => Shown(x)' \subseteq Connected'
    <2>1. CASE x = t
      <3>1. t \notin kept => onlineUsers[t] = {}
        BY <2>1 DEF IInv, IdleTabs, Connect
      <3>2. Connected' \subseteq Users
        BY <1>1, <1>4
      <3>3. QED
        BY <1>3, <1>10, <2>1, <3>1, <3>2 DEF Shown
    <2>2. CASE x # t
      <3>1. /\ Connected \subseteq Shown(x)
            /\ x \notin kept => Shown(x) \subseteq Connected
        BY <1>9, <1>12, <2>2 DEF IInv, NobodyMissing, NoGhosts
      <3>2. \A w \in Users : WillShow(onlineUsers'[x], inbox'[x], w)
                               <=> w = u \/ WillShow(onlineUsers[x], inbox[x], w)
        BY <1>9, <1>12, <2>2
      <3>3. Shown(x)' = Shown(x) \cup {u}
        BY <1>1, <3>2 DEF Shown, u
      <3>4. QED
        BY <1>3, <1>4, <3>1, <3>3
    <2>3. QED
      BY <2>1, <2>2
  <1>13. NobodyMissing' /\ NoGhosts'
    BY <1>12 DEF NobodyMissing, NoGhosts
  <1>14. QED
    BY <1>7, <1>8, <1>11, <1>13 DEF IInv

\* handleClose.
LEMMA HandleCloseStep ==
  ASSUME IInv, NEW s \in Sockets, HandleClose(s) PROVE IInv'
  <1> DEFINE u == owner[s]
  <1>1. /\ readyState[s] = "closing" /\ u \in Users /\ s \in registry[u]
        /\ readyState' = [readyState EXCEPT ![s] = "closed"]
        /\ registry' = [registry EXCEPT ![u] = @ \ {s}]
        /\ inbox' = IF registry[u] = {s} THEN Broadcast(Offline({u})) ELSE inbox
        /\ isAlive' = isAlive \ {s} /\ gone' = gone \ {s}
        /\ owner' = [owner EXCEPT ![s] = NONE]
        /\ UNCHANGED <<tabSocket, onlineUsers, kept>>
    <2>1. readyState[s] # "closed"
      BY DEF HandleClose
    <2>2. QED
      BY <2>1 DEF HandleClose, LastConnection, tabVars, IInv, RegistryIs
  <1> HIDE DEF u
  <1>2. Offline({u}) \in Events
    BY <1>1 DEF Offline, Events
  <1>3. inbox' \in [Watched -> Seq(Events)]
    BY <1>1, <1>2 DEF Broadcast, IInv, TypeOK
  <1>4. TypeOK'
    <2>1. registry' \in [Users -> SUBSET Sockets]
      BY <1>1 DEF IInv, TypeOK
    <2>2. readyState' \in [Sockets -> {"open", "closing", "closed"}]
      BY <1>1 DEF IInv, TypeOK
    <2>3. QED
      BY <1>1, <1>3, <2>1, <2>2 DEF IInv, TypeOK
  <1>5. RegistryIs'
    BY <1>1, NoneAssumption DEF IInv, TypeOK, RegistryIs
  <1>6. ASSUME NEW t \in Watched
        PROVE  /\ Listening(t)' <=> Listening(t)
               /\ inbox'[t] = IF registry[u] = {s} /\ Listening(t)
                              THEN Append(inbox[t], Offline({u})) ELSE inbox[t]
    BY <1>1, UserOfAssumption, NoneAssumption DEF Listening, Broadcast, IInv, TypeOK
  <1>7. IdleTabs'
    BY <1>1, <1>6 DEF IInv, IdleTabs, Listening
  <1>8. ASSUME NEW t \in Watched, Listening(t)'
        PROVE  /\ Connected' \subseteq Shown(t)'
               /\ t \notin kept' => Shown(t)' \subseteq Connected'
    <2>1. /\ Listening(t)
          /\ Connected \subseteq Shown(t)
          /\ t \notin kept => Shown(t) \subseteq Connected
      BY <1>6, <1>8 DEF IInv, NobodyMissing, NoGhosts
    <2>2. CASE registry[u] = {s}
      <3>1. Connected' = Connected \ {u}
        BY <1>1, <2>2 DEF Connected, IInv, TypeOK
      <3>2. \A w \in Users : WillShow(onlineUsers[t], Append(inbox[t], Offline({u})), w)
                               <=> w # u /\ WillShow(onlineUsers[t], inbox[t], w)
        <4>1. Offline({u}).ids = {u} /\ Offline({u}).online = FALSE
          BY DEF Offline
        <4>2. onlineUsers[t] \in SUBSET Users /\ inbox[t] \in Seq(Events)
          BY DEF IInv, TypeOK
        <4>3. ASSUME NEW w \in Users
              PROVE  WillShow(onlineUsers[t], Append(inbox[t], Offline({u})), w) <=>
                       IF w \in Offline({u}).ids THEN Offline({u}).online
                       ELSE WillShow(onlineUsers[t], inbox[t], w)
          BY <1>2, <4>2, WillShowAppend
        <4>4. QED
          BY <4>1, <4>3
      <3>3. Shown(t)' = Shown(t) \ {u}
        BY <1>1, <1>6, <2>1, <2>2, <3>2 DEF Shown
      <3>4. QED
        BY <1>1, <2>1, <3>1, <3>3
    <2>3. CASE registry[u] # {s}
      <3>1. Connected' = Connected
        BY <1>1, <2>3 DEF Connected, IInv, TypeOK
      <3>2. Shown(t)' = Shown(t)
        BY <1>1, <1>6, <2>3 DEF Shown
      <3>3. QED
        BY <1>1, <2>1, <3>1, <3>2
    <2>4. QED
      BY <2>2, <2>3
  <1>9. NobodyMissing' /\ NoGhosts'
    BY <1>8 DEF NobodyMissing, NoGhosts
  <1>10. QED
    BY <1>4, <1>5, <1>7, <1>9 DEF IInv

\* The connection starting to end, the heartbeat and the pong.
LEMMA ConnectionStep ==
  ASSUME IInv, (\E s \in Sockets : BeginClose(s) \/ Pong(s)) \/ Heartbeat
  PROVE  IInv'
  <1>1. /\ UNCHANGED <<owner, registry, gone, inbox, tabVars>>
        /\ isAlive' \subseteq Sockets
        /\ readyState' \in [Sockets -> {"open", "closing", "closed"}]
        /\ \A x \in Sockets : readyState'[x] = readyState[x]
                                \/ (readyState[x] = "open" /\ readyState'[x] = "closing")
    <2>0. readyState \in [Sockets -> {"open", "closing", "closed"}] /\ isAlive \subseteq Sockets
      BY DEF IInv, TypeOK
    <2>1. CASE \E s \in Sockets : BeginClose(s)
      <3>1. PICK s \in Sockets :
               /\ UNCHANGED <<owner, registry, gone, inbox, tabVars, isAlive>>
               /\ readyState[s] = "open"
               /\ readyState' = [readyState EXCEPT ![s] = "closing"]
        BY <2>1 DEF BeginClose
      <3>2. \A x \in Sockets : readyState'[x] = readyState[x]
                \/ (readyState[x] = "open" /\ readyState'[x] = "closing")
        BY <2>0, <3>1
      <3>3. readyState' \in [Sockets -> {"open", "closing", "closed"}]
        BY <2>0, <3>1
      <3>4. QED
        BY <2>0, <3>1, <3>2, <3>3
    <2>2. CASE \E s \in Sockets : Pong(s)
      <3>1. PICK s \in Sockets :
               /\ UNCHANGED <<owner, registry, gone, inbox, tabVars, readyState>>
               /\ isAlive' = isAlive \cup {s}
        BY <2>2 DEF Pong
      <3>2. QED
        BY <2>0, <3>1
    <2>3. CASE Heartbeat
      <3>1. /\ UNCHANGED <<owner, registry, gone, inbox, tabVars>>
            /\ isAlive' = {}
            /\ readyState' = [s \in Sockets |->
                                IF readyState[s] = "open" /\ s \notin isAlive
                                THEN "closing" ELSE readyState[s]]
        BY <2>3 DEF Heartbeat, AskAgain
      <3>2. \A x \in Sockets : readyState'[x] = readyState[x]
                \/ (readyState[x] = "open" /\ readyState'[x] = "closing")
        BY <2>0, <3>1
      <3>3. readyState' \in [Sockets -> {"open", "closing", "closed"}]
        BY <2>0, <3>1
      <3>4. QED
        BY <3>1, <3>2, <3>3
    <2>4. QED
      BY <2>1, <2>2, <2>3
  <1>2. TypeOK' /\ RegistryIs' /\ IdleTabs'
    BY <1>1 DEF IInv, TypeOK, RegistryIs, IdleTabs, tabVars
  <1>3. \A t \in Watched : Listening(t)' => Listening(t)
    BY <1>1, UserOfAssumption DEF Listening, IInv, TypeOK, tabVars
  <1>4. QED
    BY <1>1, <1>2, <1>3, ViewsUntouched DEF IInv, tabVars

\* The server starting again.
LEMMA RestartStep == ASSUME IInv, Restart PROVE IInv'
  <1>1. TypeOK'
    <2>1. registry' \in [Users -> SUBSET Sockets] /\ owner' \in [Sockets -> Users \cup {NONE}]
      BY DEF Restart
    <2>2. readyState' \in [Sockets -> {"open", "closing", "closed"}]
      BY DEF Restart
    <2>3. QED
      BY <2>1, <2>2 DEF Restart, IInv, TypeOK, tabVars
  <1>2. RegistryIs' /\ IdleTabs'
    BY DEF Restart, IInv, RegistryIs, IdleTabs, tabVars
  <1>3. \A t \in Watched : ~Listening(t)'
    BY UserOfAssumption DEF Restart, Listening, IInv, TypeOK, tabVars
  <1>4. QED
    BY <1>1, <1>2, <1>3 DEF IInv, NobodyMissing, NoGhosts

\* An event reaching its tab.
LEMMA DeliverStep == ASSUME IInv, NEW t \in Watched, Deliver(t) PROVE IInv'
  <1>1. /\ inbox[t] # <<>>
        /\ onlineUsers' = [onlineUsers EXCEPT ![t] = Apply(@, Head(inbox[t]))]
        /\ inbox' = [inbox EXCEPT ![t] = Tail(@)]
        /\ UNCHANGED <<readyState, owner, registry, isAlive, gone, tabSocket, kept>>
    BY DEF Deliver, serverVars
  <1>2. onlineUsers[t] \in SUBSET Users /\ inbox[t] \in Seq(Events)
    BY DEF IInv, TypeOK
  <1>3. Head(inbox[t]) \in Events /\ Tail(inbox[t]) \in Seq(Events)
    BY <1>1, <1>2
  <1>4. Apply(onlineUsers[t], Head(inbox[t])) \in SUBSET Users
    BY <1>2, <1>3 DEF Apply, Events
  <1>5. TypeOK' /\ RegistryIs'
    BY <1>1, <1>3, <1>4 DEF IInv, TypeOK, RegistryIs
  <1>6. IdleTabs'
    BY <1>1 DEF IInv, TypeOK, IdleTabs
  <1>7. \A x \in Watched : Shown(x)' = Shown(x)
    <2>1. \A w \in Users : WillShow(onlineUsers'[t], inbox'[t], w)
                             <=> WillShow(onlineUsers[t], inbox[t], w)
      BY <1>1, <1>2, WillShowDeliver DEF IInv, TypeOK
    <2>2. \A x \in Watched : x # t => onlineUsers'[x] = onlineUsers[x] /\ inbox'[x] = inbox[x]
      BY <1>1 DEF IInv, TypeOK
    <2>3. QED
      BY <2>1, <2>2 DEF Shown
  <1>8. Connected' = Connected /\ \A x \in Watched : Listening(x)' <=> Listening(x)
    BY <1>1 DEF Connected, Listening
  <1>9. NobodyMissing' /\ NoGhosts'
    BY <1>1, <1>7, <1>8 DEF IInv, NobodyMissing, NoGhosts
  <1>10. QED
    BY <1>5, <1>6, <1>9 DEF IInv

\* A tab letting go of its connection.
LEMMA LetGoStep == ASSUME IInv, NEW t \in Tabs, Drop(t) \/ Leave(t) PROVE IInv'
  <1>1. /\ tabSocket' = [tabSocket EXCEPT ![t] = NONE]
        /\ inbox' = [x \in Watched |-> IF x = t THEN <<>> ELSE inbox[x]]
        /\ gone' \subseteq Sockets
        /\ UNCHANGED <<readyState, owner, registry, isAlive>>
    BY DEF Drop, Leave, LetGo, IInv, TypeOK, serverVars
  <1>2. /\ onlineUsers' \in [Watched -> SUBSET Users] /\ kept' \subseteq Watched
        /\ t \in Watched => t \in kept' \/ onlineUsers'[t] = {}
        /\ \A x \in Watched : x # t => /\ onlineUsers'[x] = onlineUsers[x]
                                       /\ x \in kept' <=> x \in kept
    BY DEF Drop, Leave, IInv, TypeOK
  <1>3. TypeOK' /\ RegistryIs'
    <2>1. inbox' \in [Watched -> Seq(Events)]
      BY <1>1 DEF IInv, TypeOK
    <2>2. QED
      BY <1>1, <1>2, <2>1 DEF IInv, TypeOK, RegistryIs
  <1>4. IdleTabs'
    BY <1>1, <1>2, UserOfAssumption DEF IInv, TypeOK, IdleTabs
  <1>5. ASSUME NEW x \in Watched, Listening(x)'
        PROVE  x # t /\ Listening(x) /\ Shown(x)' = Shown(x)
    <2>1. x # t
      BY <1>1, <1>5, UserOfAssumption DEF IInv, TypeOK, Listening
    <2>2. Listening(x)
      BY <1>1, <1>5, <2>1, UserOfAssumption DEF IInv, TypeOK, Listening
    <2>3. QED
      BY <1>1, <1>2, <2>1, <2>2 DEF Shown
  <1>6. Connected' = Connected
    BY <1>1 DEF Connected
  <1>7. NobodyMissing' /\ NoGhosts'
    BY <1>2, <1>5, <1>6 DEF IInv, NobodyMissing, NoGhosts
  <1>8. QED
    BY <1>3, <1>4, <1>7 DEF IInv

LEMMA StepIInv == IInv /\ [Next]_vars => IInv'
  <1> SUFFICES ASSUME IInv, [Next]_vars PROVE IInv'
    OBVIOUS
  <1>1. CASE \E t \in Tabs, s \in Sockets : Connect(t, s)
    BY <1>1, ConnectStep
  <1>2. CASE \E s \in Sockets : HandleClose(s)
    BY <1>2, HandleCloseStep
  <1>3. CASE (\E s \in Sockets : BeginClose(s) \/ Pong(s)) \/ Heartbeat
    BY <1>3, ConnectionStep
  <1>4. CASE Restart
    BY <1>4, RestartStep
  <1>5. CASE \E t \in Watched : Deliver(t)
    BY <1>5, DeliverStep
  <1>6. CASE \E t \in Tabs : Drop(t) \/ Leave(t)
    BY <1>6, LetGoStep
  <1>7. CASE UNCHANGED vars
    <2>1. UNCHANGED <<readyState, owner, registry, isAlive, gone, inbox, tabSocket,
                      onlineUsers, kept>>
      BY <1>7 DEF vars, serverVars, tabVars
    <2>2. TypeOK' /\ RegistryIs' /\ IdleTabs'
      BY <2>1 DEF IInv, TypeOK, RegistryIs, IdleTabs
    <2>3. QED
      BY <2>1, <2>2, ViewsUntouched DEF IInv, Listening
  <1>8. QED
    BY <1>1, <1>2, <1>3, <1>4, <1>5, <1>6, <1>7 DEF Next

----------------------------------------------------------------------------
\* The strengthening holds in every reachable state.
THEOREM Invariance == Spec => []IInv
  BY InitIInv, StepIInv, PTL DEF Spec

\* Every variable keeps its type: lists of users hold users only.
THEOREM TypeCorrect == Spec => []TypeOK
  <1>1. IInv => TypeOK
    BY DEF IInv
  <1>2. QED
    BY Invariance, <1>1, PTL

\* No join is lost on any connected tab, whatever is still under way to it
\* (broadcastUserOnline, sendPresenceSnapshot).
THEOREM JoinsReachEveryone == Spec => []NobodyMissing
  <1>1. IInv => NobodyMissing
    BY DEF IInv
  <1>2. QED
    BY Invariance, <1>1, PTL

\* No departure is lost on a tab that connected with an empty list
\* (handleClose, broadcastUserOffline).
THEOREM DeparturesReachFreshTabs == Spec => []NoGhosts
  <1>1. IInv => NoGhosts
    BY DEF IInv
  <1>2. QED
    BY Invariance, <1>1, PTL
===========================================================================
