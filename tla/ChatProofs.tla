----------------------------- MODULE ChatProofs -----------------------------
(***************************************************************************)
(* Messages of one conversation, for any members, history, number of       *)
(* handlers and bounds: each copy shows a message once, agrees with the    *)
(* table when all has landed, and notifications point at live messages.    *)
(*                                                                         *)
(* That the copies agree in the end says nothing of the time in between,   *)
(* so the invariant says what a copy *will* show once the events queued    *)
(* for it have been applied (WillShow, EndsWith, EndsReacted), and that    *)
(* this is what the row holds, up to a change that a handler or an answer  *)
(* under way is to announce (InStep).  A handler announces what it found   *)
(* before its last await, which is true of the row still because it works  *)
(* alone on it (Alone, Holds), unless the row counts as overlapped; and a  *)
(* snapshot replaces the copy by rows that nobody touched since the load   *)
(* was asked for (LoadFresh).                                              *)
(*                                                                         *)
(* First come the lists and queues, then what each step does, in a lemma   *)
(* named after the step (...Does), then one conjunct of the invariant      *)
(* after the other.                                                        *)
(***************************************************************************)
EXTENDS Chat, FiniteSetTheorems, TLAPS

-----------------------------------------------------------------------------
(* A copy and the events queued for it.                                    *)

\* What a list holds of message m, and where a queue speaks of it.
Of(list, m) == {list[i] : i \in {k \in DOMAIN list : list[k].id = m}}
On(q, m) == {i \in DOMAIN q : q[i].id = m}

\* m will be in the copy when the events of q have been applied to it.
WillShow(q, S, m) ==
    /\ S # {} \/ \E i \in On(q, m) : q[i].kind = "add"
    /\ \A i \in On(q, m) : q[i].kind # "delete"

\* The events about m come in the order that makes sense: the message first, its
\* removal last, and changes only of what is there.
Ordered(q, S, m) ==
    /\ \A i \in On(q, m) : q[i].kind = "add" => S = {} /\ \A k \in On(q, m) : i <= k
    /\ \A i \in On(q, m) : q[i].kind = "delete" => \A k \in On(q, m) : k <= i
    /\ On(q, m) # {} => S # {} \/ \E i \in On(q, m) : q[i].kind = "add"

\* The last word of q on the content of m, or the copy's if q has none, is c.
EndsWith(q, S, m, c) ==
    /\ (\A i \in On(q, m) : q[i].kind \notin {"add", "update"}) => \A x \in S : x.content = c
    /\ \A i \in On(q, m) :
          /\ q[i].kind \in {"add", "update"}
          /\ \A k \in On(q, m) : q[k].kind \in {"add", "update"} => k <= i
          => q[i].content = c

\* The same of its reactions.
EndsReacted(q, S, m, R) ==
    /\ (\A i \in On(q, m) : q[i].kind \notin {"add", "reacts"}) => \A x \in S : x.reacts = R
    /\ \A i \in On(q, m) :
          /\ q[i].kind \in {"add", "reacts"}
          /\ \A k \in On(q, m) : q[k].kind \in {"add", "reacts"} => k <= i
          => q[i].reacts = R

-----------------------------------------------------------------------------
(* The invariant.                                                          *)

Working(m) == {j \in Slots : job[j].op # "idle" /\ job[j].id = m}
Answers(m) == {r \in replies : r.id = m}

\* Which stage a handler can be at, and with what in its hands.
Shape(x) ==
    /\ x.op = "idle" <=> x = Idle
    /\ x.op \in {"send", "forward"} => x.at \in {"insert", "fetch", "notify"} /\ x.reacts = {}
    /\ x.op = "edit" => x.at \in {"check", "write", "read", "deliver"}
    /\ x.op = "delete" => x.at \in {"check", "write", "cleanup", "deliver"}
    /\ x.op = "react" => x.at \in {"check", "write", "read", "deliver"}
    /\ x.op = "pin" => x.at \in {"check", "write", "read"}
JobShape == \A j \in Slots : Shape(job[j])

\* Nothing speaks of a message that has not been stored, and only rows that are stored
\* have a state.
Born ==
    /\ \A m \in Ids : rows[m].state = "none" <=> m > lastId
    /\ \A j \in Slots : job[j].op # "idle" /\ job[j].at # "insert" => job[j].id \in 1..lastId
    /\ \A j \in Slots : job[j].at = "insert" => job[j].id = 0
    /\ \A r \in replies : r.id <= lastId
    /\ \A u \in Users : /\ \A i \in DOMAIN inbox[u] : inbox[u][i].id <= lastId
                        /\ \A i \in DOMAIN cache[u] : cache[u][i].id <= lastId
                        /\ \A i \in DOMAIN load[u].rows : load[u].rows[i].id <= lastId

Distinct(list) == \A i, k \in DOMAIN list : list[i].id = list[k].id => i = k
NoDuplicatesLoaded == \A u \in Users : Distinct(load[u].rows)

Room == lastId + Unborn <= MaxMsg

\* At most one request is at work on m, up to the answer of a reaction, which is on its
\* way while the others are told.
Alone(m) ==
    /\ \A j, k \in Working(m) : j = k
    /\ \A r, s \in Answers(m) : r = s
    /\ \A j \in Working(m), r \in Answers(m) :
          job[j].op = "react" /\ job[j].at = "deliver" /\ job[j].by = r.to /\ r.kind = "react"

\* What a handler found in the row is there still.
Holds(m) ==
    /\ \A j \in Working(m) :
          /\ job[j].op \in {"send", "forward"} =>
                /\ rows[m].state = "live" /\ rows[m].reacts = {}
                /\ job[j].at = "notify" => job[j].content = rows[m].content
          /\ job[j].op \in {"edit", "react", "pin"} /\ job[j].at # "check" => rows[m].state = "live"
          /\ job[j].op = "edit" /\ job[j].at = "deliver" => job[j].content = rows[m].content
          /\ job[j].op = "react" /\ job[j].at = "deliver" => job[j].reacts = rows[m].reacts
          /\ job[j].op = "delete" /\ job[j].at = "write" => rows[m].state = "live"
          /\ job[j].op = "delete" /\ job[j].at \in {"cleanup", "deliver"} => rows[m].state = "deleted"
    /\ \A r \in Answers(m) : r.kind = "react" => r.reacts = rows[m].reacts

Clean(m) == m \notin overlapped \/ \E u \in Users : m \notin stale[u]

OneAtATime == \A m \in Ids : Clean(m) => Alone(m) /\ Holds(m)

\* A load that nothing overlapped brings the row as it is.
Brings(list, m) ==
    /\ Of(list, m) # {} <=> rows[m].state = "live"
    /\ \A x \in Of(list, m) : x.content = rows[m].content /\ x.reacts = rows[m].reacts
LoadFresh == \A u \in Users : \A m \in Ids :
    load[u].at # "none" /\ m \notin load[u].touched =>
        /\ ~Busy(m) /\ ~Queued(u, m)
        /\ load[u].at = "answered" => Brings(load[u].rows, m)

Sending(m) == \E j \in Slots : job[j].op \in {"send", "forward"} /\ job[j].id = m
Removing(m) == \E j \in Slots :
    job[j].op = "delete" /\ job[j].id = m /\ job[j].at \in {"cleanup", "deliver"}
Editing(m) == \E j \in Slots :
    job[j].op = "edit" /\ job[j].id = m /\ job[j].at \in {"read", "deliver"}
Answering(u, m) == \E r \in replies : r.kind = "react" /\ r.to = u /\ r.id = m
Reacting(u, m) ==
    \/ Answering(u, m)
    \/ \E j \in Slots : /\ job[j].op = "react" /\ job[j].id = m
                        /\ job[j].at = "read" \/ (job[j].at = "deliver" /\ job[j].by # u)
Waiting(u, m) ==
    \/ Sending(m) \/ Answering(u, m)
    \/ \E j \in Slots : job[j].op = "react" /\ job[j].id = m /\ job[j].by = u

\* The browsers are to show m: it is stored and they have been told, or they have not
\* been told yet that it is gone.
Due(m) == (rows[m].state = "live" /\ ~Sending(m)) \/ Removing(m)

\* What the copy of u will show of m once its events have landed is what the row holds,
\* up to the change a handler is about to announce.
InStep(u, m) ==
    LET q == inbox[u]
        S == Of(cache[u], m) IN
    /\ Ordered(q, S, m)
    /\ WillShow(q, S, m) <=> Due(m)
    /\ Due(m) /\ ~Editing(m) => EndsWith(q, S, m, rows[m].content)
    /\ Due(m) /\ ~Reacting(u, m) => EndsReacted(q, S, m, rows[m].reacts)
    /\ Waiting(u, m) => On(q, m) = {}
CopiesFollow == \A u \in Users : \A m \in Ids : m \notin stale[u] => InStep(u, m)

Basics == TypeOK /\ Room /\ JobShape /\ Born /\ NoDuplicates /\ NoDuplicatesLoaded
IInv == Basics /\ OneAtATime /\ LoadFresh /\ CopiesFollow /\ NotesPointAtLive

-----------------------------------------------------------------------------
(* Lists: what filter(), map() and the append of a store action leave.     *)

\* A finite set of numbers can be listed in increasing order: by how many of its members
\* are not above each.
LEMMA CanBeOrdered ==
    ASSUME NEW K \in SUBSET Nat, IsFiniteSet(K)
    PROVE  \E f \in [1..Cardinality(K) -> K] : \A i, k \in DOMAIN f : i < k => f[i] < f[k]
  <1> DEFINE n == Cardinality(K)
             below(x) == {y \in K : y <= x}
             rank == [x \in K |-> Cardinality(below(x))]
  <1>0. n \in Nat /\ \A x \in K : x \in Nat
    BY FS_CardinalityType
  <1>1. ASSUME NEW x \in K PROVE IsFiniteSet(below(x)) /\ Cardinality(below(x)) \in 1..n
    <2>1. IsFiniteSet(below(x)) /\ Cardinality(below(x)) <= n
      BY FS_Subset, below(x) \in SUBSET K
    <2>2. Cardinality(below(x)) \in Nat
      BY <2>1, FS_CardinalityType
    <2>3. Cardinality(below(x)) # 0
      BY <2>1, FS_EmptySet, x \in below(x)
    <2> QED
      BY <1>0, <2>1, <2>2, <2>3
  <1>2. ASSUME NEW x \in K, NEW y \in K, x < y PROVE rank[x] < rank[y]
    <2>1. below(x) \in SUBSET below(y)
      <3>1. ASSUME NEW z \in K, z <= x PROVE z <= y
        <4>1. x \in Nat /\ y \in Nat /\ z \in Nat
          BY <1>0
        <4> QED
          BY <1>2, <3>1, <4>1
      <3> QED
        BY <3>1
    <2>2. y \in below(y) /\ y \notin below(x)
      BY <1>0, <1>2
    <2>3. Cardinality(below(x)) <= Cardinality(below(y))
      BY <1>1, <2>1, FS_Subset
    <2>4. Cardinality(below(x)) # Cardinality(below(y))
      BY <1>1, <2>1, <2>2, FS_Subset
    <2> QED
      BY <1>0, <1>1, <2>3, <2>4
  <1>3. rank \in Injection(K, 1..n)
    <2>1. rank \in [K -> 1..n]
      BY <1>1
    <2>2. ASSUME NEW x \in K, NEW y \in K, rank[x] = rank[y] PROVE x = y
      <3>1. rank[x] \in Nat /\ rank[y] \in Nat
        BY <2>1, <1>0
      <3> HIDE DEF rank
      <3> QED
        BY <1>2, <2>2, <3>1
    <2> QED
      BY <2>1, <2>2 DEF Injection, IsInjective
  <1>4. IsFiniteSet(1..n) /\ Cardinality(1..n) = n
    BY <1>0, FS_Interval
  <1>5. rank \in Surjection(K, 1..n)
    BY <1>3, <1>4, FS_Injection
  <1> DEFINE f == [i \in 1..n |-> CHOOSE x \in K : rank[x] = i]
  <1>6. ASSUME NEW i \in 1..n PROVE f[i] \in K /\ rank[f[i]] = i
    <2> HIDE DEF rank
    <2>1. \E x \in K : rank[x] = i
      BY <1>5 DEF Surjection
    <2> QED
      BY <2>1
  <1>7. ASSUME NEW i \in 1..n, NEW k \in 1..n, i < k PROVE f[i] < f[k]
    <2> HIDE DEF f, rank
    <2>1. f[i] \in Nat /\ f[k] \in Nat
      BY <1>0, <1>6
    <2>0. i \in Nat /\ k \in Nat
      BY <1>0
    <2>2. CASE f[k] < f[i]
      <3>1. rank[f[k]] < rank[f[i]]
        BY <1>2, <1>6, <2>2
      <3> QED
        BY <1>6, <1>7, <2>0, <3>1
    <2>3. CASE f[k] = f[i]
      BY <1>6, <1>7, <2>0, <2>3
    <2> QED
      BY <2>1, <2>2, <2>3
  <1>8. f \in [1..n -> K]
    BY <1>6
  <1> QED
    BY <1>7, <1>8

\* InOrder lists each member once, in increasing order.
LEMMA InOrderLists ==
    ASSUME NEW K \in SUBSET Nat, IsFiniteSet(K)
    PROVE  /\ Cardinality(K) \in Nat
           /\ InOrder(K) \in [1..Cardinality(K) -> K]
           /\ \A i, k \in 1..Cardinality(K) : InOrder(K)[i] = InOrder(K)[k] => i = k
           /\ \A x \in K : \E i \in 1..Cardinality(K) : InOrder(K)[i] = x
  <1> DEFINE n == Cardinality(K)
             f == InOrder(K)
  <1>0. n \in Nat
    BY FS_CardinalityType
  <1>1. f \in [1..n -> K] /\ \A i, k \in DOMAIN f : i < k => f[i] < f[k]
    BY CanBeOrdered DEF InOrder
  <1>2. ASSUME NEW i \in 1..n, NEW k \in 1..n, f[i] = f[k] PROVE i = k
    <2> HIDE DEF f
    <2>0. i \in Nat /\ k \in Nat
      BY <1>0
    <2>1. f[i] \in K /\ f[k] \in K
      BY <1>1
    <2>2. ~(i < k) /\ ~(k < i)
      <3>1. DOMAIN f = 1..n
        BY <1>1
      <3>2. f[i] \in Nat
        BY <2>1
      <3> QED
        BY <1>1, <1>2, <3>1, <3>2
    <2> QED
      BY <2>0, <2>2
  <1>3. f \in Injection(1..n, K)
    BY <1>1, <1>2 DEF Injection, IsInjective
  <1>4. Cardinality(1..n) = n
    BY <1>0, FS_Interval
  <1>5. f \in Surjection(1..n, K)
    BY <1>3, <1>4, FS_Injection
  <1> QED
    BY <1>0, <1>1, <1>2, <1>5 DEF Surjection

\* Whether a list shows a message.
LEMMA OfIds ==
    ASSUME NEW list, NEW m
    PROVE  m \in IdsOf(list) <=> Of(list, m) # {}
  BY DEF IdsOf, Of

\* addMessage
LEMMA AddOf ==
    ASSUME NEW list \in Seq(Entry), NEW e \in Event
    PROVE  LET new == AddMessage(list, e) IN
           /\ new \in Seq(Entry)
           /\ Distinct(list) => Distinct(new)
           /\ \A m \in Ids : m # e.id => Of(new, m) = Of(list, m)
           /\ Of(list, e.id) # {} => Of(new, e.id) = Of(list, e.id)
           /\ Of(list, e.id) = {} => \A x \in Of(new, e.id) : x.content = e.content /\ x.reacts = e.reacts
           /\ Of(new, e.id) # {}
  <1> DEFINE new == AddMessage(list, e)
             x == [id |-> e.id, content |-> e.content, reacts |-> e.reacts, pinned |-> FALSE]
  <1>1. CASE e.id \in IdsOf(list)
    BY <1>1, OfIds DEF AddMessage
  <1>2. CASE e.id \notin IdsOf(list)
    <2>1. new = Append(list, x)
      BY <1>2 DEF AddMessage
    <2>2. x \in Entry
      BY DEF Entry, Event
    <2>3. x.id = e.id /\ x.content = e.content /\ x.reacts = e.reacts
      OBVIOUS
    <2> HIDE DEF x, new
    <2>4. /\ new \in Seq(Entry)
          /\ DOMAIN new = 1..Len(list)+1 /\ DOMAIN list = 1..Len(list) /\ Len(list) \in Nat
          /\ new[Len(list)+1] = x
          /\ \A i \in 1..Len(list) : new[i] = list[i]
      BY <2>1, <2>2
    <2>5. \A i \in 1..Len(list) : list[i].id # e.id
      BY <1>2, <2>4 DEF IdsOf
    <2>6. Distinct(list) => Distinct(new)
      BY <2>3, <2>4, <2>5 DEF Distinct
    <2>7. ASSUME NEW m \in Ids, m # e.id PROVE Of(new, m) = Of(list, m)
      BY <2>3, <2>4, <2>7 DEF Of
    <2>8. Of(list, e.id) = {}
      BY <2>4, <2>5 DEF Of
    <2>9. Of(new, e.id) = {x}
      <3>1. {k \in DOMAIN new : new[k].id = e.id} = {Len(list)+1}
        BY <2>3, <2>4, <2>5
      <3> QED
        BY <2>4, <3>1 DEF Of
    <2> QED
      BY <2>3, <2>4, <2>6, <2>7, <2>8, <2>9 DEF new
  <1> QED
    BY <1>1, <1>2

\* applyMessageDelete
LEMMA RemoveOf ==
    ASSUME NEW list \in Seq(Entry), NEW d \in Ids
    PROVE  LET new == RemoveMessage(list, d) IN
           /\ new \in Seq(Entry)
           /\ Distinct(list) => Distinct(new)
           /\ \A m \in Ids : m # d => Of(new, m) = Of(list, m)
           /\ Of(new, d) = {}
  <1> DEFINE K == {i \in DOMAIN list : list[i].id # d}
             f == InOrder(K)
             n == Cardinality(K)
             new == RemoveMessage(list, d)
  <1>1. DOMAIN list = 1..Len(list) /\ Len(list) \in Nat /\ \A i \in 1..Len(list) : list[i] \in Entry
    OBVIOUS
  <1>2. K \in SUBSET Nat /\ IsFiniteSet(K)
    <2>1. IsFiniteSet(1..Len(list))
      BY <1>1, FS_Interval
    <2> QED
      BY <1>1, <2>1, FS_Subset
  <1>3. /\ n \in Nat
        /\ f \in [1..n -> K]
        /\ \A i, k \in 1..n : f[i] = f[k] => i = k
        /\ \A x \in K : \E i \in 1..n : f[i] = x
    BY <1>2, InOrderLists
  <1>4. new = [i \in 1..n |-> list[f[i]]]
    BY <1>3 DEF RemoveMessage
  <1> HIDE DEF f, n, new
  <1>5. new \in Seq(Entry)
    BY <1>1, <1>3, <1>4
  <1>6. DOMAIN new = 1..n /\ \A i \in 1..n : new[i] = list[f[i]] /\ f[i] \in 1..Len(list) /\ list[f[i]].id # d
    BY <1>1, <1>3, <1>4
  <1>7. Distinct(list) => Distinct(new)
    BY <1>1, <1>3, <1>6 DEF Distinct
  <1>8. Of(new, d) = {}
    BY <1>6 DEF Of
  <1>9. ASSUME NEW m \in Ids, m # d PROVE Of(new, m) = Of(list, m)
    <2>1. ASSUME NEW x \in Of(new, m) PROVE x \in Of(list, m)
      BY <1>1, <1>6 DEF Of
    <2>2. ASSUME NEW x \in Of(list, m) PROVE x \in Of(new, m)
      <3>1. PICK i \in 1..Len(list) : list[i] = x /\ list[i].id = m
        BY <1>1 DEF Of
      <3>2. i \in K
        BY <1>1, <1>9, <3>1
      <3>3. PICK k \in 1..n : f[k] = i
        BY <1>3, <3>2
      <3> QED
        BY <1>6, <3>1, <3>3 DEF Of
    <2> QED
      BY <2>1, <2>2
  <1> QED
    BY <1>5, <1>7, <1>8, <1>9 DEF new

\* The setters that change one message leave the others, and what is shown.
LEMMA MappedOf ==
    ASSUME NEW list \in Seq(Entry), NEW new \in Seq(Entry), NEW c \in Ids,
           Len(new) = Len(list),
           \A i \in 1..Len(list) : new[i].id = list[i].id /\ (list[i].id # c => new[i] = list[i])
    PROVE  /\ Distinct(list) => Distinct(new)
           /\ \A m \in Ids : m # c => Of(new, m) = Of(list, m)
           /\ \A x \in Of(new, c) : \E i \in 1..Len(list) :
                 list[i] \in Of(list, c) /\ list[i].id = c /\ x = new[i]
           /\ Of(new, c) = {} <=> Of(list, c) = {}
  <1>1. DOMAIN list = 1..Len(list) /\ DOMAIN new = 1..Len(list)
    OBVIOUS
  <1>2. Distinct(list) => Distinct(new)
    BY <1>1 DEF Distinct
  <1>3. ASSUME NEW m \in Ids, m # c PROVE Of(new, m) = Of(list, m)
    BY <1>1, <1>3 DEF Of
  <1>4. ASSUME NEW x \in Of(new, c)
        PROVE  \E i \in 1..Len(list) : list[i] \in Of(list, c) /\ list[i].id = c /\ x = new[i]
    BY <1>1 DEF Of
  <1>5. Of(new, c) = {} <=> Of(list, c) = {}
    BY <1>1 DEF Of
  <1> QED
    BY <1>2, <1>3, <1>4, <1>5

\* The setters change one field of an entry.
LEMMA NewContent ==
    ASSUME NEW x \in Entry, NEW c \in Content
    PROVE  LET y == [x EXCEPT !.content = c] IN
           y \in Entry /\ y.id = x.id /\ y.content = c /\ y.reacts = x.reacts
  BY DEF Entry

\* The same for the reactions.
LEMMA NewReacts ==
    ASSUME NEW x \in Entry, NEW c \in SUBSET Users
    PROVE  LET y == [x EXCEPT !.reacts = c] IN
           y \in Entry /\ y.id = x.id /\ y.content = x.content /\ y.reacts = c
  BY DEF Entry

\* The same for the pin.
LEMMA NewPinned ==
    ASSUME NEW x \in Entry, NEW c \in BOOLEAN
    PROVE  LET y == [x EXCEPT !.pinned = c] IN
           y \in Entry /\ y.id = x.id /\ y.content = x.content /\ y.reacts = x.reacts
  BY DEF Entry

\* applyMessageUpdate
LEMMA UpdateOf ==
    ASSUME NEW list \in Seq(Entry), NEW e \in Event
    PROVE  LET new == ApplyUpdate(list, e) IN
           /\ new \in Seq(Entry)
           /\ Distinct(list) => Distinct(new)
           /\ \A m \in Ids : m # e.id => Of(new, m) = Of(list, m)
           /\ Of(new, e.id) = {} <=> Of(list, e.id) = {}
           /\ \A x \in Of(new, e.id) :
                 x.content = e.content /\ \E y \in Of(list, e.id) : x.reacts = y.reacts
  <1> DEFINE new == ApplyUpdate(list, e)
  <1>1. e.id \in Ids /\ e.content \in Content
    BY DEF Event
  <1>2. \A i \in 1..Len(list) : list[i] \in Entry
    OBVIOUS
  <1>3. /\ DOMAIN new = DOMAIN list
        /\ \A i \in 1..Len(list) :
              new[i] = IF list[i].id = e.id THEN [list[i] EXCEPT !.content = e.content] ELSE list[i]
    BY DEF ApplyUpdate, OnEntry
  <1>4. ASSUME NEW i \in 1..Len(list)
        PROVE  /\ new[i] \in Entry /\ new[i].id = list[i].id
               /\ list[i].id # e.id => new[i] = list[i]
               /\ list[i].id = e.id => new[i].content = e.content /\ new[i].reacts = list[i].reacts
    <2> HIDE DEF new
    <2>1. CASE list[i].id = e.id
      <3> DEFINE y == [list[i] EXCEPT !.content = e.content]
      <3>1. y \in Entry /\ y.id = list[i].id /\ y.content = e.content /\ y.reacts = list[i].reacts
        BY <1>1, <1>2, NewContent
      <3>2. new[i] = y
        BY <1>3, <2>1
      <3> HIDE DEF y
      <3> QED
        BY <2>1, <3>1, <3>2
    <2>2. CASE list[i].id # e.id
      BY <1>2, <1>3, <2>2
    <2> QED
      BY <2>1, <2>2
  <1>5. new \in Seq(Entry) /\ Len(new) = Len(list)
    <2>1. new = [i \in 1..Len(list) |-> new[i]]
      BY DEF ApplyUpdate, OnEntry
    <2> HIDE DEF new
    <2> QED
      BY <1>4, <2>1
  <1> HIDE DEF new
  <1>6. /\ Distinct(list) => Distinct(new)
        /\ \A m \in Ids : m # e.id => Of(new, m) = Of(list, m)
        /\ Of(new, e.id) = {} <=> Of(list, e.id) = {}
    BY <1>1, <1>4, <1>5, MappedOf
  <1>7. ASSUME NEW x \in Of(new, e.id)
        PROVE  x.content = e.content /\ \E y \in Of(list, e.id) : x.reacts = y.reacts
    <2>1. PICK i \in 1..Len(list) : list[i] \in Of(list, e.id) /\ list[i].id = e.id /\ x = new[i]
      BY <1>1, <1>4, <1>5, MappedOf
    <2> QED
      BY <1>4, <2>1
  <1> QED
    BY <1>5, <1>6, <1>7 DEF new

\* applyReactions
LEMMA ReactionsOf ==
    ASSUME NEW list \in Seq(Entry), NEW e \in Event
    PROVE  LET new == ApplyReactions(list, e) IN
           /\ new \in Seq(Entry)
           /\ Distinct(list) => Distinct(new)
           /\ \A m \in Ids : m # e.id => Of(new, m) = Of(list, m)
           /\ Of(new, e.id) = {} <=> Of(list, e.id) = {}
           /\ \A x \in Of(new, e.id) :
                 x.reacts = e.reacts /\ \E y \in Of(list, e.id) : x.content = y.content
  <1> DEFINE new == ApplyReactions(list, e)
  <1>1. e.id \in Ids /\ e.reacts \in SUBSET Users
    BY DEF Event
  <1>2. \A i \in 1..Len(list) : list[i] \in Entry
    OBVIOUS
  <1>3. /\ DOMAIN new = DOMAIN list
        /\ \A i \in 1..Len(list) :
              new[i] = IF list[i].id = e.id THEN [list[i] EXCEPT !.reacts = e.reacts] ELSE list[i]
    BY DEF ApplyReactions, OnEntry
  <1>4. ASSUME NEW i \in 1..Len(list)
        PROVE  /\ new[i] \in Entry /\ new[i].id = list[i].id
               /\ list[i].id # e.id => new[i] = list[i]
               /\ list[i].id = e.id => new[i].reacts = e.reacts /\ new[i].content = list[i].content
    <2> HIDE DEF new
    <2>1. CASE list[i].id = e.id
      <3> DEFINE y == [list[i] EXCEPT !.reacts = e.reacts]
      <3>1. y \in Entry /\ y.id = list[i].id /\ y.reacts = e.reacts /\ y.content = list[i].content
        BY <1>1, <1>2, NewReacts
      <3>2. new[i] = y
        BY <1>3, <2>1
      <3> HIDE DEF y
      <3> QED
        BY <2>1, <3>1, <3>2
    <2>2. CASE list[i].id # e.id
      BY <1>2, <1>3, <2>2
    <2> QED
      BY <2>1, <2>2
  <1>5. new \in Seq(Entry) /\ Len(new) = Len(list)
    <2>1. new = [i \in 1..Len(list) |-> new[i]]
      BY DEF ApplyReactions, OnEntry
    <2> HIDE DEF new
    <2> QED
      BY <1>4, <2>1
  <1> HIDE DEF new
  <1>6. /\ Distinct(list) => Distinct(new)
        /\ \A m \in Ids : m # e.id => Of(new, m) = Of(list, m)
        /\ Of(new, e.id) = {} <=> Of(list, e.id) = {}
    BY <1>1, <1>4, <1>5, MappedOf
  <1>7. ASSUME NEW x \in Of(new, e.id)
        PROVE  x.reacts = e.reacts /\ \E y \in Of(list, e.id) : x.content = y.content
    <2>1. PICK i \in 1..Len(list) : list[i] \in Of(list, e.id) /\ list[i].id = e.id /\ x = new[i]
      BY <1>1, <1>4, <1>5, MappedOf
    <2> QED
      BY <1>4, <2>1
  <1> QED
    BY <1>5, <1>6, <1>7 DEF new

-----------------------------------------------------------------------------
(* Queues: what an event does to a copy, and to what a copy will show.      *)

\* What an event makes of what a copy holds of message m.
Becomes(S, e, m, T) ==
    /\ e.id # m => T = S
    /\ e.id = m /\ e.kind = "add" =>
          /\ T # {}
          /\ S = {} => \A x \in T : x.content = e.content /\ x.reacts = e.reacts
          /\ S # {} => T = S
    /\ e.id = m /\ e.kind \in {"update", "reacts"} => (T = {} <=> S = {})
    /\ e.id = m /\ e.kind = "update" =>
          \A x \in T : x.content = e.content /\ \E y \in S : x.reacts = y.reacts
    /\ e.id = m /\ e.kind = "reacts" =>
          \A x \in T : x.reacts = e.reacts /\ \E y \in S : x.content = y.content
    /\ e.id = m /\ e.kind = "delete" => T = {}

\* The setter of each event does that, and shows no message twice.
LEMMA ApplyOf ==
    ASSUME NEW list \in Seq(Entry), NEW e \in Event
    PROVE  /\ Apply(list, e) \in Seq(Entry)
           /\ Distinct(list) => Distinct(Apply(list, e))
           /\ \A m \in Ids : Becomes(Of(list, m), e, m, Of(Apply(list, e), m))
  <1>1. e.id \in Ids /\ e.kind \in {"add", "update", "delete", "reacts"}
    BY DEF Event
  <1>2. CASE e.kind = "add"
    <2> DEFINE new == AddMessage(list, e)
    <2>1. Apply(list, e) = new
      BY <1>2 DEF Apply
    <2>2. new \in Seq(Entry) /\ (Distinct(list) => Distinct(new))
      BY <1>1, AddOf
    <2>3. ASSUME NEW m \in Ids PROVE Becomes(Of(list, m), e, m, Of(new, m))
      <3>1. e.id # m => Of(new, m) = Of(list, m)
        BY <1>1, AddOf
      <3>2. /\ Of(list, e.id) # {} => Of(new, e.id) = Of(list, e.id)
            /\ Of(list, e.id) = {} =>
                  \A x \in Of(new, e.id) : x.content = e.content /\ x.reacts = e.reacts
            /\ Of(new, e.id) # {}
        BY <1>1, AddOf
      <3> HIDE DEF new
      <3>3. CASE e.id # m
        BY <3>1, <3>3 DEF Becomes
      <3>4. CASE e.id = m
        BY <1>2, <3>2, <3>4 DEF Becomes
      <3> QED
        BY <3>3, <3>4
    <2> HIDE DEF new
    <2> QED
      BY <2>1, <2>2, <2>3
  <1>3. CASE e.kind = "update"
    <2> DEFINE new == ApplyUpdate(list, e)
    <2>1. Apply(list, e) = new
      BY <1>3 DEF Apply
    <2>2. new \in Seq(Entry) /\ (Distinct(list) => Distinct(new))
      BY <1>1, UpdateOf
    <2>3. ASSUME NEW m \in Ids PROVE Becomes(Of(list, m), e, m, Of(new, m))
      <3>1. e.id # m => Of(new, m) = Of(list, m)
        BY <1>1, UpdateOf
      <3>2. /\ Of(new, e.id) = {} <=> Of(list, e.id) = {}
            /\ \A x \in Of(new, e.id) :
                  x.content = e.content /\ \E y \in Of(list, e.id) : x.reacts = y.reacts
        BY <1>1, UpdateOf
      <3> HIDE DEF new
      <3>3. CASE e.id # m
        BY <3>1, <3>3 DEF Becomes
      <3>4. CASE e.id = m
        BY <1>3, <3>2, <3>4 DEF Becomes
      <3> QED
        BY <3>3, <3>4
    <2> HIDE DEF new
    <2> QED
      BY <2>1, <2>2, <2>3
  <1>4. CASE e.kind = "reacts"
    <2> DEFINE new == ApplyReactions(list, e)
    <2>1. Apply(list, e) = new
      BY <1>4 DEF Apply
    <2>2. new \in Seq(Entry) /\ (Distinct(list) => Distinct(new))
      BY <1>1, ReactionsOf
    <2>3. ASSUME NEW m \in Ids PROVE Becomes(Of(list, m), e, m, Of(new, m))
      <3>1. e.id # m => Of(new, m) = Of(list, m)
        BY <1>1, ReactionsOf
      <3>2. /\ Of(new, e.id) = {} <=> Of(list, e.id) = {}
            /\ \A x \in Of(new, e.id) :
                  x.reacts = e.reacts /\ \E y \in Of(list, e.id) : x.content = y.content
        BY <1>1, ReactionsOf
      <3> HIDE DEF new
      <3>3. CASE e.id # m
        BY <3>1, <3>3 DEF Becomes
      <3>4. CASE e.id = m
        BY <1>4, <3>2, <3>4 DEF Becomes
      <3> QED
        BY <3>3, <3>4
    <2> HIDE DEF new
    <2> QED
      BY <2>1, <2>2, <2>3
  <1>5. CASE e.kind = "delete"
    <2> DEFINE new == RemoveMessage(list, e.id)
    <2>1. Apply(list, e) = new
      BY <1>5 DEF Apply
    <2>2. new \in Seq(Entry) /\ (Distinct(list) => Distinct(new))
      BY <1>1, RemoveOf
    <2>3. ASSUME NEW m \in Ids PROVE Becomes(Of(list, m), e, m, Of(new, m))
      <3>1. e.id # m => Of(new, m) = Of(list, m)
        BY <1>1, RemoveOf
      <3>2. Of(new, e.id) = {}
        BY <1>1, RemoveOf
      <3> HIDE DEF new
      <3>3. CASE e.id # m
        BY <3>1, <3>3 DEF Becomes
      <3>4. CASE e.id = m
        BY <1>5, <3>2, <3>4 DEF Becomes
      <3> QED
        BY <3>3, <3>4
    <2> HIDE DEF new
    <2> QED
      BY <2>1, <2>2, <2>3
  <1> QED
    BY <1>1, <1>2, <1>3, <1>4, <1>5

\* Taking the first event of a queue.
LEMMA TailOf ==
    ASSUME NEW q \in Seq(Event), q # <<>>, NEW m
    PROVE  /\ Tail(q) \in Seq(Event) /\ Head(q) = q[1] /\ q[1] \in Event
           /\ 1 \in On(q, m) <=> q[1].id = m
           /\ \A i \in On(Tail(q), m) : i \in Nat /\ i >= 1 /\ i + 1 \in On(q, m) /\ Tail(q)[i] = q[i + 1]
           /\ \A i \in On(q, m) : i # 1 => i - 1 \in On(Tail(q), m) /\ Tail(q)[i - 1] = q[i] /\ i > 1
           /\ \A i \in On(q, m) : i \in Nat
  <1>1. /\ Len(q) \in Nat /\ Len(q) >= 1 /\ DOMAIN q = 1..Len(q)
        /\ Tail(q) \in Seq(Event) /\ DOMAIN Tail(q) = 1..Len(q) - 1
        /\ \A i \in 1..Len(q) - 1 : Tail(q)[i] = q[i + 1]
    OBVIOUS
  <1>2. Head(q) = q[1] /\ q[1] \in Event
    OBVIOUS
  <1> QED
    BY <1>1, <1>2 DEF On

\* Receiving changes nothing of what a copy is bound to show.
LEMMA Received ==
    ASSUME NEW q \in Seq(Event), q # <<>>, NEW m, NEW S, NEW T,
           Becomes(S, q[1], m, T), Ordered(q, S, m)
    PROVE  /\ Ordered(Tail(q), T, m)
           /\ WillShow(Tail(q), T, m) <=> WillShow(q, S, m)
           /\ \A c : EndsWith(q, S, m, c) => EndsWith(Tail(q), T, m, c)
           /\ \A R : EndsReacted(q, S, m, R) => EndsReacted(Tail(q), T, m, R)
           /\ On(q, m) = {} => On(Tail(q), m) = {}
  <1> DEFINE p == Tail(q)
  <1>1. /\ 1 \in On(q, m) <=> q[1].id = m
        /\ \A i \in On(p, m) : i \in Nat /\ i >= 1 /\ i + 1 \in On(q, m) /\ p[i] = q[i + 1]
        /\ \A i \in On(q, m) : i # 1 => i - 1 \in On(p, m) /\ p[i - 1] = q[i] /\ i > 1
        /\ \A i \in On(q, m) : i \in Nat
    BY TailOf
  <1>2. q[1].kind \in {"add", "update", "delete", "reacts"}
    BY TailOf DEF Event
  <1> HIDE DEF p
  <1>3. Ordered(p, T, m)
    <2>1. ASSUME NEW i \in On(p, m), p[i].kind = "add" PROVE T = {} /\ \A k \in On(p, m) : i <= k
      <3>1. i + 1 \in On(q, m) /\ q[i + 1].kind = "add" /\ i \in Nat /\ i >= 1
        BY <1>1, <2>1
      <3>2. S = {} /\ \A k \in On(q, m) : i + 1 <= k
        BY <3>1 DEF Ordered
      <3>3. 1 \notin On(q, m)
        <4>1. ~(i + 1 <= 1)
          BY <3>1
        <4> QED
          BY <3>2, <4>1
      <3>4. T = {}
        BY <1>1, <3>2, <3>3 DEF Becomes
      <3>5. ASSUME NEW k \in On(p, m) PROVE i <= k
        BY <1>1, <3>1, <3>2
      <3> QED
        BY <3>4, <3>5
    <2>2. ASSUME NEW i \in On(p, m), p[i].kind = "delete", NEW k \in On(p, m) PROVE k <= i
      <3>1. i + 1 \in On(q, m) /\ q[i + 1].kind = "delete" /\ i \in Nat
        BY <1>1, <2>2
      <3>2. k + 1 \in On(q, m) /\ k \in Nat
        BY <1>1
      <3>3. k + 1 <= i + 1
        BY <3>1, <3>2 DEF Ordered
      <3> QED
        BY <3>1, <3>2, <3>3
    <2>3. ASSUME On(p, m) # {} PROVE T # {} \/ \E i \in On(p, m) : p[i].kind = "add"
      <3>0. PICK k \in On(p, m) : TRUE
        BY <2>3
      <3>1. k + 1 \in On(q, m) /\ k \in Nat /\ ~(k + 1 <= 1)
        BY <1>1
      <3>2. CASE \E i \in On(q, m) : i # 1 /\ q[i].kind = "add"
        BY <1>1, <3>2
      <3>3. CASE 1 \in On(q, m) /\ q[1].kind = "add"
        BY <1>1, <3>3 DEF Becomes
      <3>4. CASE S # {} /\ 1 \notin On(q, m)
        BY <1>1, <3>4 DEF Becomes
      <3>5. CASE S # {} /\ 1 \in On(q, m)
        <4>1. q[1].kind # "delete"
          BY <3>1, <3>5 DEF Ordered
        <4> QED
          BY <1>1, <1>2, <3>5, <4>1 DEF Becomes
      <3>6. S # {} \/ \E i \in On(q, m) : q[i].kind = "add"
        BY <3>1 DEF Ordered
      <3> QED
        BY <3>2, <3>3, <3>4, <3>5, <3>6
    <2> QED
      BY <2>1, <2>2, <2>3 DEF Ordered
  <1>4. (\A i \in On(p, m) : p[i].kind # "delete") /\ ~(1 \in On(q, m) /\ q[1].kind = "delete")
          <=> \A i \in On(q, m) : q[i].kind # "delete"
    BY <1>1
  <1>5. (\E i \in On(p, m) : p[i].kind = "add") \/ (1 \in On(q, m) /\ q[1].kind = "add")
          <=> \E i \in On(q, m) : q[i].kind = "add"
    BY <1>1
  <1>6. WillShow(p, T, m) <=> WillShow(q, S, m)
    <2>1. CASE 1 \notin On(q, m)
      BY <1>1, <1>4, <1>5, <2>1 DEF Becomes, WillShow
    <2>2. CASE 1 \in On(q, m) /\ q[1].kind = "add"
      BY <1>1, <1>4, <1>5, <2>2 DEF Becomes, WillShow
    <2>3. CASE 1 \in On(q, m) /\ q[1].kind = "delete"
      <3>1. \A i \in On(q, m) : i = 1
        <4>1. ASSUME NEW i \in On(q, m) PROVE i = 1
          <5>1. i <= 1
            BY <2>3 DEF Ordered
          <5> QED
            BY <1>1, <5>1
        <4> QED
          BY <4>1
      <3>2. T = {} /\ On(p, m) = {}
        <4>1. \A i \in On(p, m) : i + 1 = 1 /\ i \in Nat /\ i + 1 \in On(q, m)
          BY <1>1, <3>1
        <4>2. \A i \in On(p, m) : i = 0
          BY <4>1
        <4>3. On(p, m) = {}
          BY <4>2 DEF On
        <4> QED
          BY <1>1, <2>3, <4>3 DEF Becomes
      <3> QED
        BY <1>4, <2>3, <3>2 DEF WillShow
    <2>4. CASE 1 \in On(q, m) /\ q[1].kind \in {"update", "reacts"}
      BY <1>1, <1>4, <1>5, <2>4 DEF Becomes, WillShow
    <2> QED
      BY <1>2, <2>1, <2>2, <2>3, <2>4
  <1>8. ASSUME NEW c, EndsWith(q, S, m, c) PROVE EndsWith(p, T, m, c)
    <2>1. ASSUME \A i \in On(p, m) : p[i].kind \notin {"add", "update"}, NEW x \in T
          PROVE  x.content = c
      <3>1. \A i \in On(q, m) : i # 1 => q[i].kind \notin {"add", "update"}
        BY <1>1, <2>1
      <3>2. CASE 1 \in On(q, m) /\ q[1].kind \in {"add", "update"}
        <4>1. q[1].content = c
          <5>1. \A k \in On(q, m) : q[k].kind \in {"add", "update"} => k <= 1
            BY <1>1, <3>1
          <5> QED
            BY <1>8, <3>2, <5>1 DEF EndsWith
        <4>2. q[1].kind = "add" => S = {}
          BY <3>2 DEF Ordered
        <4> QED
          BY <1>1, <3>2, <4>1, <4>2 DEF Becomes
      <3>3. CASE ~(1 \in On(q, m) /\ q[1].kind \in {"add", "update"})
        <4>1. \A y \in S : y.content = c
          BY <1>8, <3>1, <3>3 DEF EndsWith
        <4> QED
          BY <1>1, <1>2, <3>3, <4>1 DEF Becomes
      <3> QED
        BY <3>2, <3>3
    <2>2. ASSUME NEW i \in On(p, m), p[i].kind \in {"add", "update"},
                 \A k \in On(p, m) : p[k].kind \in {"add", "update"} => k <= i
          PROVE  p[i].content = c
      <3>1. i + 1 \in On(q, m) /\ q[i + 1] = p[i] /\ i \in Nat
        BY <1>1
      <3>2. ASSUME NEW k \in On(q, m), q[k].kind \in {"add", "update"} PROVE k <= i + 1
        <4>1. CASE k = 1
          BY <3>1, <4>1
        <4>2. CASE k # 1
          <5>1. k - 1 \in On(p, m) /\ p[k - 1] = q[k] /\ k \in Nat
            BY <1>1, <4>2
          <5>2. k - 1 <= i
            BY <2>2, <3>2, <5>1
          <5> QED
            BY <3>1, <5>1, <5>2
        <4> QED
          BY <4>1, <4>2
      <3> QED
        BY <1>8, <2>2, <3>1, <3>2 DEF EndsWith
    <2> QED
      BY <2>1, <2>2 DEF EndsWith
  <1>9. ASSUME NEW R, EndsReacted(q, S, m, R) PROVE EndsReacted(p, T, m, R)
    <2>1. ASSUME \A i \in On(p, m) : p[i].kind \notin {"add", "reacts"}, NEW x \in T
          PROVE  x.reacts = R
      <3>1. \A i \in On(q, m) : i # 1 => q[i].kind \notin {"add", "reacts"}
        BY <1>1, <2>1
      <3>2. CASE 1 \in On(q, m) /\ q[1].kind \in {"add", "reacts"}
        <4>1. q[1].reacts = R
          <5>1. \A k \in On(q, m) : q[k].kind \in {"add", "reacts"} => k <= 1
            BY <1>1, <3>1
          <5> QED
            BY <1>9, <3>2, <5>1 DEF EndsReacted
        <4>2. q[1].kind = "add" => S = {}
          BY <3>2 DEF Ordered
        <4> QED
          BY <1>1, <3>2, <4>1, <4>2 DEF Becomes
      <3>3. CASE ~(1 \in On(q, m) /\ q[1].kind \in {"add", "reacts"})
        <4>1. \A y \in S : y.reacts = R
          BY <1>9, <3>1, <3>3 DEF EndsReacted
        <4> QED
          BY <1>1, <1>2, <3>3, <4>1 DEF Becomes
      <3> QED
        BY <3>2, <3>3
    <2>2. ASSUME NEW i \in On(p, m), p[i].kind \in {"add", "reacts"},
                 \A k \in On(p, m) : p[k].kind \in {"add", "reacts"} => k <= i
          PROVE  p[i].reacts = R
      <3>1. i + 1 \in On(q, m) /\ q[i + 1] = p[i] /\ i \in Nat
        BY <1>1
      <3>2. ASSUME NEW k \in On(q, m), q[k].kind \in {"add", "reacts"} PROVE k <= i + 1
        <4>1. CASE k = 1
          BY <3>1, <4>1
        <4>2. CASE k # 1
          <5>1. k - 1 \in On(p, m) /\ p[k - 1] = q[k] /\ k \in Nat
            BY <1>1, <4>2
          <5>2. k - 1 <= i
            BY <2>2, <3>2, <5>1
          <5> QED
            BY <3>1, <5>1, <5>2
        <4> QED
          BY <4>1, <4>2
      <3> QED
        BY <1>9, <2>2, <3>1, <3>2 DEF EndsReacted
    <2> QED
      BY <2>1, <2>2 DEF EndsReacted
  <1>7. On(q, m) = {} => On(p, m) = {}
    BY <1>1
  <1> QED
    BY <1>3, <1>6, <1>7, <1>8, <1>9 DEF p

\* A queue that says nothing of m leaves it as it is.
LEMMA Silent ==
    ASSUME NEW q, NEW S, NEW m, On(q, m) = {}
    PROVE  /\ Ordered(q, S, m)
           /\ WillShow(q, S, m) <=> S # {}
           /\ \A c : EndsWith(q, S, m, c) <=> \A x \in S : x.content = c
           /\ \A R : EndsReacted(q, S, m, R) <=> \A x \in S : x.reacts = R
  BY DEF Ordered, WillShow, EndsWith, EndsReacted

\* A queue with an event put at its end (a name of its own keeps the provers from taking
\* the sequence apart where only these facts about it are needed).
Put(q, e) == Append(q, e)

\* An event put last comes after all others, and is the only change.
LEMMA AppendOf ==
    ASSUME NEW q \in Seq(Event), NEW e \in Event
    PROVE  LET p == Put(q, e) IN
           /\ p \in Seq(Event)
           /\ \E n \in Nat : /\ p[n] = e /\ On(p, e.id) = On(q, e.id) \cup {n}
                            /\ \A i \in On(q, e.id) : i \in Nat /\ i < n
           /\ \A m : e.id # m => On(p, m) = On(q, m)
           /\ \A m : \A i \in On(q, m) : p[i] = q[i]
  <1> DEFINE p == Put(q, e)
             n == Len(q) + 1
  <1>1. /\ Len(q) \in Nat /\ DOMAIN q = 1..Len(q) /\ DOMAIN p = 1..n
        /\ p \in Seq(Event) /\ p[n] = e
        /\ \A i \in 1..Len(q) : p[i] = q[i]
    BY DEF Put
  <1> HIDE DEF p
  <1>2. On(p, e.id) = On(q, e.id) \cup {n}
    BY <1>1 DEF On
  <1>3. n \in Nat /\ \A i \in On(q, e.id) : i \in Nat /\ i < n
    BY <1>1 DEF On
  <1>4. \A m : e.id # m => On(p, m) = On(q, m)
    BY <1>1 DEF On
  <1>5. \A m : \A i \in On(q, m) : p[i] = q[i]
    BY <1>1 DEF On
  <1> HIDE DEF n
  <1> QED
    BY <1>1, <1>2, <1>3, <1>4, <1>5 DEF p

\* Two queues that say the same of m.
Alike(q, p, m) == On(p, m) = On(q, m) /\ \A i \in On(q, m) : p[i] = q[i]

\* What is due of m depends on the events about m only.
LEMMA AlikeKeeps ==
    ASSUME NEW q, NEW p, NEW m, NEW S, Alike(q, p, m)
    PROVE  /\ On(p, m) = On(q, m)
           /\ Ordered(q, S, m) => Ordered(p, S, m)
           /\ WillShow(p, S, m) <=> WillShow(q, S, m)
           /\ \A c : EndsWith(q, S, m, c) => EndsWith(p, S, m, c)
           /\ \A R : EndsReacted(q, S, m, R) => EndsReacted(p, S, m, R)
  <1>1. On(p, m) = On(q, m) /\ \A i \in On(q, m) : p[i] = q[i]
    BY DEF Alike
  <1>2. Ordered(q, S, m) => Ordered(p, S, m)
    BY <1>1 DEF Ordered
  <1>3. WillShow(p, S, m) <=> WillShow(q, S, m)
    BY <1>1 DEF WillShow
  <1>4. \A c : EndsWith(q, S, m, c) => EndsWith(p, S, m, c)
    BY <1>1 DEF EndsWith
  <1>5. \A R : EndsReacted(q, S, m, R) => EndsReacted(p, S, m, R)
    BY <1>1 DEF EndsReacted
  <1> QED
    BY <1>1, <1>2, <1>3, <1>4, <1>5

\* An event about another message.
LEMMA AnnouncedOther ==
    ASSUME NEW q \in Seq(Event), NEW e \in Event, NEW m, e.id # m
    PROVE  Alike(q, Put(q, e), m)
  BY AppendOf DEF Alike

\* receive_message of a message nothing is known of yet.
LEMMA AnnouncedNew ==
    ASSUME NEW q \in Seq(Event), NEW e \in Event, e.kind = "add", On(q, e.id) = {}
    PROVE  LET p == Put(q, e) IN
           /\ Ordered(p, {}, e.id)
           /\ WillShow(p, {}, e.id)
           /\ EndsWith(p, {}, e.id, e.content)
           /\ EndsReacted(p, {}, e.id, e.reacts)
  <1> DEFINE p == Put(q, e)
  <1>0. PICK n \in Nat : On(p, e.id) = On(q, e.id) \cup {n} /\ p[n] = e
    BY AppendOf
  <1>1. On(p, e.id) = {n} /\ p[n] = e /\ n \in Nat
    BY <1>0
  <1> HIDE DEF p
  <1>2. Ordered(p, {}, e.id)
    <2>1. \A i, k \in On(p, e.id) : i <= k
      BY <1>1
    <2> QED
      BY <1>1, <2>1 DEF Ordered
  <1>3. WillShow(p, {}, e.id)
    BY <1>1 DEF WillShow
  <1>4. EndsWith(p, {}, e.id, e.content)
    BY <1>1 DEF EndsWith
  <1>5. EndsReacted(p, {}, e.id, e.reacts)
    BY <1>1 DEF EndsReacted
  <1> QED
    BY <1>2, <1>3, <1>4, <1>5 DEF p

\* Any other event about a message that will be there when it is received.
LEMMA AnnouncedChange ==
    ASSUME NEW q \in Seq(Event), NEW e \in Event, NEW S,
           e.kind # "add", Ordered(q, S, e.id), WillShow(q, S, e.id)
    PROVE  LET p == Put(q, e) IN
           /\ Ordered(p, S, e.id)
           /\ WillShow(p, S, e.id) <=> e.kind # "delete"
           /\ e.kind = "update" => EndsWith(p, S, e.id, e.content)
           /\ e.kind = "reacts" => EndsReacted(p, S, e.id, e.reacts)
           /\ e.kind # "update" => \A c : EndsWith(q, S, e.id, c) => EndsWith(p, S, e.id, c)
           /\ e.kind # "reacts" => \A R : EndsReacted(q, S, e.id, R) => EndsReacted(p, S, e.id, R)
  <1> DEFINE p == Put(q, e)
             m == e.id
  <1>a. PICK n \in Nat : /\ On(p, e.id) = On(q, e.id) \cup {n} /\ p[n] = e
                         /\ \A i \in On(q, e.id) : i \in Nat /\ i < n
    BY AppendOf
  <1>b. \A i \in On(q, e.id) : p[i] = q[i]
    BY AppendOf
  <1>1. /\ On(p, m) = On(q, m) \cup {n} /\ p[n] = e /\ n \in Nat
        /\ \A i \in On(q, m) : p[i] = q[i] /\ i \in Nat /\ i < n
    BY <1>a, <1>b
  <1> HIDE DEF p, m
  <1>0. \A i \in On(p, m) : i \in Nat /\ i <= n
    BY <1>1
  <1>2. Ordered(q, S, m) /\ WillShow(q, S, m)
    BY DEF m
  <1>3. Ordered(p, S, m)
    <2>1. ASSUME NEW i \in On(p, m), p[i].kind = "add" PROVE S = {} /\ \A k \in On(p, m) : i <= k
      <3>1. i \in On(q, m) /\ q[i].kind = "add"
        BY <1>1, <2>1
      <3> QED
        BY <1>0, <1>1, <1>2, <3>1 DEF Ordered
    <2>2. ASSUME NEW i \in On(p, m), p[i].kind = "delete" PROVE \A k \in On(p, m) : k <= i
      <3>1. i = n
        BY <1>1, <1>2, <2>2 DEF WillShow
      <3> QED
        BY <1>0, <3>1
    <2>3. S # {} \/ \E i \in On(p, m) : p[i].kind = "add"
      BY <1>1, <1>2 DEF WillShow
    <2> QED
      BY <2>1, <2>2, <2>3 DEF Ordered
  <1>4. WillShow(p, S, m) <=> e.kind # "delete"
    BY <1>1, <1>2 DEF WillShow
  <1>5. ASSUME e.kind = "update" PROVE EndsWith(p, S, m, e.content)
    <2>1. n \in On(p, m) /\ p[n].kind = "update"
      BY <1>1, <1>5
    <2>2. ASSUME NEW i \in On(p, m),
                 \A k \in On(p, m) : p[k].kind \in {"add", "update"} => k <= i
          PROVE  i = n
      <3>1. n <= i /\ i <= n /\ i \in Nat
        BY <1>0, <2>1, <2>2
      <3> QED
        BY <1>1, <3>1
    <2> QED
      BY <1>1, <2>1, <2>2 DEF EndsWith
  <1>6. ASSUME e.kind = "reacts" PROVE EndsReacted(p, S, m, e.reacts)
    <2>1. n \in On(p, m) /\ p[n].kind = "reacts"
      BY <1>1, <1>6
    <2>2. ASSUME NEW i \in On(p, m),
                 \A k \in On(p, m) : p[k].kind \in {"add", "reacts"} => k <= i
          PROVE  i = n
      <3>1. n <= i /\ i <= n /\ i \in Nat
        BY <1>0, <2>1, <2>2
      <3> QED
        BY <1>1, <3>1
    <2> QED
      BY <1>1, <2>1, <2>2 DEF EndsReacted
  <1>7. ASSUME e.kind # "update", NEW c, EndsWith(q, S, m, c) PROVE EndsWith(p, S, m, c)
    <2>1. p[n].kind \notin {"add", "update"}
      BY <1>1, <1>7
    <2> QED
      BY <1>1, <1>7, <2>1 DEF EndsWith
  <1>8. ASSUME e.kind # "reacts", NEW R, EndsReacted(q, S, m, R) PROVE EndsReacted(p, S, m, R)
    <2>1. p[n].kind \notin {"add", "reacts"}
      BY <1>1, <1>8
    <2> QED
      BY <1>1, <1>8, <2>1 DEF EndsReacted
  <1> QED
    BY <1>3, <1>4, <1>5, <1>6, <1>7, <1>8 DEF p, m

-----------------------------------------------------------------------------
(* What the steps of a handler do to its slot.                             *)

\* The record of an empty slot.
LEMMA IdleIsJob == Idle \in Job
  BY ChatAssumption DEF Idle, Job, Content

\* A handler that goes on to its next stage keeps what it has in its hands.
LEMMA At ==
    ASSUME NEW x \in Job, NEW a \in {"insert", "fetch", "notify", "check", "write", "read",
                                    "cleanup", "deliver"}
    PROVE  LET y == [x EXCEPT !.at = a] IN
           /\ y \in Job /\ y.op = x.op /\ y.at = a /\ y.by = x.by /\ y.id = x.id
           /\ y.content = x.content /\ y.reacts = x.reacts
  BY DEF Job

\* ... and learns the id of the row it stored,
LEMMA AtId ==
    ASSUME NEW x \in Job, NEW m \in 0..MaxMsg
    PROVE  LET y == [x EXCEPT !.at = "fetch", !.id = m] IN
           /\ y \in Job /\ y.op = x.op /\ y.at = "fetch" /\ y.by = x.by /\ y.id = m
           /\ y.content = x.content /\ y.reacts = x.reacts
  BY DEF Job

\* ... or whom it has still to notify,
LEMMA ToDo ==
    ASSUME NEW x \in Job, NEW T \in SUBSET Users
    PROVE  LET y == [x EXCEPT !.todo = T] IN
           /\ y \in Job /\ y.op = x.op /\ y.at = x.at /\ y.by = x.by /\ y.id = x.id
           /\ y.content = x.content /\ y.reacts = x.reacts
  BY DEF Job

\* ... or the content it read,
LEMMA AtContent ==
    ASSUME NEW x \in Job, NEW c \in Content
    PROVE  LET y == [x EXCEPT !.at = "deliver", !.content = c] IN
           /\ y \in Job /\ y.op = x.op /\ y.at = "deliver" /\ y.by = x.by /\ y.id = x.id
           /\ y.content = c /\ y.reacts = x.reacts
  BY DEF Job

\* ... or the reactions it read.
LEMMA AtReacts ==
    ASSUME NEW x \in Job, NEW R \in SUBSET Users
    PROVE  LET y == [x EXCEPT !.at = "deliver", !.reacts = R] IN
           /\ y \in Job /\ y.op = x.op /\ y.at = "deliver" /\ y.by = x.by /\ y.id = x.id
           /\ y.content = x.content /\ y.reacts = R
  BY DEF Job

\* A step puts its record into its slot.
LEMMA Stepped ==
    ASSUME job \in [Slots -> Job], NEW j \in Slots, NEW r \in Job, Step(j, r)
    PROVE  /\ job' \in [Slots -> Job] /\ job'[j] = r
           /\ \A k \in Slots : k # j => job'[k] = job[k]
  BY DEF Step

IdleFacts == Idle.op = "idle" /\ Idle.at = "check" /\ Idle.id = 0 /\ Idle.reacts = {} /\ Idle.content = 0

\* What an empty slot says.
LEMMA IdleHas == IdleFacts
  BY DEF IdleFacts, Idle

\* A step of the handler in slot j leaves the others where they are.
Only(j) == job' \in [Slots -> Job] /\ \A k \in Slots : k # j => job'[k] = job[k]

\* From x to y, a handler that reads, counts notifications or cleans up moves on or
\* gives up.
Advances(x, y, row) ==
    \/ /\ y = Idle
       /\ \/ x.op \in {"edit", "delete", "react", "pin"} /\ x.at \in {"check", "write"}
          \/ x.op \in {"send", "forward"} /\ x.at = "fetch" /\ row.state # "live"
          \/ x.op = "edit" /\ x.at = "read" /\ row.state # "live"
    \/ /\ y.op = x.op /\ y.by = x.by /\ y.id = x.id
       /\ \/ /\ x.op \in {"send", "forward"} /\ x.at \in {"fetch", "notify"}
             /\ y.at = "notify" /\ y.reacts = x.reacts
             /\ x.at = "fetch" => row.state = "live" /\ y.content = row.content
             /\ x.at = "notify" => y.content = x.content
          \/ /\ x.op \in {"edit", "delete", "react", "pin"} /\ x.at = "check"
             /\ y.at = "write" /\ row.state = "live"
          \/ /\ x.op = "edit" /\ x.at = "read"
             /\ y.at = "deliver" /\ row.state = "live" /\ y.content = row.content
          \/ x.op = "delete" /\ x.at = "cleanup" /\ y.at = "deliver"

Reading(j) == \/ Fetch(j) \/ Notify(j) \/ NotifyFails(j) \/ CheckSender(j) \/ CheckMember(j)
              \/ ReadEdited(j) \/ Cleanup(j) \/ CleanupFails(j) \/ GiveUp(j)

\* Steps that read, check, notify or clean up: they touch no message and nobody's copy.
LEMMA ReadingDoes ==
    ASSUME TypeOK, Born, JobShape, NEW j \in Slots, Reading(j)
    PROVE  /\ Only(j)
           /\ job[j].id \in 1..lastId
           /\ Advances(job[j], job'[j], rows[job[j].id])
           /\ job[j].op # "idle" /\ job[j].at # "insert"
           /\ UNCHANGED <<rows, lastId, inbox, replies, cache, load, online, reqs, drops, stale, loads>>
           /\ notes' \subseteq Note /\ overlapped \subseteq overlapped' /\ overlapped' \subseteq Ids
  <1> DEFINE x == job[j]
             row == rows[x.id]
  <1>0. x \in Job /\ x.by \in Users
    BY DEF TypeOK, Job
  <1>1. x.op # "idle" /\ x.at # "insert"
    BY DEF Reading, Fetch, Notify, NotifyFails, CheckSender, CheckMember, ReadEdited, Cleanup, CleanupFails,
           GiveUp
  <1>2. x.id \in 1..lastId
    BY <1>1 DEF Born
  <1>3. x.id \in Ids /\ row \in Row /\ row.content \in Content
    <2>1. x.id \in Ids
      BY <1>2, ChatAssumption DEF TypeOK, Ids
    <2>2. row \in Row
      BY <2>1 DEF TypeOK
    <2> QED
      BY <2>1, <2>2 DEF Row
  <1>4. job \in [Slots -> Job] /\ notes \subseteq Note /\ overlapped \subseteq Ids
    BY DEF TypeOK
  <1>5. \A y \in Job : Step(j, y) => Only(j) /\ job'[j] = y
    BY <1>4, Stepped DEF Only
  <1> HIDE DEF x, row
  <1>f. CASE Fetch(j)
    <2> DEFINE T == (Users \ Muted) \ {x.by}
               c == row.content
               y == [x EXCEPT !.at = "notify", !.content = c, !.todo = T]
    <2>0. T \in SUBSET Users /\ c \in Content
      BY <1>3
    <2> HIDE DEF T, c
    <2>1. /\ y \in Job /\ y.op = x.op /\ y.at = "notify" /\ y.by = x.by /\ y.id = x.id
          /\ y.content = c /\ y.reacts = x.reacts
      BY <1>0, <2>0 DEF Job
    <2>2. Step(j, IF row.state = "live" THEN y ELSE Idle)
      BY <1>f DEF Fetch, x, row, T, c
    <2>3. x.op \in {"send", "forward"} /\ x.at = "fetch"
      BY <1>f DEF Fetch, x
    <2> HIDE DEF y
    <2>4. Only(j) /\ Advances(x, job'[j], row)
      BY <1>5, <2>1, <2>2, <2>3, IdleIsJob DEF Advances, c
    <2> QED
      BY <1>1, <1>2, <1>4, <1>f, <2>4 DEF Fetch, x, row
  <1>n. CASE Notify(j)
    <2>1. PICK to \in x.todo : /\ notes' = notes \cup {[to |-> to, id |-> x.id]}
                              /\ Step(j, [x EXCEPT !.todo = @ \ {to}])
      BY <1>n DEF Notify, x
    <2> DEFINE y == [x EXCEPT !.todo = x.todo \ {to}]
    <2>2. x.todo \in SUBSET Users /\ to \in Users
      BY <1>0, <2>1 DEF Job
    <2>3. /\ y \in Job /\ y.op = x.op /\ y.at = x.at /\ y.by = x.by /\ y.id = x.id
          /\ y.content = x.content /\ y.reacts = x.reacts
      BY <1>0, <2>2, ToDo
    <2>4. Step(j, y)
      BY <2>1
    <2>5. x.op \in {"send", "forward"} /\ x.at = "notify"
      BY <1>n DEF Notify, x
    <2>6. notes' \subseteq Note
      BY <1>3, <1>4, <2>1, <2>2 DEF Note
    <2> HIDE DEF y
    <2>7. Only(j) /\ Advances(x, job'[j], row)
      BY <1>5, <2>3, <2>4, <2>5 DEF Advances
    <2> QED
      BY <1>1, <1>2, <1>4, <1>n, <2>6, <2>7 DEF Notify, x, row
  <1>o. CASE NotifyFails(j)
    <2> DEFINE y == [x EXCEPT !.todo = {}]
    <2>3. /\ y \in Job /\ y.op = x.op /\ y.at = x.at /\ y.by = x.by /\ y.id = x.id
          /\ y.content = x.content /\ y.reacts = x.reacts
      BY <1>0, ToDo
    <2>4. Step(j, y)
      BY <1>o DEF NotifyFails, x
    <2>5. x.op \in {"send", "forward"} /\ x.at = "notify"
      BY <1>o DEF NotifyFails, x
    <2> HIDE DEF y
    <2>7. Only(j) /\ Advances(x, job'[j], row)
      BY <1>5, <2>3, <2>4, <2>5 DEF Advances
    <2> QED
      BY <1>1, <1>2, <1>4, <1>o, <2>7 DEF NotifyFails, x, row
  <1>s. ASSUME CheckSender(j) \/ CheckMember(j)
        PROVE  Only(j) /\ Advances(x, job'[j], row)
    <2> DEFINE y == [x EXCEPT !.at = "write"]
    <2>1. y \in Job /\ y.op = x.op /\ y.at = "write" /\ y.by = x.by /\ y.id = x.id
      BY <1>0, At
    <2>2. Step(j, Idle) \/ (Step(j, y) /\ row.state = "live")
      BY <1>s DEF CheckSender, CheckMember, x, row
    <2>3. x.op \in {"edit", "delete", "react", "pin"} /\ x.at = "check"
      BY <1>s DEF CheckSender, CheckMember, x
    <2> HIDE DEF y
    <2> QED
      BY <1>5, <2>1, <2>2, <2>3, IdleIsJob DEF Advances
  <1>t. CASE CheckSender(j)
    BY <1>1, <1>2, <1>4, <1>s, <1>t DEF CheckSender, x, row
  <1>u. CASE CheckMember(j)
    BY <1>1, <1>2, <1>4, <1>s, <1>u DEF CheckMember, x, row
  <1>r. CASE ReadEdited(j)
    <2> DEFINE y == [x EXCEPT !.at = "deliver", !.content = row.content]
    <2>1. /\ y \in Job /\ y.op = x.op /\ y.at = "deliver" /\ y.by = x.by /\ y.id = x.id
          /\ y.content = row.content
      BY <1>0, <1>3, AtContent
    <2>2. Step(j, IF row.state = "live" THEN y ELSE Idle)
      BY <1>r DEF ReadEdited, x, row
    <2>3. x.op = "edit" /\ x.at = "read"
      BY <1>r DEF ReadEdited, x
    <2> HIDE DEF y
    <2>4. Only(j) /\ Advances(x, job'[j], row)
      BY <1>5, <2>1, <2>2, <2>3, IdleIsJob DEF Advances
    <2> QED
      BY <1>1, <1>2, <1>4, <1>r, <2>4 DEF ReadEdited, x, row
  <1>c. ASSUME Cleanup(j) \/ CleanupFails(j)
        PROVE  Only(j) /\ Advances(x, job'[j], row)
    <2> DEFINE y == [x EXCEPT !.at = "deliver"]
    <2>1. y \in Job /\ y.op = x.op /\ y.at = "deliver" /\ y.by = x.by /\ y.id = x.id
      BY <1>0, At
    <2>2. Step(j, y)
      BY <1>c DEF Cleanup, CleanupFails, x
    <2>3. x.op = "delete" /\ x.at = "cleanup"
      BY <1>c DEF Cleanup, CleanupFails, x
    <2> HIDE DEF y
    <2> QED
      BY <1>5, <2>1, <2>2, <2>3 DEF Advances
  <1>d. CASE Cleanup(j)
    BY <1>1, <1>2, <1>4, <1>c, <1>d DEF Cleanup, x, row
  <1>e. CASE CleanupFails(j)
    BY <1>1, <1>2, <1>3, <1>4, <1>c, <1>e DEF CleanupFails, x, row
  <1>g. CASE GiveUp(j)
    <2>1. Shape(x)
      BY DEF JobShape, x
    <2>2. x.op # "idle" /\ x.at \in {"check", "write"} /\ Step(j, Idle)
      BY <1>g DEF GiveUp, x
    <2>3. x.op \in {"edit", "delete", "react", "pin"}
      BY <1>0, <2>1, <2>2 DEF Shape, Job
    <2>4. Only(j) /\ Advances(x, job'[j], row)
      BY <1>5, <2>2, <2>3, IdleIsJob DEF Advances
    <2> QED
      BY <1>1, <1>2, <1>4, <1>g, <2>4 DEF GiveUp, x, row
  <1> QED
    BY <1>f, <1>n, <1>o, <1>t, <1>u, <1>r, <1>d, <1>e, <1>g DEF Reading

\* A load that is waited for remembers what changed in the meantime.
LEMMA TouchDoes ==
    ASSUME TypeOK, NEW m \in Ids, Touch(m)
    PROVE  /\ load' \in [Users -> Load]
           /\ \A u \in Users :
                 /\ load'[u].at = load[u].at /\ load'[u].rows = load[u].rows
                 /\ load[u].touched \subseteq load'[u].touched
                 /\ load[u].at # "none" => m \in load'[u].touched
  <1>1. load \in [Users -> Load]
    BY DEF TypeOK
  <1>2. ASSUME NEW u \in Users
        PROVE  LET y == [load[u] EXCEPT !.touched = @ \cup {m}] IN
               /\ y \in Load /\ y.at = load[u].at /\ y.rows = load[u].rows
               /\ y.touched = load[u].touched \cup {m}
    <2> DEFINE x == load[u]
               T == x.touched \cup {m}
    <2>1. x \in Load /\ T \in SUBSET Ids
      BY <1>1 DEF Load
    <2> HIDE DEF T
    <2>2. LET y == [x EXCEPT !.touched = T] IN
          y \in Load /\ y.at = x.at /\ y.rows = x.rows /\ y.touched = T
      BY <2>1 DEF Load
    <2> QED
      BY <2>2 DEF T
  <1>3. load' = [u \in Users |-> IF load[u].at = "none" THEN load[u]
                                 ELSE [load[u] EXCEPT !.touched = @ \cup {m}]]
    BY DEF Touch
  <1>4. ASSUME NEW u \in Users
        PROVE  /\ load'[u] \in Load
               /\ load'[u].at = load[u].at /\ load'[u].rows = load[u].rows
               /\ load[u].touched \subseteq load'[u].touched
               /\ load[u].at # "none" => m \in load'[u].touched
    <2> DEFINE y == [load[u] EXCEPT !.touched = @ \cup {m}]
    <2>1. y \in Load /\ y.at = load[u].at /\ y.rows = load[u].rows
          /\ y.touched = load[u].touched \cup {m}
      BY <1>2
    <2>2. load'[u] = IF load[u].at = "none" THEN load[u] ELSE y
      BY <1>3
    <2> HIDE DEF y
    <2> QED
      BY <1>1, <2>1, <2>2
  <1> QED
    BY <1>3, <1>4

\* Which rows are still to be stored.
Waits == {j \in Slots : job[j].op # "idle" /\ job[j].at = "insert"}

\* Handlers can be counted.
LEMMA WaitsFinite ==
    ASSUME NEW W \in SUBSET Slots
    PROVE  IsFiniteSet(W) /\ Cardinality(W) \in Nat
  BY ChatAssumption, FS_Subset, FS_CardinalityType

\* The new row gets the next id, and its handler knows it.
LEMMA InsertDoes ==
    ASSUME TypeOK, Born, Room, NEW j \in Slots, Insert(j)
    PROVE  /\ Only(j)
           /\ lastId' = lastId + 1 /\ lastId' \in Ids /\ lastId \in Nat
           /\ job[j].op \in {"send", "forward"} /\ job[j].at = "insert"
           /\ job'[j].op = job[j].op /\ job'[j].at = "fetch" /\ job'[j].id = lastId'
           /\ job'[j].reacts = job[j].reacts
           /\ rows' \in [Ids -> Row]
           /\ rows'[lastId'].state = "live" /\ rows'[lastId'].reacts = {}
           /\ \A m \in Ids : m # lastId' => rows'[m] = rows[m]
           /\ Touch(lastId')
           /\ UNCHANGED <<notes, inbox, replies, cache, online, reqs, drops, stale, overlapped, loads>>
           /\ Room'
  <1> DEFINE x == job[j]
             m == lastId + 1
             W == Waits
  <1>0. x \in Job /\ x.by \in Users /\ job \in [Slots -> Job] /\ lastId \in Nat
        /\ rows \in [Ids -> Row] /\ MaxMsg \in Nat
    BY ChatAssumption DEF TypeOK, Job
  <1>1. x.op \in {"send", "forward"} /\ x.at = "insert"
    BY DEF Insert
  <1>2. W \in SUBSET Slots /\ j \in W
    BY <1>1 DEF Waits
  <1>3. IsFiniteSet(W) /\ Cardinality(W) \in Nat /\ Cardinality(W) # 0
    BY <1>2, WaitsFinite, FS_EmptySet
  <1>4. lastId + Cardinality(W) <= MaxMsg
    BY DEF Room, Unborn, Waits
  <1>5. m \in Ids /\ m \in 0..MaxMsg
    <2> HIDE DEF W
    <2> QED
      BY <1>0, <1>3, <1>4 DEF Ids
  <1> DEFINE y == [x EXCEPT !.at = "fetch", !.id = m]
  <1>6. y \in Job /\ y.op = x.op /\ y.at = "fetch" /\ y.by = x.by /\ y.id = m /\ y.reacts = x.reacts
    <2> HIDE DEF m
    <2> QED
      BY <1>0, <1>5, AtId
  <1>7. Step(j, y)
    BY DEF Insert
  <1> HIDE DEF y
  <1>8. Only(j) /\ job'[j] = y
    BY <1>0, <1>6, <1>7, Stepped DEF Only
  <1> DEFINE new == [state |-> "live", by |-> x.by, content |-> 0, reacts |-> {}, pinned |-> FALSE]
  <1>9. rows' = [rows EXCEPT ![m] = new]
    BY DEF Insert
  <1>10. new \in Row /\ new.state = "live" /\ new.reacts = {}
    BY <1>0, ChatAssumption DEF Row, Content
  <1> HIDE DEF new
  <1>11. rows' \in [Ids -> Row] /\ rows'[m] = new /\ \A k \in Ids : k # m => rows'[k] = rows[k]
    BY <1>0, <1>5, <1>9, <1>10
  <1>12. Waits' = W \ {j}
    BY <1>2, <1>6, <1>8 DEF Waits, Only
  <1>13. Room'
    <2>1. Cardinality(Waits') = Cardinality(W) - 1
      BY <1>2, <1>3, <1>12, FS_RemoveElement
    <2>2. Room' <=> lastId' + Cardinality(Waits') <= MaxMsg
      BY DEF Room, Unborn, Waits
    <2>3. lastId' = lastId + 1
      BY DEF Insert
    <2> HIDE DEF W
    <2> QED
      BY <1>0, <1>3, <1>4, <2>1, <2>2, <2>3
  <1>14. lastId' = m /\ Touch(m)
         /\ UNCHANGED <<notes, inbox, replies, cache, online, reqs, drops, stale, overlapped, loads>>
    BY DEF Insert
  <1> QED
    BY <1>0, <1>1, <1>5, <1>6, <1>8, <1>10, <1>11, <1>13, <1>14

\* Room is kept by whatever stores nothing and starts no new message.
LEMMA RoomKept ==
    ASSUME Room, lastId' = lastId,
           \A j \in Slots : (job'[j].op # "idle" /\ job'[j].at = "insert")
                              <=> (job[j].op # "idle" /\ job[j].at = "insert")
    PROVE  Room'
  <1>1. Waits' = Waits
    BY DEF Waits
  <1> QED
    BY <1>1 DEF Room, Unborn, Waits

\* The statements, each on the row that the handler's request names.
LEMMA WriteDoes ==
    ASSUME TypeOK, Born, NEW j \in Slots, Write(j)
    PROVE  LET x == job[j]
               m == x.id
           IN
           /\ Only(j)
           /\ m \in 1..lastId /\ m \in Ids
           /\ x.op \in {"edit", "delete", "react", "pin"} /\ x.at = "write"
           /\ job'[j].op = x.op /\ job'[j].by = x.by /\ job'[j].id = m
           /\ job'[j].at = IF x.op = "delete" THEN "cleanup" ELSE "read"
           /\ rows' \in [Ids -> Row]
           /\ \A k \in Ids : k # m => rows'[k] = rows[k]
           /\ rows'[m].state = IF x.op = "delete" THEN "deleted" ELSE rows[m].state
           /\ x.op # "edit" => rows'[m].content = rows[m].content
           /\ x.op # "react" => rows'[m].reacts = rows[m].reacts
           /\ UNCHANGED <<lastId, notes, inbox, replies, cache, load, online, reqs, drops,
                          stale, overlapped, loads>>
  <1> DEFINE x == job[j]
             m == x.id
             row == rows[m]
  <1>0. x \in Job /\ job \in [Slots -> Job] /\ rows \in [Ids -> Row]
    BY DEF TypeOK
  <1>1. x.op \in {"edit", "delete", "react", "pin"} /\ x.at = "write"
    BY DEF Write
  <1>2. m \in 1..lastId
    BY <1>1 DEF Born
  <1>3. m \in Ids /\ row \in Row
    BY <1>0, <1>2, ChatAssumption DEF TypeOK, Ids
  <1> DEFINE a == IF x.op = "delete" THEN "cleanup" ELSE "read"
             y == [x EXCEPT !.at = a]
  <1>a. a \in {"insert", "fetch", "notify", "check", "write", "read", "cleanup", "deliver"}
    OBVIOUS
  <1>4. y \in Job /\ y.op = x.op /\ y.by = x.by /\ y.id = m /\ y.at = a
    <2> HIDE DEF a
    <2> QED
      BY <1>0, <1>a DEF Job
  <1>5. Step(j, y)
    BY DEF Write
  <1> HIDE DEF y
  <1>6. Only(j) /\ job'[j] = y
    BY <1>0, <1>4, <1>5, Stepped DEF Only
  <1> DEFINE new == CASE x.op = "edit" -> Edited(x, row)
                      [] x.op = "delete" -> Deleted(row)
                      [] x.op = "react" -> Reacted(x, row)
                      [] x.op = "pin" -> Pinned(x, row)
  <1>7. rows' = [rows EXCEPT ![m] = new]
    BY DEF Write
  <1>8. x.content \in Content /\ x.by \in Users /\ x.on \in BOOLEAN
    BY <1>0 DEF Job, Content
  <1>e. LET z == Edited(x, row) IN
        z \in Row /\ z.state = row.state /\ z.reacts = row.reacts
    BY <1>3, <1>8 DEF Row, Edited
  <1>d. LET z == Deleted(row) IN
        z \in Row /\ z.state = "deleted" /\ z.content = row.content /\ z.reacts = row.reacts
    BY <1>3 DEF Row, Deleted
  <1>p. LET z == Pinned(x, row) IN
        z \in Row /\ z.state = row.state /\ z.content = row.content /\ z.reacts = row.reacts
    BY <1>3, <1>8 DEF Row, Pinned
  <1>r. LET z == Reacted(x, row) IN
        z \in Row /\ z.state = row.state /\ z.content = row.content
    <2> DEFINE R == IF x.on THEN row.reacts \cup {x.by} ELSE row.reacts \ {x.by}
    <2>1. R \in SUBSET Users
      BY <1>3, <1>8 DEF Row
    <2>2. Reacted(x, row) = [row EXCEPT !.reacts = R]
      BY DEF Reacted
    <2> HIDE DEF R
    <2>3. LET z == [row EXCEPT !.reacts = R] IN
          z \in Row /\ z.state = row.state /\ z.content = row.content
      BY <1>3, <2>1 DEF Row
    <2> QED
      BY <2>2, <2>3
  <1>9. /\ new \in Row
        /\ new.state = IF x.op = "delete" THEN "deleted" ELSE row.state
        /\ x.op # "edit" => new.content = row.content
        /\ x.op # "react" => new.reacts = row.reacts
    <2>1. CASE x.op = "edit"
      <3>1. new = Edited(x, row)
        BY <2>1
      <3> HIDE DEF new
      <3> QED
        BY <2>1, <3>1, <1>e
    <2>2. CASE x.op = "delete"
      <3>1. new = Deleted(row)
        BY <2>2
      <3> HIDE DEF new
      <3> QED
        BY <2>2, <3>1, <1>d
    <2>3. CASE x.op = "react"
      <3>1. new = Reacted(x, row)
        BY <2>3
      <3> HIDE DEF new
      <3> QED
        BY <2>3, <3>1, <1>r
    <2>4. CASE x.op = "pin"
      <3>1. new = Pinned(x, row)
        BY <2>4
      <3> HIDE DEF new
      <3> QED
        BY <2>4, <3>1, <1>p
    <2> QED
      BY <1>1, <2>1, <2>2, <2>3, <2>4
  <1> HIDE DEF new
  <1>10. rows' \in [Ids -> Row] /\ rows'[m] = new /\ \A k \in Ids : k # m => rows'[k] = rows[k]
    BY <1>0, <1>3, <1>7, <1>9
  <1>11. UNCHANGED <<lastId, notes, inbox, replies, cache, load, online, reqs, drops,
                     stale, overlapped, loads>>
    BY DEF Write
  <1> QED
    BY <1>1, <1>2, <1>3, <1>4, <1>6, <1>9, <1>10, <1>11

\* The answer of a reaction or of a pin.
LEMMA ReadReactionsDoes ==
    ASSUME TypeOK, Born, NEW j \in Slots, ReadReactions(j)
    PROVE  LET x == job[j]
               m == x.id
               r == [kind |-> "react", to |-> x.by, id |-> m, reacts |-> rows[m].reacts,
                     pinned |-> FALSE]
           IN
           /\ Only(j)
           /\ m \in 1..lastId /\ m \in Ids
           /\ x.op = "react" /\ x.at = "read"
           /\ job'[j].op = "react" /\ job'[j].at = "deliver" /\ job'[j].by = x.by /\ job'[j].id = m
           /\ job'[j].reacts = rows[m].reacts
           /\ r \in Reply /\ replies' = replies \cup {r}
           /\ UNCHANGED <<rows, lastId, notes, inbox, cache, load, online, reqs, drops,
                          stale, overlapped, loads>>
  <1> DEFINE x == job[j]
             m == x.id
             R == rows[m].reacts
  <1>0. x \in Job /\ job \in [Slots -> Job] /\ rows \in [Ids -> Row] /\ x.by \in Users
    BY DEF TypeOK, Job
  <1>1. x.op = "react" /\ x.at = "read"
    BY DEF ReadReactions
  <1>2. m \in 1..lastId
    BY <1>1 DEF Born
  <1>3. m \in Ids /\ R \in SUBSET Users
    <2>1. m \in Ids
      BY <1>2, ChatAssumption DEF TypeOK, Ids
    <2>2. rows[m] \in Row
      BY <2>1 DEF TypeOK
    <2> QED
      BY <2>1, <2>2 DEF Row
  <1> DEFINE y == [x EXCEPT !.at = "deliver", !.reacts = R]
  <1>4. /\ y \in Job /\ y.op = x.op /\ y.at = "deliver" /\ y.by = x.by /\ y.id = m /\ y.reacts = R
    <2> HIDE DEF R
    <2> QED
      BY <1>0, <1>3, AtReacts
  <1>5. Step(j, y)
    BY DEF ReadReactions
  <1> HIDE DEF y
  <1>6. Only(j) /\ job'[j] = y
    BY <1>0, <1>4, <1>5, Stepped DEF Only
  <1> DEFINE r == [kind |-> "react", to |-> x.by, id |-> m, reacts |-> R, pinned |-> FALSE]
  <1>7. r \in Reply
    BY <1>0, <1>3 DEF Reply
  <1>8. /\ replies' = replies \cup {r}
        /\ UNCHANGED <<rows, lastId, notes, inbox, cache, load, online, reqs, drops,
                       stale, overlapped, loads>>
    BY DEF ReadReactions
  <1> HIDE DEF r
  <1> QED
    BY <1>1, <1>2, <1>3, <1>4, <1>6, <1>7, <1>8 DEF r

\* A pin's handler answers the caller, if the row is live, and is done.
LEMMA ReadPinnedDoes ==
    ASSUME TypeOK, Born, NEW j \in Slots, ReadPinned(j)
    PROVE  LET x == job[j]
               m == x.id
           IN
           /\ Only(j)
           /\ m \in 1..lastId /\ m \in Ids
           /\ x.op = "pin" /\ x.at = "read" /\ job'[j] = Idle
           /\ \/ replies' = replies
              \/ \E r \in Reply : r.kind = "pin" /\ r.id = m /\ replies' = replies \cup {r}
           /\ UNCHANGED <<rows, lastId, notes, inbox, cache, load, online, reqs, drops,
                          stale, overlapped, loads>>
  <1> DEFINE x == job[j]
             m == x.id
  <1>0. x \in Job /\ job \in [Slots -> Job] /\ rows \in [Ids -> Row] /\ x.by \in Users
    BY DEF TypeOK, Job
  <1>1. x.op = "pin" /\ x.at = "read" /\ Step(j, Idle)
    BY DEF ReadPinned
  <1>2. m \in 1..lastId
    BY <1>1 DEF Born
  <1>3. m \in Ids /\ rows[m].pinned \in BOOLEAN
    <2>1. m \in Ids
      BY <1>2, ChatAssumption DEF TypeOK, Ids
    <2>2. rows[m] \in Row
      BY <1>0, <2>1
    <2> QED
      BY <2>1, <2>2 DEF Row
  <1>4. Only(j) /\ job'[j] = Idle
    BY <1>0, <1>1, IdleIsJob, Stepped DEF Only
  <1> DEFINE r == [kind |-> "pin", to |-> x.by, id |-> m, reacts |-> {}, pinned |-> rows[m].pinned]
  <1>5. r \in Reply /\ r.kind = "pin" /\ r.id = m
    BY <1>0, <1>3 DEF Reply
  <1>6. replies' = replies \/ replies' = replies \cup {r}
    BY DEF ReadPinned
  <1> HIDE DEF r
  <1>7. UNCHANGED <<rows, lastId, notes, inbox, cache, load, online, reqs, drops,
                    stale, overlapped, loads>>
    BY DEF ReadPinned
  <1> QED
    BY <1>1, <1>2, <1>3, <1>4, <1>5, <1>6, <1>7

\* A broadcast: the handler is done, and every member it reaches whose socket is open
\* finds the event at the end of the queue; the rest is as it was, but that who was not
\* told cannot be expected to know.
Tells(j, kind, audience) ==
    LET x == job[j]
        e == [kind |-> kind, id |-> x.id, content |-> x.content, reacts |-> x.reacts]
    IN
    /\ e \in Event
    /\ inbox' \in [Users -> Seq(Event)]
    /\ stale' \in [Users -> SUBSET Ids]
    /\ \A u \in Users :
          /\ u \in audience /\ online[u] => inbox'[u] = Put(inbox[u], e) /\ stale'[u] = stale[u]
          /\ ~(u \in audience /\ online[u]) =>
                /\ inbox'[u] = inbox[u]
                /\ stale'[u] = IF x.op = "react" /\ u = x.by THEN stale[u]
                               ELSE stale[u] \cup {x.id}

Announces(x, kind, audience) ==
    \/ x.op = "send" /\ x.at = "notify" /\ kind = "add"
    \/ x.op = "forward" /\ x.at = "notify" /\ kind = "add"
    \/ x.op = "edit" /\ x.at = "deliver" /\ kind = "update"
    \/ x.op = "delete" /\ x.at = "deliver" /\ kind = "delete"
    \/ x.op = "react" /\ x.at = "deliver" /\ kind = "reacts" /\ x.by \notin audience

Telling(j) == \/ DeliverMessage(j) \/ DeliverForward(j) \/ DeliverEdit(j) \/ DeliverDelete(j)
              \/ DeliverReactions(j)

\* Each broadcast is one event, put last in the queues of those who are online and told.
LEMMA TellingDoes ==
    ASSUME TypeOK, Born, NEW j \in Slots, Telling(j)
    PROVE  /\ Only(j) /\ job'[j] = Idle
           /\ job[j].id \in 1..lastId /\ job[j].id \in Ids
           /\ \E kind \in {"add", "update", "delete", "reacts"}, audience \in SUBSET Users :
                 Announces(job[j], kind, audience) /\ Tells(j, kind, audience)
           /\ UNCHANGED <<rows, lastId, notes, replies, cache, load, online, reqs, drops,
                          overlapped, loads>>
  <1> DEFINE x == job[j]
  <1>0. /\ x \in Job /\ job \in [Slots -> Job] /\ x.by \in Users
        /\ inbox \in [Users -> Seq(Event)] /\ stale \in [Users -> SUBSET Ids]
    BY DEF TypeOK, Job
  <1>1. x.op # "idle" /\ x.at # "insert"
    BY DEF Telling, DeliverMessage, DeliverForward, DeliverEdit, DeliverDelete, DeliverReactions
  <1>2. x.id \in 1..lastId /\ x.id \in Ids
    BY <1>1, ChatAssumption DEF Born, TypeOK, Ids
  <1> DEFINE Writes(audience, kind) ==
               /\ inbox' = [u \in Users |-> IF u \in {v \in audience : online[v]}
                               THEN Append(inbox[u], [kind |-> kind, id |-> x.id,
                                           content |-> x.content, reacts |-> x.reacts])
                               ELSE inbox[u]]
               /\ stale' = [u \in Users |->
                      IF u \in {v \in audience : online[v]}
                               \cup (IF x.op = "react" THEN {x.by} ELSE {})
                      THEN stale[u] ELSE stale[u] \cup {x.id}]
  <1>t. ASSUME NEW A \in SUBSET Users, NEW C \in SUBSET Users, NEW kind, Tell(j, A, C, kind)
        PROVE  /\ \E audience \in SUBSET (A \cup C) : Writes(audience, kind)
               /\ Step(j, Idle)
               /\ UNCHANGED <<rows, lastId, notes, replies, cache, load, online, reqs, drops,
                              overlapped, loads>>
    <2>1. PICK members \in {A, {}} : Writes(members \cup C, kind)
      BY <1>t DEF Tell
    <2>2. members \cup C \in SUBSET (A \cup C)
      BY <2>1
    <2> HIDE DEF Writes
    <2> QED
      BY <1>t, <2>1, <2>2 DEF Tell
  <1>3. /\ \E kind \in {"add", "update", "delete", "reacts"}, audience \in SUBSET Users :
               Announces(x, kind, audience) /\ Writes(audience, kind)
        /\ Step(j, Idle)
        /\ UNCHANGED <<rows, lastId, notes, replies, cache, load, online, reqs, drops,
                       overlapped, loads>>
    <2> DEFINE C == {u \in {x.by} : drops[u] = x.conn}
    <2>0. C \in SUBSET Users /\ Users \ {x.by} \in SUBSET Users
      BY <1>0
    <2>1. CASE DeliverMessage(j)
      <3>1. Tell(j, Users \ {x.by}, C, "add") /\ x.op = "send" /\ x.at = "notify"
        BY <2>1 DEF DeliverMessage
      <3> HIDE DEF C, Writes, x
      <3> QED
        BY <1>t, <2>0, <3>1 DEF Announces
    <2>2. CASE DeliverForward(j)
      <3>1. Tell(j, Users \ {x.by}, {}, "add") /\ x.op = "forward" /\ x.at = "notify"
        BY <2>2 DEF DeliverForward
      <3> HIDE DEF C, Writes, x
      <3> QED
        BY <1>t, <2>0, <3>1 DEF Announces
    <2>3. CASE DeliverEdit(j)
      <3>1. Tell(j, Users, {}, "update") /\ x.op = "edit" /\ x.at = "deliver"
        BY <2>3 DEF DeliverEdit
      <3> HIDE DEF C, Writes, x
      <3> QED
        BY <1>t, <2>0, <3>1 DEF Announces
    <2>4. CASE DeliverDelete(j)
      <3>1. Tell(j, Users, {}, "delete") /\ x.op = "delete" /\ x.at = "deliver"
        BY <2>4 DEF DeliverDelete
      <3> HIDE DEF C, Writes, x
      <3> QED
        BY <1>t, <2>0, <3>1 DEF Announces
    <2>5. CASE DeliverReactions(j)
      <3>1. Tell(j, Users \ {x.by}, {}, "reacts") /\ x.op = "react" /\ x.at = "deliver"
        BY <2>5 DEF DeliverReactions
      <3> DEFINE A == Users \ {x.by}
      <3>2. x.by \notin A /\ A \in SUBSET Users /\ A \cup {} = A
        BY <2>0
      <3> HIDE DEF A, C, Writes, x
      <3>3. /\ \E audience \in SUBSET (A \cup {}) : Writes(audience, "reacts")
            /\ Step(j, Idle)
            /\ UNCHANGED <<rows, lastId, notes, replies, cache, load, online, reqs, drops,
                           overlapped, loads>>
        BY <1>t, <3>1, <3>2 DEF A
      <3>4. PICK audience \in SUBSET A : Writes(audience, "reacts")
        BY <3>2, <3>3
      <3>5. Announces(x, "reacts", audience) /\ audience \in SUBSET Users
        BY <3>1, <3>2, <3>4 DEF Announces
      <3> QED
        BY <3>3, <3>4, <3>5
    <2> QED
      BY <2>1, <2>2, <2>3, <2>4, <2>5 DEF Telling
  <1>p. PICK kind \in {"add", "update", "delete", "reacts"}, audience \in SUBSET Users :
            Announces(x, kind, audience) /\ Writes(audience, kind)
    BY <1>3
  <1> DEFINE e == [kind |-> kind, id |-> x.id, content |-> x.content, reacts |-> x.reacts]
  <1>4. e \in Event
    BY <1>0, <1>2 DEF Event, Job, Content
  <1>5. Step(j, Idle)
    BY <1>3
  <1>6. Only(j) /\ job'[j] = Idle
    BY <1>0, <1>5, IdleIsJob, Stepped DEF Only
  <1>7. /\ inbox' = [u \in Users |-> IF u \in {v \in audience : online[v]} THEN Append(inbox[u], e)
                                     ELSE inbox[u]]
        /\ stale' = [u \in Users |->
               IF u \in {v \in audience : online[v]} \cup (IF x.op = "react" THEN {x.by} ELSE {})
               THEN stale[u] ELSE stale[u] \cup {x.id}]
        /\ UNCHANGED <<rows, lastId, notes, replies, cache, load, online, reqs, drops,
                       overlapped, loads>>
    BY <1>3, <1>p DEF Writes
  <1> HIDE DEF e, Writes
  <1>8. ASSUME NEW u \in Users
        PROVE  /\ u \in audience /\ online[u] => inbox'[u] = Put(inbox[u], e) /\ stale'[u] = stale[u]
               /\ ~(u \in audience /\ online[u]) =>
                     /\ inbox'[u] = inbox[u]
                     /\ stale'[u] = IF x.op = "react" /\ u = x.by THEN stale[u]
                                    ELSE stale[u] \cup {x.id}
    BY <1>7 DEF Put
  <1>9. inbox' \in [Users -> Seq(Event)]
    <2>1. \A u \in Users : Append(inbox[u], e) \in Seq(Event)
      BY <1>0, <1>4
    <2> QED
      BY <1>0, <1>7, <2>1
  <1>10. stale' \in [Users -> SUBSET Ids]
    BY <1>0, <1>2, <1>7
  <1>11. Tells(j, kind, audience)
    BY <1>4, <1>8, <1>9, <1>10 DEF Tells, e
  <1> QED
    BY <1>2, <1>6, <1>7, <1>11, <1>p

\* A query that fails late ends the handler, and nobody can be expected to know.
LEMMA LosingDoes ==
    ASSUME TypeOK, Born, NEW j \in Slots, GiveUpLate(j)
    PROVE  /\ Only(j) /\ job'[j] = Idle
           /\ job[j].id \in 1..lastId /\ job[j].id \in Ids
           /\ job[j].op # "idle" /\ job[j].at \in {"fetch", "read"}
           /\ stale' \in [Users -> SUBSET Ids]
           /\ \A u \in Users : stale'[u] = stale[u] \cup {job[j].id}
           /\ UNCHANGED <<rows, lastId, notes, inbox, replies, cache, load, online, reqs, drops,
                          overlapped, loads>>
  <1>1. /\ job \in [Slots -> Job] /\ stale \in [Users -> SUBSET Ids]
        /\ job[j].op # "idle" /\ job[j].at \in {"fetch", "read"}
    BY DEF TypeOK, GiveUpLate
  <1>2. job[j].id \in 1..lastId /\ job[j].id \in Ids
    BY <1>1, ChatAssumption DEF Born, TypeOK, Ids
  <1>3. Only(j) /\ job'[j] = Idle
    BY <1>1, IdleIsJob, Stepped DEF GiveUpLate, Only
  <1>4. stale' = [u \in Users |-> stale[u] \cup {job[j].id}]
    BY DEF GiveUpLate
  <1>5. UNCHANGED <<rows, lastId, notes, inbox, replies, cache, load, online, reqs, drops,
                    overlapped, loads>>
    BY DEF GiveUpLate
  <1> QED
    BY <1>1, <1>2, <1>3, <1>4, <1>5

\* A request for a new message takes a free slot, and leaves room for the row.
LEMMA RequestNewDoes ==
    ASSUME TypeOK, Room, NEW j \in Slots, NEW u \in Users, NEW op \in {"send", "forward"},
           RequestNew(j, u, op)
    PROVE  /\ Only(j) /\ job[j] = Idle
           /\ job'[j].op = op /\ job'[j].at = "insert" /\ job'[j].id = 0 /\ job'[j].reacts = {}
           /\ reqs' \in 0..MaxReq
           /\ Room'
           /\ UNCHANGED <<rows, lastId, notes, inbox, replies, cache, load, online,
                          drops, stale, overlapped, loads>>
  <1> DEFINE c == drops[u]
             y == [Idle EXCEPT !.op = op, !.at = "insert", !.by = u, !.conn = c]
             W == Waits
  <1>0. job \in [Slots -> Job] /\ lastId \in Nat /\ MaxMsg \in Nat
    BY ChatAssumption DEF TypeOK
  <1>1. y \in Job /\ y.op = op /\ y.at = "insert" /\ y.id = 0 /\ y.reacts = {}
    <2>0. c \in 0..MaxDrops
      BY DEF TypeOK
    <2> HIDE DEF c
    <2>1. \A x \in Job : LET z == [x EXCEPT !.op = op, !.at = "insert", !.by = u, !.conn = c] IN
             z \in Job /\ z.op = op /\ z.at = "insert" /\ z.id = x.id /\ z.reacts = x.reacts
      BY <2>0 DEF Job
    <2> QED
      BY <2>1, IdleIsJob, IdleHas DEF IdleFacts
  <1>2. /\ job[j] = Idle /\ job' = [job EXCEPT ![j] = y]
        /\ UNCHANGED <<rows, lastId, notes, inbox, replies, cache, load, online,
                       drops, stale, overlapped, loads>>
    BY DEF RequestNew, Request
  <1> HIDE DEF y
  <1>3. Only(j) /\ job'[j] = y
    BY <1>0, <1>1, <1>2 DEF Only
  <1>4. reqs' \in 0..MaxReq
    BY ChatAssumption DEF RequestNew, Request, TypeOK
  <1>5. Waits' = W \cup {j} /\ j \notin W
    BY <1>1, <1>2, <1>3, IdleHas DEF Waits, Only, IdleFacts
  <1>6. IsFiniteSet(W) /\ Cardinality(W) \in Nat
    BY WaitsFinite DEF Waits
  <1>7. Cardinality(Waits') = Cardinality(W) + 1
    <2> HIDE DEF W
    <2> QED
      BY <1>5, <1>6, FS_AddElement
  <1>8. lastId + Cardinality(W) < MaxMsg
    BY DEF RequestNew, Unborn, Waits
  <1>9. Room'
    <2>1. Room' <=> lastId + Cardinality(Waits') <= MaxMsg
      BY <1>2 DEF Room, Unborn, Waits
    <2> HIDE DEF W
    <2> QED
      BY <1>0, <1>6, <1>7, <1>8, <2>1
  <1> QED
    BY <1>1, <1>2, <1>3, <1>4, <1>9

\* A request about a row that is there: who asked sees it, so it has been stored.
Asking(j, u, m) ==
    \/ \E op \in {"edit", "delete"} : RequestChange(j, u, m, op)
    \/ RequestReact(j, u, m) \/ RequestPin(j, u, m)

\* A request about a row makes it stale for whom it may mislead.
LEMMA AskingDoes ==
    ASSUME TypeOK, Born, NEW j \in Slots, NEW u \in Users, NEW m \in Ids, Asking(j, u, m)
    PROVE  /\ Only(j) /\ job[j] = Idle
           /\ m \in 1..lastId
           /\ job'[j].op \in {"edit", "delete", "react", "pin"} /\ job'[j].at = "check"
           /\ job'[j].id = m /\ job'[j].by = u
           /\ reqs' \in 0..MaxReq
           /\ Touch(m)
           /\ stale' \in [Users -> SUBSET Ids]
           /\ \A w \in Users :
                 /\ stale[w] \subseteq stale'[w]
                 /\ Busy(m) => m \in stale'[w]
                 /\ w = u /\ job'[j].op = "react" /\ Queued(w, m) => m \in stale'[w]
           /\ overlapped \subseteq overlapped' /\ overlapped' \subseteq Ids
           /\ Busy(m) => m \in overlapped'
           /\ UNCHANGED <<rows, lastId, notes, inbox, replies, cache, online, drops, loads>>
  <1>0. /\ job \in [Slots -> Job] /\ reqs \in 0..MaxReq /\ MaxReq \in Nat /\ lastId \in Nat
        /\ stale \in [Users -> SUBSET Ids] /\ overlapped \subseteq Ids
    BY ChatAssumption DEF TypeOK
  <1>1. m \in 1..lastId
    <2>1. m \in IdsOf(cache[u])
      BY DEF Asking, RequestChange, RequestReact, RequestPin, Shown
    <2>2. PICK i \in DOMAIN cache[u] : cache[u][i].id = m
      BY <2>1 DEF IdsOf
    <2>3. m <= lastId
      BY <2>2 DEF Born
    <2> QED
      BY <1>0, <2>3, ChatAssumption DEF Ids
  <1>2. m \in 0..MaxMsg
    BY ChatAssumption DEF Ids
  <1>3. PICK r \in Job : /\ RequestOn(j, m, r)
                         /\ r.op \in {"edit", "delete", "react", "pin"} /\ r.at = "check"
                         /\ r.id = m /\ r.by = u
    <2>0. Idle \in Job /\ Idle.at = "check"
      BY IdleIsJob, IdleHas DEF IdleFacts
    <2>1. CASE \E op \in {"edit", "delete"} : RequestChange(j, u, m, op)
      <3>1. PICK op \in {"edit", "delete"} : RequestChange(j, u, m, op)
        BY <2>1
      <3> DEFINE c == IF op = "edit" THEN reqs + 1 ELSE 0
                 y == [Idle EXCEPT !.op = op, !.by = u, !.id = m, !.content = c]
      <3>2. RequestOn(j, m, y) /\ reqs < MaxReq
        BY <3>1 DEF RequestChange, RequestOn, Request
      <3>3. c \in Content
        BY <1>0, <3>2 DEF Content
      <3> HIDE DEF c
      <3>4. \A x \in Job : LET z == [x EXCEPT !.op = op, !.by = u, !.id = m, !.content = c] IN
               z \in Job /\ z.op = op /\ z.at = x.at /\ z.id = m /\ z.by = u
        BY <1>2, <3>3 DEF Job
      <3>5. y \in Job /\ y.op = op /\ y.at = "check" /\ y.id = m /\ y.by = u
        BY <2>0, <3>4
      <3> HIDE DEF y
      <3> QED
        BY <3>2, <3>5
    <2>2. ASSUME NEW op \in {"react", "pin"}, NEW b \in BOOLEAN,
                 RequestOn(j, m, [Idle EXCEPT !.op = op, !.by = u, !.id = m, !.on = b])
          PROVE  \E r \in Job : /\ RequestOn(j, m, r)
                                /\ r.op \in {"edit", "delete", "react", "pin"} /\ r.at = "check"
                                /\ r.id = m /\ r.by = u
      <3> DEFINE y == [Idle EXCEPT !.op = op, !.by = u, !.id = m, !.on = b]
      <3>1. \A x \in Job : LET z == [x EXCEPT !.op = op, !.by = u, !.id = m, !.on = b] IN
               z \in Job /\ z.op = op /\ z.at = x.at /\ z.id = m /\ z.by = u
        BY <1>2 DEF Job
      <3>2. y \in Job /\ y.op = op /\ y.at = "check" /\ y.id = m /\ y.by = u
        BY <2>0, <3>1
      <3>3. RequestOn(j, m, y)
        BY <2>2
      <3> HIDE DEF y
      <3> QED
        BY <3>2, <3>3
    <2>3. CASE RequestReact(j, u, m)
      <3> DEFINE b == u \notin EntryOf(u, m).reacts
      <3>1. b \in BOOLEAN
        OBVIOUS
      <3>2. RequestOn(j, m, [Idle EXCEPT !.op = "react", !.by = u, !.id = m, !.on = b])
        BY <2>3 DEF RequestReact
      <3> HIDE DEF b
      <3> QED
        BY <2>2, <3>1, <3>2
    <2>4. CASE RequestPin(j, u, m)
      <3> DEFINE b == ~EntryOf(u, m).pinned
      <3>1. b \in BOOLEAN
        OBVIOUS
      <3>2. RequestOn(j, m, [Idle EXCEPT !.op = "pin", !.by = u, !.id = m, !.on = b])
        BY <2>4 DEF RequestPin
      <3> HIDE DEF b
      <3> QED
        BY <2>2, <3>1, <3>2
    <2> QED
      BY <2>1, <2>3, <2>4 DEF Asking
  <1>4. job[j] = Idle /\ job' = [job EXCEPT ![j] = r]
    BY <1>3 DEF RequestOn, Request
  <1>5. Only(j) /\ job'[j] = r
    BY <1>0, <1>4 DEF Only
  <1>6. reqs' \in 0..MaxReq
    BY <1>0, <1>3 DEF RequestOn, Request
  <1>7. stale' = [w \in Users |->
           IF Busy(m) \/ (w = r.by /\ r.op = "react" /\ Queued(w, m))
           THEN stale[w] \cup {m} ELSE stale[w]]
    BY <1>3 DEF RequestOn
  <1>8. stale' \in [Users -> SUBSET Ids]
    BY <1>0, <1>7
  <1>9. ASSUME NEW w \in Users
        PROVE  /\ stale[w] \subseteq stale'[w]
               /\ Busy(m) => m \in stale'[w]
               /\ w = u /\ job'[j].op = "react" /\ Queued(w, m) => m \in stale'[w]
    BY <1>3, <1>5, <1>7
  <1>10. /\ overlapped \subseteq overlapped' /\ overlapped' \subseteq Ids
         /\ Busy(m) => m \in overlapped'
    BY <1>0, <1>3 DEF RequestOn
  <1>11. Touch(m) /\ UNCHANGED <<rows, lastId, notes, inbox, replies, cache, online, drops, loads>>
    BY <1>3 DEF RequestOn
  <1> QED
    BY <1>1, <1>3, <1>4, <1>5, <1>6, <1>8, <1>9, <1>10, <1>11

-----------------------------------------------------------------------------
(* What the browser's steps do.                                            *)

\* A list shows only stored rows when it holds nothing of the others.
LEMMA StoredOf ==
    ASSUME NEW list \in Seq(Entry), NEW n \in Nat
    PROVE  (\A i \in DOMAIN list : list[i].id <= n) <=> \A m \in Ids : Of(list, m) # {} => m <= n
  <1>1. \A i \in DOMAIN list : list[i] \in Entry
    OBVIOUS
  <1>2. \A i \in DOMAIN list : list[i].id \in Ids
    BY <1>1 DEF Entry
  <1> QED
    BY <1>2 DEF Of

\* findAll answers with each live row of the page once, as it is stored.
LEMMA LiveRowsDoes ==
    ASSUME TypeOK, Born
    PROVE  /\ LiveRows \in Seq(Entry) /\ Distinct(LiveRows)
           /\ \A i \in DOMAIN LiveRows : LiveRows[i].id <= lastId
           /\ \A m \in Ids : m \notin Live \ Newest => Brings(LiveRows, m)
  <1> DEFINE K == Newest
             live == InOrder(K)
             n == Cardinality(K)
             list == LiveRows
  <1>0. lastId \in Nat /\ MaxMsg \in Nat /\ lastId <= MaxMsg /\ rows \in [Ids -> Row]
    BY ChatAssumption DEF TypeOK
  <1>1. K \in SUBSET Nat /\ IsFiniteSet(K)
    <2>1. IsFiniteSet(1..lastId) /\ 1..lastId \in SUBSET Nat
      BY <1>0, FS_Interval
    <2>2. K \in SUBSET (1..lastId)
      BY DEF Newest, Live
    <2> HIDE DEF K
    <2>3. IsFiniteSet(K)
      BY <2>1, <2>2, FS_Subset
    <2> QED
      BY <2>1, <2>2, <2>3
  <1>2. /\ n \in Nat /\ live \in [1..n -> K]
        /\ \A i, k \in 1..n : live[i] = live[k] => i = k
        /\ \A x \in K : \E i \in 1..n : live[i] = x
    BY <1>1, InOrderLists
  <1>3. list = [i \in 1..n |->
            [id |-> live[i], content |-> rows[live[i]].content,
             reacts |-> rows[live[i]].reacts, pinned |-> rows[live[i]].pinned]]
    BY <1>2 DEF LiveRows
  <1>4. \A m \in K : m \in Ids /\ m <= lastId /\ rows[m] \in Row /\ rows[m].state = "live"
    BY <1>0 DEF Ids, Newest, Live
  <1> HIDE DEF live, n, list, K
  <1>5. ASSUME NEW i \in 1..n
        PROVE  /\ list[i] \in Entry /\ list[i].id = live[i] /\ live[i] \in K
               /\ list[i].content = rows[live[i]].content
               /\ list[i].reacts = rows[live[i]].reacts
    <2>1. live[i] \in K
      BY <1>2
    <2>2. list[i] = [id |-> live[i], content |-> rows[live[i]].content,
             reacts |-> rows[live[i]].reacts, pinned |-> rows[live[i]].pinned]
      BY <1>3
    <2>3. live[i] \in Ids /\ rows[live[i]] \in Row
      BY <1>4, <2>1
    <2> QED
      BY <2>1, <2>2, <2>3 DEF Entry, Row
  <1>6. DOMAIN list = 1..n /\ list \in Seq(Entry)
    BY <1>2, <1>3, <1>5
  <1>7. Distinct(list)
    BY <1>2, <1>5, <1>6 DEF Distinct
  <1>8. \A i \in DOMAIN list : list[i].id <= lastId
    BY <1>4, <1>5, <1>6
  <1>9. ASSUME NEW m \in Ids, m \notin Live \ Newest PROVE Brings(list, m)
    <2>1. \A x \in Of(list, m) : rows[m].state = "live" /\ x.content = rows[m].content /\ x.reacts = rows[m].reacts
      BY <1>4, <1>5, <1>6 DEF Of
    <2>2. ASSUME rows[m].state = "live" PROVE Of(list, m) # {}
      <3>1. m \in K
        BY <1>0, <1>9, <2>2 DEF Born, Ids, Live, K
      <3>2. PICK i \in 1..n : live[i] = m
        BY <1>2, <3>1
      <3> QED
        BY <1>5, <1>6, <3>2 DEF Of
    <2> QED
      BY <2>1, <2>2 DEF Brings
  <1> QED
    BY <1>6, <1>7, <1>8, <1>9 DEF list

\* The setters of the answers: the list of a reaction, the flag of a pin.
LEMMA ReplyArrivesDoes ==
    ASSUME TypeOK, NEW r \in replies, ReplyArrives(r)
    PROVE  /\ r \in Reply /\ r.to \in Users /\ r.id \in Ids
           /\ replies' = replies \ {r}
           /\ cache' \in [Users -> Seq(Entry)]
           /\ \A u \in Users : u # r.to => cache'[u] = cache[u]
           /\ Distinct(cache[r.to]) => Distinct(cache'[r.to])
           /\ \A m \in Ids : m # r.id => Of(cache'[r.to], m) = Of(cache[r.to], m)
           /\ Of(cache'[r.to], r.id) = {} <=> Of(cache[r.to], r.id) = {}
           /\ \A x \in Of(cache'[r.to], r.id) : \E y \in Of(cache[r.to], r.id) :
                 /\ x.content = y.content
                 /\ r.kind = "react" => x.reacts = r.reacts
                 /\ r.kind = "pin" => x.reacts = y.reacts
           /\ UNCHANGED <<rows, lastId, notes, job, inbox, load, online, reqs, drops,
                          stale, overlapped, loads>>
  <1> DEFINE u == r.to
             list == cache[u]
             new == OnEntry(list, r.id, LAMBDA x : IF r.kind = "react" THEN [x EXCEPT !.reacts = r.reacts]
                                                   ELSE [x EXCEPT !.pinned = r.pinned])
  <1>1. r \in Reply /\ cache \in [Users -> Seq(Entry)]
    BY DEF TypeOK
  <1>2. r.to \in Users /\ r.id \in Ids /\ r.kind \in {"react", "pin"} /\ r.reacts \in SUBSET Users
        /\ r.pinned \in BOOLEAN
    BY <1>1 DEF Reply
  <1>3. list \in Seq(Entry)
    BY <1>1, <1>2
  <1>4. \A i \in 1..Len(list) : list[i] \in Entry
    BY <1>3
  <1>5. /\ DOMAIN new = DOMAIN list
        /\ \A i \in 1..Len(list) :
              new[i] = IF list[i].id = r.id
                       THEN IF r.kind = "react" THEN [list[i] EXCEPT !.reacts = r.reacts]
                            ELSE [list[i] EXCEPT !.pinned = r.pinned]
                       ELSE list[i]
    BY <1>3 DEF OnEntry
  <1>6. new = [i \in 1..Len(list) |-> new[i]]
    BY <1>3 DEF OnEntry
  <1>7. cache' = [cache EXCEPT ![u] = new]
    BY DEF ReplyArrives
  <1> HIDE DEF new, list
  <1>8. ASSUME NEW i \in 1..Len(list)
        PROVE  /\ new[i] \in Entry /\ new[i].id = list[i].id
               /\ list[i].id # r.id => new[i] = list[i]
               /\ list[i].id = r.id =>
                     /\ new[i].content = list[i].content
                     /\ r.kind = "react" => new[i].reacts = r.reacts
                     /\ r.kind = "pin" => new[i].reacts = list[i].reacts
    <2>1. CASE list[i].id = r.id /\ r.kind = "react"
      <3> DEFINE y == [list[i] EXCEPT !.reacts = r.reacts]
      <3>1. y \in Entry /\ y.id = list[i].id /\ y.reacts = r.reacts /\ y.content = list[i].content
        BY <1>2, <1>4, NewReacts
      <3>2. new[i] = y
        BY <1>5, <2>1
      <3> HIDE DEF y
      <3> QED
        BY <2>1, <3>1, <3>2
    <2>2. CASE list[i].id = r.id /\ r.kind = "pin"
      <3> DEFINE y == [list[i] EXCEPT !.pinned = r.pinned]
      <3>1. y \in Entry /\ y.id = list[i].id /\ y.reacts = list[i].reacts /\ y.content = list[i].content
        BY <1>2, <1>4, NewPinned
      <3>2. new[i] = y
        BY <1>5, <2>2
      <3> HIDE DEF y
      <3> QED
        BY <2>2, <3>1, <3>2
    <2>3. CASE list[i].id # r.id
      BY <1>4, <1>5, <2>3
    <2> QED
      BY <1>2, <2>1, <2>2, <2>3
  <1>9. new \in Seq(Entry) /\ Len(new) = Len(list)
    <2>1. Len(list) \in Nat
      BY <1>3
    <2> QED
      BY <1>6, <1>8, <2>1
  <1>m. \A i \in 1..Len(list) : new[i].id = list[i].id /\ (list[i].id # r.id => new[i] = list[i])
    BY <1>8
  <1>10. /\ Distinct(list) => Distinct(new)
         /\ \A m \in Ids : m # r.id => Of(new, m) = Of(list, m)
         /\ Of(new, r.id) = {} <=> Of(list, r.id) = {}
         /\ \A x \in Of(new, r.id) : \E i \in 1..Len(list) :
               list[i] \in Of(list, r.id) /\ list[i].id = r.id /\ x = new[i]
    <2> DEFINE c == r.id
    <2>1. c \in Ids /\ \A i \in 1..Len(list) : new[i].id = list[i].id /\ (list[i].id # c => new[i] = list[i])
      BY <1>2, <1>m
    <2> HIDE DEF c
    <2>2. /\ Distinct(list) => Distinct(new)
          /\ \A m \in Ids : m # c => Of(new, m) = Of(list, m)
          /\ Of(new, c) = {} <=> Of(list, c) = {}
          /\ \A x \in Of(new, c) : \E i \in 1..Len(list) :
                list[i] \in Of(list, c) /\ list[i].id = c /\ x = new[i]
      BY <1>3, <1>9, <2>1, MappedOf
    <2> QED
      BY <2>2 DEF c
  <1>11. ASSUME NEW x \in Of(new, r.id)
         PROVE  \E y \in Of(list, r.id) :
                   /\ x.content = y.content
                   /\ r.kind = "react" => x.reacts = r.reacts
                   /\ r.kind = "pin" => x.reacts = y.reacts
    <2>1. PICK i \in 1..Len(list) : list[i] \in Of(list, r.id) /\ list[i].id = r.id /\ x = new[i]
      BY <1>10
    <2> QED
      BY <1>8, <2>1
  <1>12. cache' \in [Users -> Seq(Entry)] /\ cache'[u] = new /\ \A w \in Users : w # u => cache'[w] = cache[w]
    BY <1>1, <1>2, <1>7, <1>9
  <1>13. /\ replies' = replies \ {r}
         /\ UNCHANGED <<rows, lastId, notes, job, inbox, load, online, reqs, drops,
                        stale, overlapped, loads>>
    BY DEF ReplyArrives
  <1> QED
    BY <1>1, <1>2, <1>10, <1>11, <1>12, <1>13 DEF list

\* The first event of the queue goes to its setter.
LEMMA ReceiveDoes ==
    ASSUME TypeOK, NEW u \in Users, Receive(u)
    PROVE  /\ inbox[u] \in Seq(Event) /\ inbox[u] # <<>> /\ inbox[u][1] \in Event
           /\ cache' \in [Users -> Seq(Entry)] /\ inbox' \in [Users -> Seq(Event)]
           /\ inbox'[u] = Tail(inbox[u])
           /\ \A w \in Users : w # u => cache'[w] = cache[w] /\ inbox'[w] = inbox[w]
           /\ Distinct(cache[u]) => Distinct(cache'[u])
           /\ \A m \in Ids : Becomes(Of(cache[u], m), inbox[u][1], m, Of(cache'[u], m))
           /\ UNCHANGED <<rows, lastId, notes, job, replies, load, online, reqs, drops,
                          stale, overlapped, loads>>
  <1> DEFINE q == inbox[u]
             e == q[1]
             new == Apply(cache[u], e)
  <1>1. cache \in [Users -> Seq(Entry)] /\ inbox \in [Users -> Seq(Event)]
    BY DEF TypeOK
  <1>2. q \in Seq(Event) /\ q # <<>> /\ cache[u] \in Seq(Entry)
    BY <1>1 DEF Receive
  <1>3. e \in Event /\ Head(q) = e /\ Tail(q) \in Seq(Event)
    BY <1>2, TailOf
  <1>4. cache' = [cache EXCEPT ![u] = new] /\ inbox' = [inbox EXCEPT ![u] = Tail(q)]
    BY <1>3 DEF Receive
  <1>5. /\ new \in Seq(Entry)
        /\ Distinct(cache[u]) => Distinct(new)
        /\ \A m \in Ids : Becomes(Of(cache[u], m), e, m, Of(new, m))
    BY <1>2, <1>3, ApplyOf
  <1> HIDE DEF new, e
  <1>6. /\ cache' \in [Users -> Seq(Entry)] /\ cache'[u] = new
        /\ \A w \in Users : w # u => cache'[w] = cache[w]
    BY <1>1, <1>4, <1>5
  <1>7. /\ inbox' \in [Users -> Seq(Event)] /\ inbox'[u] = Tail(q)
        /\ \A w \in Users : w # u => inbox'[w] = inbox[w]
    BY <1>1, <1>3, <1>4
  <1>8. UNCHANGED <<rows, lastId, notes, job, replies, load, online, reqs, drops,
                    stale, overlapped, loads>>
    BY DEF Receive
  <1> QED
    BY <1>2, <1>3, <1>5, <1>6, <1>7, <1>8 DEF e

\* The record of no load.
LEMMA NoLoadIsLoad == NoLoad \in Load /\ NoLoad.at = "none" /\ NoLoad.rows = <<>>
  BY DEF NoLoad, Load

\* The steps of a load: asked for, answered with the rows, put into the copy, or failed.
LEMMA OpenDoes ==
    ASSUME TypeOK, NEW u \in Users, NEW force \in BOOLEAN, Open(u, force)
    PROVE  /\ load' \in [Users -> Load] /\ loads' \in 0..MaxLoads
           /\ \A w \in Users : w # u => load'[w] = load[w]
           /\ load'[u].at = "asked" /\ load'[u].rows = <<>>
           /\ \A m \in Ids : Busy(m) \/ Queued(u, m) => m \in load'[u].touched
           /\ UNCHANGED <<rows, lastId, notes, job, inbox, replies, cache, online, reqs, drops,
                          stale, overlapped>>
  <1> DEFINE T == {m \in Ids : Busy(m) \/ Queued(u, m)}
             y == [NoLoad EXCEPT !.at = "asked", !.touched = T]
  <1>1. load \in [Users -> Load] /\ T \in SUBSET Ids /\ \A m \in Ids : Busy(m) \/ Queued(u, m) => m \in T
    BY DEF TypeOK
  <1>2. load' = [load EXCEPT ![u] = y]
    BY DEF Open
  <1> HIDE DEF T
  <1>3. \A x \in Load : LET z == [x EXCEPT !.at = "asked", !.touched = T] IN
           z \in Load /\ z.at = "asked" /\ z.rows = x.rows /\ z.touched = T
    BY <1>1 DEF Load
  <1>4. y \in Load /\ y.at = "asked" /\ y.rows = <<>> /\ y.touched = T
    BY <1>3, NoLoadIsLoad
  <1> HIDE DEF y
  <1>5. load' \in [Users -> Load] /\ load'[u] = y /\ \A w \in Users : w # u => load'[w] = load[w]
    BY <1>1, <1>2, <1>4
  <1>6. /\ loads' \in 0..MaxLoads
        /\ UNCHANGED <<rows, lastId, notes, job, inbox, replies, cache, online, reqs, drops,
                       stale, overlapped>>
    BY ChatAssumption DEF Open, TypeOK
  <1> QED
    BY <1>1, <1>4, <1>5, <1>6

\* The load is answered with the live rows.
LEMMA ReadRowsDoes ==
    ASSUME TypeOK, Born, NEW u \in Users, ReadRows(u)
    PROVE  /\ load' \in [Users -> Load]
           /\ \A w \in Users : w # u => load'[w] = load[w]
           /\ load[u].at = "asked" /\ load'[u].at = "answered"
           /\ load'[u].rows = LiveRows
           /\ load'[u].touched = load[u].touched \cup (Live \ Newest)
           /\ UNCHANGED <<rows, lastId, notes, job, inbox, replies, cache, online, reqs,
                          drops, stale, overlapped, loads>>
  <1> DEFINE list == LiveRows
             old == Live \ Newest
             T == load[u].touched \cup old
             y == [at |-> "answered", rows |-> list, touched |-> T]
  <1>1. load \in [Users -> Load] /\ load[u] \in Load /\ list \in Seq(Entry)
    BY LiveRowsDoes DEF TypeOK
  <1>t. old \in SUBSET Ids /\ T \in SUBSET Ids
    <2>1. Live \in SUBSET Ids
      BY ChatAssumption DEF Live, Ids, TypeOK
    <2> QED
      BY <1>1, <2>1 DEF Load
  <1>2. load' = [load EXCEPT ![u] = y] /\ load[u].at = "asked"
    BY DEF ReadRows
  <1> HIDE DEF list, T
  <1>4. y \in Load /\ y.at = "answered" /\ y.rows = list /\ y.touched = T
    BY <1>1, <1>t DEF Load
  <1> HIDE DEF y
  <1>5. load' \in [Users -> Load] /\ load'[u] = y /\ \A w \in Users : w # u => load'[w] = load[w]
    BY <1>1, <1>2, <1>4
  <1>6. UNCHANGED <<rows, lastId, notes, job, inbox, replies, cache, online, reqs,
                    drops, stale, overlapped, loads>>
    BY DEF ReadRows
  <1> QED
    BY <1>2, <1>4, <1>5, <1>6 DEF list, T

\* The snapshot replaces the copy; what was touched since it was asked for is not to be relied on.
LEMMA LoadArrivesDoes ==
    ASSUME TypeOK, NEW u \in Users, LoadArrives(u)
    PROVE  /\ load' \in [Users -> Load] /\ cache' \in [Users -> Seq(Entry)]
           /\ stale' \in [Users -> SUBSET Ids]
           /\ \A w \in Users : w # u => /\ load'[w] = load[w] /\ cache'[w] = cache[w]
                                        /\ stale'[w] = stale[w]
           /\ load[u].at = "answered" /\ load'[u] = NoLoad
           /\ cache'[u] = load[u].rows /\ stale'[u] = load[u].touched
           /\ UNCHANGED <<rows, lastId, notes, job, inbox, replies, online, reqs, drops,
                          overlapped, loads>>
  <1>1. /\ load \in [Users -> Load] /\ cache \in [Users -> Seq(Entry)]
        /\ stale \in [Users -> SUBSET Ids]
    BY DEF TypeOK
  <1>2. load[u].rows \in Seq(Entry) /\ load[u].touched \in SUBSET Ids
    BY <1>1 DEF Load
  <1> QED
    BY <1>1, <1>2, NoLoadIsLoad DEF LoadArrives

\* A load that fails leaves the copy as it was.
LEMMA LoadFailsDoes ==
    ASSUME TypeOK, NEW u \in Users, LoadFails(u)
    PROVE  /\ load' \in [Users -> Load] /\ load'[u] = NoLoad
           /\ \A w \in Users : w # u => load'[w] = load[w]
           /\ UNCHANGED <<rows, lastId, notes, job, inbox, replies, cache, online, reqs,
                          drops, stale, overlapped, loads>>
  BY NoLoadIsLoad DEF LoadFails, TypeOK

\* What is lost with the socket is remembered as not seen.
LEMMA DisconnectDoes ==
    ASSUME TypeOK, NEW u \in Users, Disconnect(u)
    PROVE  /\ inbox' \in [Users -> Seq(Event)] /\ stale' \in [Users -> SUBSET Ids]
           /\ online' \in [Users -> BOOLEAN] /\ drops' \in [Users -> 0..MaxDrops]
           /\ \A w \in Users : w # u => inbox'[w] = inbox[w] /\ stale'[w] = stale[w]
           /\ inbox'[u] = <<>> /\ stale[u] \subseteq stale'[u]
           /\ \A m \in Ids : Queued(u, m) => m \in stale'[u]
           /\ UNCHANGED <<rows, lastId, notes, job, replies, cache, load, reqs, overlapped, loads>>
  <1>1. /\ inbox \in [Users -> Seq(Event)] /\ stale \in [Users -> SUBSET Ids]
        /\ online \in [Users -> BOOLEAN]
    BY DEF TypeOK
  <1> DEFINE T == {m \in Ids : Queued(u, m)}
  <1>2. stale' = [stale EXCEPT ![u] = @ \cup T] /\ \A m \in Ids : Queued(u, m) => m \in T
    BY DEF Disconnect
  <1>3. T \in SUBSET Ids
    OBVIOUS
  <1> HIDE DEF T
  <1>4. drops' \in [Users -> 0..MaxDrops]
    <2>1. drops[u] + 1 \in 0..MaxDrops
      BY ChatAssumption DEF Disconnect, TypeOK
    <2> QED
      BY <2>1 DEF Disconnect, TypeOK
  <1>5. online' \in [Users -> BOOLEAN]
    BY <1>1 DEF Disconnect
  <1>6. inbox' \in [Users -> Seq(Event)] /\ inbox'[u] = <<>> /\ \A w \in Users : w # u => inbox'[w] = inbox[w]
    BY <1>1 DEF Disconnect
  <1>7. UNCHANGED <<rows, lastId, notes, job, replies, cache, load, reqs, overlapped, loads>>
    BY DEF Disconnect
  <1>8. /\ stale' \in [Users -> SUBSET Ids] /\ stale[u] \subseteq stale'[u] /\ T \subseteq stale'[u]
        /\ \A w \in Users : w # u => stale'[w] = stale[w]
    BY <1>1, <1>2, <1>3
  <1> QED
    BY <1>2, <1>4, <1>5, <1>6, <1>7, <1>8

\* A socket that opens again brings nothing.
LEMMA ReconnectDoes ==
    ASSUME TypeOK, NEW u \in Users, Reconnect(u)
    PROVE  /\ online' \in [Users -> BOOLEAN]
           /\ UNCHANGED <<rows, lastId, notes, job, inbox, replies, cache, load, reqs, drops,
                          stale, overlapped, loads>>
  BY DEF Reconnect, TypeOK

-----------------------------------------------------------------------------
(* Types, the shape of the handlers, and lists without duplicates.         *)

\* An empty slot is at no stage of anything.
LEMMA IdleShape == Shape(Idle)
  BY IdleHas DEF IdleFacts, Shape

\* A step of one handler that stores no row and tells nobody.
LEMMA BornHandler ==
    ASSUME TypeOK, Born, NEW j \in Slots, Only(j), lastId' = lastId, UNCHANGED <<cache, load>>,
           \A m \in Ids : rows'[m].state = "none" <=> rows[m].state = "none",
           job'[j].op # "idle" /\ job'[j].at # "insert" => job'[j].id \in 1..lastId,
           job'[j].at = "insert" => job'[j].id = 0,
           \A r \in replies' : r \in replies \/ r.id <= lastId,
           \A u \in Users : \A i \in DOMAIN inbox'[u] : inbox'[u][i].id <= lastId
    PROVE  Born'
  <1>1. \A k \in Slots : /\ job'[k].op # "idle" /\ job'[k].at # "insert" => job'[k].id \in 1..lastId
                         /\ job'[k].at = "insert" => job'[k].id = 0
    BY DEF Born, Only
  <1> QED
    BY <1>1 DEF Born

\* One slot changes, and only its shape is in question.
LEMMA ShapeHandler ==
    ASSUME JobShape, NEW j \in Slots, Only(j), Shape(job'[j])
    PROVE  JobShape'
  <1>1. \A k \in Slots : Shape(job'[k])
    BY DEF JobShape, Only
  <1> QED
    BY <1>1 DEF JobShape, Shape

\* Basics is kept by the steps that read,
LEMMA BasicsReading ==
    ASSUME Basics, NEW j \in Slots, Reading(j)
    PROVE  Basics'
  <1>0. TypeOK /\ Room /\ JobShape /\ Born /\ NoDuplicates /\ NoDuplicatesLoaded
    BY DEF Basics
  <1>1. /\ Only(j)
        /\ job[j].id \in 1..lastId
        /\ Advances(job[j], job'[j], rows[job[j].id])
        /\ job[j].op # "idle" /\ job[j].at # "insert"
        /\ UNCHANGED <<rows, lastId, inbox, replies, cache, load, online, reqs, drops, stale, loads>>
        /\ notes' \subseteq Note /\ overlapped \subseteq overlapped' /\ overlapped' \subseteq Ids
    BY <1>0, ReadingDoes
  <1>2. TypeOK'
    BY <1>0, <1>1 DEF TypeOK, Only
  <1>3. job'[j] = Idle \/ /\ job'[j].op = job[j].op /\ job'[j].by = job[j].by /\ job'[j].id = job[j].id
                          /\ job'[j].at # "insert"
    BY <1>1 DEF Advances
  <1>4. Room'
    BY <1>0, <1>1, <1>3, IdleHas, RoomKept DEF Only, IdleFacts
  <1>5. Shape(job'[j])
    <2>1. Shape(job[j])
      BY <1>0 DEF JobShape
    <2> QED
      BY <1>1, <1>3, <2>1, IdleShape, IdleHas DEF Advances, Shape, IdleFacts
  <1>6. JobShape'
    BY <1>0, <1>1, <1>5, ShapeHandler
  <1>7. Born'
    <2>1. \A u \in Users : \A i \in DOMAIN inbox[u] : inbox[u][i].id <= lastId
      BY <1>0 DEF Born
    <2> QED
      BY <1>0, <1>1, <1>3, <2>1, IdleHas, BornHandler DEF IdleFacts
  <1>8. NoDuplicates' /\ NoDuplicatesLoaded'
    BY <1>0, <1>1 DEF NoDuplicates, NoDuplicatesLoaded
  <1> QED
    BY <1>2, <1>4, <1>6, <1>7, <1>8 DEF Basics

\* ... by the statement,
LEMMA BasicsWrite ==
    ASSUME Basics, NEW j \in Slots, Write(j)
    PROVE  Basics'
  <1> DEFINE x == job[j]
             m == x.id
  <1>0. TypeOK /\ Room /\ JobShape /\ Born /\ NoDuplicates /\ NoDuplicatesLoaded
    BY DEF Basics
  <1>1. /\ Only(j)
        /\ m \in 1..lastId /\ m \in Ids
        /\ x.op \in {"edit", "delete", "react", "pin"} /\ x.at = "write"
        /\ job'[j].op = x.op /\ job'[j].by = x.by /\ job'[j].id = m
        /\ job'[j].at = IF x.op = "delete" THEN "cleanup" ELSE "read"
        /\ rows' \in [Ids -> Row]
        /\ \A k \in Ids : k # m => rows'[k] = rows[k]
        /\ rows'[m].state = IF x.op = "delete" THEN "deleted" ELSE rows[m].state
        /\ UNCHANGED <<lastId, notes, inbox, replies, cache, load, online, reqs, drops,
                       stale, overlapped, loads>>
    BY <1>0, WriteDoes
  <1> HIDE DEF x, m
  <1>2. TypeOK'
    BY <1>0, <1>1 DEF TypeOK, Only
  <1>4. Room'
    BY <1>0, <1>1, RoomKept DEF Only, x
  <1>5. Shape(job'[j])
    BY <1>1, IdleHas DEF Shape, IdleFacts
  <1>6. JobShape'
    BY <1>0, <1>1, <1>5, ShapeHandler
  <1>7. Born'
    <2>1. \A u \in Users : \A i \in DOMAIN inbox[u] : inbox[u][i].id <= lastId
      BY <1>0 DEF Born
    <2>2. rows[m].state # "none"
      <3>1. m <= lastId /\ m \in Nat /\ lastId \in Nat
        BY <1>0, <1>1, ChatAssumption DEF TypeOK
      <3> QED
        BY <1>0, <1>1, <3>1 DEF Born
    <2>3. \A k \in Ids : rows'[k].state = "none" <=> rows[k].state = "none"
      BY <1>1, <2>2
    <2>4. job'[j].id \in 1..lastId /\ job'[j].at # "insert"
      BY <1>1
    <2> QED
      BY <1>0, <1>1, <2>1, <2>3, <2>4, BornHandler
  <1>8. NoDuplicates' /\ NoDuplicatesLoaded'
    BY <1>0, <1>1 DEF NoDuplicates, NoDuplicatesLoaded
  <1> QED
    BY <1>2, <1>4, <1>6, <1>7, <1>8 DEF Basics

\* ... by the answer of a reaction,
LEMMA BasicsReadReactions ==
    ASSUME Basics, NEW j \in Slots, ReadReactions(j)
    PROVE  Basics'
  <1> DEFINE x == job[j]
             m == x.id
             r == [kind |-> "react", to |-> x.by, id |-> m, reacts |-> rows[m].reacts,
                   pinned |-> FALSE]
  <1>0. TypeOK /\ Room /\ JobShape /\ Born /\ NoDuplicates /\ NoDuplicatesLoaded
    BY DEF Basics
  <1>1. /\ Only(j)
        /\ m \in 1..lastId /\ m \in Ids
        /\ x.op = "react" /\ x.at = "read"
        /\ job'[j].op = "react" /\ job'[j].at = "deliver" /\ job'[j].id = m
        /\ r \in Reply /\ replies' = replies \cup {r}
        /\ UNCHANGED <<rows, lastId, notes, inbox, cache, load, online, reqs, drops,
                       stale, overlapped, loads>>
    BY <1>0, ReadReactionsDoes
  <1>r. r.id = m
    OBVIOUS
  <1> HIDE DEF x, m, r
  <1>2. TypeOK'
    BY <1>0, <1>1 DEF TypeOK, Only
  <1>4. Room'
    BY <1>0, <1>1, RoomKept DEF Only, x
  <1>5. Shape(job'[j])
    BY <1>1, IdleHas DEF Shape, IdleFacts
  <1>6. JobShape'
    BY <1>0, <1>1, <1>5, ShapeHandler
  <1>7. Born'
    <2>1. \A u \in Users : \A i \in DOMAIN inbox[u] : inbox[u][i].id <= lastId
      BY <1>0 DEF Born
    <2>2. \A s \in replies' : s \in replies \/ s.id <= lastId
      BY <1>1, <1>r
    <2> QED
      BY <1>0, <1>1, <2>1, <2>2, BornHandler
  <1>8. NoDuplicates' /\ NoDuplicatesLoaded'
    BY <1>0, <1>1 DEF NoDuplicates, NoDuplicatesLoaded
  <1> QED
    BY <1>2, <1>4, <1>6, <1>7, <1>8 DEF Basics

\* ... by the answer of a pin,
LEMMA BasicsReadPinned ==
    ASSUME Basics, NEW j \in Slots, ReadPinned(j)
    PROVE  Basics'
  <1> DEFINE x == job[j]
             m == x.id
  <1>0. TypeOK /\ Room /\ JobShape /\ Born /\ NoDuplicates /\ NoDuplicatesLoaded
    BY DEF Basics
  <1>1. /\ Only(j)
        /\ m \in 1..lastId /\ m \in Ids
        /\ x.op = "pin" /\ x.at = "read" /\ job'[j] = Idle
        /\ \/ replies' = replies
           \/ \E r \in Reply : r.kind = "pin" /\ r.id = m /\ replies' = replies \cup {r}
        /\ UNCHANGED <<rows, lastId, notes, inbox, cache, load, online, reqs, drops,
                       stale, overlapped, loads>>
    BY <1>0, ReadPinnedDoes
  <1> HIDE DEF x, m
  <1>2. TypeOK'
    BY <1>0, <1>1 DEF TypeOK, Only
  <1>4. Room'
    BY <1>0, <1>1, IdleHas, RoomKept DEF Only, x, IdleFacts
  <1>6. JobShape'
    BY <1>0, <1>1, IdleShape, ShapeHandler
  <1>7. Born'
    <2>1. \A u \in Users : \A i \in DOMAIN inbox[u] : inbox[u][i].id <= lastId
      BY <1>0 DEF Born
    <2>2. \A s \in replies' : s \in replies \/ s.id <= lastId
      BY <1>1
    <2> QED
      BY <1>0, <1>1, <2>1, <2>2, IdleHas, BornHandler DEF IdleFacts
  <1>8. NoDuplicates' /\ NoDuplicatesLoaded'
    BY <1>0, <1>1 DEF NoDuplicates, NoDuplicatesLoaded
  <1> QED
    BY <1>2, <1>4, <1>6, <1>7, <1>8 DEF Basics

\* ... by the broadcasts,
LEMMA BasicsTelling ==
    ASSUME Basics, NEW j \in Slots, Telling(j)
    PROVE  Basics'
  <1> DEFINE x == job[j]
  <1>0. TypeOK /\ Room /\ JobShape /\ Born /\ NoDuplicates /\ NoDuplicatesLoaded
    BY DEF Basics
  <1>1. /\ Only(j) /\ job'[j] = Idle
        /\ x.id \in 1..lastId /\ x.id \in Ids
        /\ UNCHANGED <<rows, lastId, notes, replies, cache, load, online, reqs, drops,
                       overlapped, loads>>
    BY <1>0, TellingDoes
  <1>a. PICK kind \in {"add", "update", "delete", "reacts"}, audience \in SUBSET Users :
           Announces(x, kind, audience) /\ Tells(j, kind, audience)
    BY <1>0, TellingDoes
  <1> DEFINE e == [kind |-> kind, id |-> x.id, content |-> x.content, reacts |-> x.reacts]
  <1>b. /\ e \in Event
        /\ inbox' \in [Users -> Seq(Event)] /\ stale' \in [Users -> SUBSET Ids]
        /\ \A u \in Users : inbox'[u] = inbox[u] \/ inbox'[u] = Put(inbox[u], e)
    BY <1>a DEF Tells
  <1>c. e.id = x.id
    OBVIOUS
  <1> HIDE DEF e, x
  <1>2. TypeOK'
    BY <1>0, <1>1, <1>b DEF TypeOK, Only
  <1>d. x.op # "idle" /\ x.at # "insert"
    BY <1>a DEF Announces
  <1>4. Room'
    BY <1>0, <1>1, <1>d, IdleHas, RoomKept DEF Only, x, IdleFacts
  <1>6. JobShape'
    BY <1>0, <1>1, IdleShape, ShapeHandler
  <1>7. Born'
    <2>1. \A u \in Users : \A i \in DOMAIN inbox[u] : inbox[u][i].id <= lastId
      BY <1>0 DEF Born
    <2>2. ASSUME NEW u \in Users, NEW i \in DOMAIN inbox'[u] PROVE inbox'[u][i].id <= lastId
      <3>1. inbox[u] \in Seq(Event)
        BY <1>0 DEF TypeOK
      <3>2. x.id <= lastId
        BY <1>1
      <3>3. CASE inbox'[u] = Put(inbox[u], e)
        <4>1. (i \in DOMAIN inbox[u] /\ inbox'[u][i] = inbox[u][i]) \/ inbox'[u][i] = e
          BY <3>1, <3>3, <1>b DEF Put
        <4> QED
          BY <2>1, <3>2, <4>1, <1>c
      <3> QED
        BY <1>b, <2>1, <3>3
    <2> QED
      BY <1>0, <1>1, <2>2, IdleHas, BornHandler DEF IdleFacts
  <1>8. NoDuplicates' /\ NoDuplicatesLoaded'
    BY <1>0, <1>1 DEF NoDuplicates, NoDuplicatesLoaded
  <1> QED
    BY <1>2, <1>4, <1>6, <1>7, <1>8 DEF Basics

\* ... by the failures after the row is changed,
LEMMA BasicsLosing ==
    ASSUME Basics, NEW j \in Slots, GiveUpLate(j)
    PROVE  Basics'
  <1>0. TypeOK /\ Room /\ JobShape /\ Born /\ NoDuplicates /\ NoDuplicatesLoaded
    BY DEF Basics
  <1>1. /\ Only(j) /\ job'[j] = Idle
        /\ job[j].at \in {"fetch", "read"}
        /\ stale' \in [Users -> SUBSET Ids]
        /\ UNCHANGED <<rows, lastId, notes, inbox, replies, cache, load, online, reqs, drops,
                       overlapped, loads>>
    BY <1>0, LosingDoes
  <1>2. TypeOK'
    BY <1>0, <1>1 DEF TypeOK, Only
  <1>4. Room'
    BY <1>0, <1>1, IdleHas, RoomKept DEF Only, IdleFacts
  <1>6. JobShape'
    BY <1>0, <1>1, IdleShape, ShapeHandler
  <1>7. Born'
    <2>1. \A u \in Users : \A i \in DOMAIN inbox[u] : inbox[u][i].id <= lastId
      BY <1>0 DEF Born
    <2> QED
      BY <1>0, <1>1, <2>1, IdleHas, BornHandler DEF IdleFacts
  <1>8. NoDuplicates' /\ NoDuplicatesLoaded'
    BY <1>0, <1>1 DEF NoDuplicates, NoDuplicatesLoaded
  <1> QED
    BY <1>2, <1>4, <1>6, <1>7, <1>8 DEF Basics

\* ... by the new row, for which there is room and of which nothing speaks yet,
LEMMA BasicsInsert ==
    ASSUME Basics, NEW j \in Slots, Insert(j)
    PROVE  Basics'
  <1> DEFINE m == lastId'
  <1>0. TypeOK /\ Room /\ JobShape /\ Born /\ NoDuplicates /\ NoDuplicatesLoaded
    BY DEF Basics
  <1>1. /\ Only(j)
        /\ m = lastId + 1 /\ m \in Ids /\ lastId \in Nat
        /\ job[j].op \in {"send", "forward"} /\ job[j].at = "insert"
        /\ job'[j].op = job[j].op /\ job'[j].at = "fetch" /\ job'[j].id = m
        /\ job'[j].reacts = job[j].reacts
        /\ rows' \in [Ids -> Row]
        /\ rows'[m].state = "live"
        /\ \A k \in Ids : k # m => rows'[k] = rows[k]
        /\ Touch(m)
        /\ UNCHANGED <<notes, inbox, replies, cache, online, reqs, drops, stale, overlapped, loads>>
        /\ Room'
    BY <1>0, InsertDoes
  <1>t. /\ load' \in [Users -> Load]
        /\ \A u \in Users : load'[u].rows = load[u].rows
    BY <1>0, <1>1, TouchDoes
  <1>2. TypeOK'
    BY <1>0, <1>1, <1>t, ChatAssumption DEF TypeOK, Only, Ids
  <1>5. Shape(job'[j])
    <2>1. Shape(job[j])
      BY <1>0 DEF JobShape
    <2> QED
      BY <1>1, <2>1, IdleHas DEF Shape, IdleFacts
  <1>6. JobShape'
    BY <1>0, <1>1, <1>5, ShapeHandler
  <1>7. Born'
    <2>1. ASSUME NEW k \in Ids PROVE rows'[k].state = "none" <=> k > lastId'
      <3>1. k \in Nat
        BY ChatAssumption DEF Ids
      <3>2. rows[k].state = "none" <=> k > lastId
        BY <1>0 DEF Born
      <3> QED
        BY <1>1, <3>1, <3>2
    <2>2. \A k \in Slots : /\ job'[k].op # "idle" /\ job'[k].at # "insert" => job'[k].id \in 1..lastId'
                           /\ job'[k].at = "insert" => job'[k].id = 0
      BY <1>0, <1>1 DEF Only, Born
    <2>3. ASSUME NEW r \in replies' PROVE r.id <= lastId'
      <3>1. r.id \in Nat /\ r.id <= lastId
        BY <1>0, <1>1, ChatAssumption DEF TypeOK, Born, Reply, Ids
      <3> QED
        BY <1>1, <3>1
    <2>4. ASSUME NEW u \in Users, NEW i \in DOMAIN inbox'[u] PROVE inbox'[u][i].id <= lastId'
      <3>1. inbox[u] \in Seq(Event) /\ inbox'[u] = inbox[u]
        BY <1>0, <1>1 DEF TypeOK
      <3>2. inbox[u][i] \in Event /\ inbox[u][i].id <= lastId
        BY <1>0, <3>1 DEF Born
      <3>3. inbox[u][i].id \in Nat
        BY <3>2, ChatAssumption DEF Event, Ids
      <3> QED
        BY <1>1, <3>1, <3>2, <3>3
    <2>5. ASSUME NEW u \in Users, NEW i \in DOMAIN cache'[u] PROVE cache'[u][i].id <= lastId'
      <3>1. cache[u] \in Seq(Entry) /\ cache'[u] = cache[u]
        BY <1>0, <1>1 DEF TypeOK
      <3>2. cache[u][i] \in Entry /\ cache[u][i].id <= lastId
        BY <1>0, <3>1 DEF Born
      <3>3. cache[u][i].id \in Nat
        BY <3>2, ChatAssumption DEF Entry, Ids
      <3> QED
        BY <1>1, <3>1, <3>2, <3>3
    <2>6. ASSUME NEW u \in Users, NEW i \in DOMAIN load'[u].rows PROVE load'[u].rows[i].id <= lastId'
      <3> DEFINE list == load[u].rows
      <3>1. list \in Seq(Entry) /\ load'[u].rows = list
        BY <1>0, <1>t DEF TypeOK, Load
      <3>2. list[i] \in Entry /\ list[i].id <= lastId
        BY <1>0, <3>1 DEF Born
      <3>3. list[i].id \in Nat
        BY <3>2, ChatAssumption DEF Entry, Ids
      <3> QED
        BY <1>1, <3>1, <3>2, <3>3
    <2> QED
      BY <2>1, <2>2, <2>3, <2>4, <2>5, <2>6 DEF Born
  <1>8. NoDuplicates' /\ NoDuplicatesLoaded'
    BY <1>0, <1>1, <1>t DEF NoDuplicates, NoDuplicatesLoaded, Distinct
  <1> QED
    BY <1>1, <1>2, <1>6, <1>7, <1>8 DEF Basics

\* ... by a request for a new message, which takes part of the room,
LEMMA BasicsRequestNew ==
    ASSUME Basics, NEW j \in Slots, NEW u \in Users, NEW op \in {"send", "forward"},
           RequestNew(j, u, op)
    PROVE  Basics'
  <1>0. TypeOK /\ Room /\ JobShape /\ Born /\ NoDuplicates /\ NoDuplicatesLoaded
    BY DEF Basics
  <1>1. /\ Only(j)
        /\ job'[j].op = op /\ job'[j].at = "insert" /\ job'[j].id = 0 /\ job'[j].reacts = {}
        /\ reqs' \in 0..MaxReq
        /\ Room'
        /\ UNCHANGED <<rows, lastId, notes, inbox, replies, cache, load, online,
                       drops, stale, overlapped, loads>>
    BY <1>0, RequestNewDoes
  <1>2. TypeOK'
    BY <1>0, <1>1 DEF TypeOK, Only
  <1>5. Shape(job'[j])
    BY <1>1, IdleHas DEF Shape, IdleFacts
  <1>6. JobShape'
    BY <1>0, <1>1, <1>5, ShapeHandler
  <1>7. Born'
    <2>1. \A w \in Users : \A i \in DOMAIN inbox[w] : inbox[w][i].id <= lastId
      BY <1>0 DEF Born
    <2> QED
      BY <1>0, <1>1, <2>1, BornHandler
  <1>8. NoDuplicates' /\ NoDuplicatesLoaded'
    BY <1>0, <1>1 DEF NoDuplicates, NoDuplicatesLoaded
  <1> QED
    BY <1>1, <1>2, <1>6, <1>7, <1>8 DEF Basics

\* ... by a request about a row.
LEMMA BasicsAsking ==
    ASSUME Basics, NEW j \in Slots, NEW u \in Users, NEW m \in Ids, Asking(j, u, m)
    PROVE  Basics'
  <1>0. TypeOK /\ Room /\ JobShape /\ Born /\ NoDuplicates /\ NoDuplicatesLoaded
    BY DEF Basics
  <1>1. /\ Only(j) /\ job[j] = Idle
        /\ m \in 1..lastId
        /\ job'[j].op \in {"edit", "delete", "react", "pin"} /\ job'[j].at = "check"
        /\ job'[j].id = m
        /\ reqs' \in 0..MaxReq
        /\ Touch(m)
        /\ stale' \in [Users -> SUBSET Ids]
        /\ overlapped' \subseteq Ids
        /\ UNCHANGED <<rows, lastId, notes, inbox, replies, cache, online, drops, loads>>
    BY <1>0, AskingDoes
  <1>t. /\ load' \in [Users -> Load]
        /\ \A w \in Users : load'[w].rows = load[w].rows
    BY <1>0, <1>1, TouchDoes
  <1>2. TypeOK'
    BY <1>0, <1>1, <1>t DEF TypeOK, Only
  <1>4. Room'
    BY <1>0, <1>1, IdleHas, RoomKept DEF Only, IdleFacts
  <1>5. Shape(job'[j])
    BY <1>1, IdleHas DEF Shape, IdleFacts
  <1>6. JobShape'
    BY <1>0, <1>1, <1>5, ShapeHandler
  <1>7. Born'
    <2>1. \A k \in Slots : /\ job'[k].op # "idle" /\ job'[k].at # "insert" => job'[k].id \in 1..lastId
                           /\ job'[k].at = "insert" => job'[k].id = 0
      BY <1>0, <1>1 DEF Only, Born
    <2>2. \A w \in Users : \A i \in DOMAIN load'[w].rows : load'[w].rows[i].id <= lastId
      BY <1>0, <1>t DEF Born
    <2> QED
      BY <1>0, <1>1, <2>1, <2>2 DEF Born
  <1>8. NoDuplicates' /\ NoDuplicatesLoaded'
    BY <1>0, <1>1, <1>t DEF NoDuplicates, NoDuplicatesLoaded, Distinct
  <1> QED
    BY <1>2, <1>4, <1>6, <1>7, <1>8 DEF Basics

\* A step of a browser or an answer: rows and handlers are left alone, and what is in a
\* copy or a load afterwards is stored and there once.
LEMMA BasicsBrowsing ==
    ASSUME Basics, TypeOK', UNCHANGED <<rows, lastId, job>>,
           replies' \subseteq replies,
           \A u \in Users :
              /\ \A m \in Ids : Of(cache'[u], m) # {} => m <= lastId
              /\ \A i \in DOMAIN load'[u].rows : load'[u].rows[i].id <= lastId
              /\ \A i \in DOMAIN inbox'[u] : inbox'[u][i].id <= lastId
              /\ Distinct(cache'[u]) /\ Distinct(load'[u].rows)
    PROVE  Basics'
  <1>0. TypeOK /\ Room /\ JobShape /\ Born
    BY DEF Basics
  <1>1. Room'
    BY <1>0, RoomKept
  <1>2. JobShape'
    BY <1>0 DEF JobShape
  <1>3. \A u \in Users : \A i \in DOMAIN cache'[u] : cache'[u][i].id <= lastId
    <2>1. lastId \in Nat
      BY <1>0, ChatAssumption DEF TypeOK
    <2>2. \A u \in Users : cache'[u] \in Seq(Entry)
      BY DEF TypeOK
    <2> QED
      BY <2>1, <2>2, StoredOf
  <1>4. Born'
    BY <1>0, <1>3 DEF Born
  <1>5. NoDuplicates' /\ NoDuplicatesLoaded'
    BY DEF NoDuplicates, NoDuplicatesLoaded, Distinct
  <1> QED
    BY <1>1, <1>2, <1>4, <1>5 DEF Basics

\* What Basics says of the lists.
LEMMA BasicsLists ==
    ASSUME Basics
    PROVE  /\ lastId \in Nat
           /\ \A u \in Users :
                 /\ \A m \in Ids : Of(cache[u], m) # {} => m <= lastId
                 /\ \A i \in DOMAIN load[u].rows : load[u].rows[i].id <= lastId
                 /\ \A i \in DOMAIN inbox[u] : inbox[u][i].id <= lastId
                 /\ Distinct(cache[u]) /\ Distinct(load[u].rows)
                 /\ cache[u] \in Seq(Entry) /\ inbox[u] \in Seq(Event)
                 /\ load[u].rows \in Seq(Entry)
  <1>0. TypeOK /\ Born /\ NoDuplicates /\ NoDuplicatesLoaded
    BY DEF Basics
  <1>1. lastId \in Nat
    BY <1>0, ChatAssumption DEF TypeOK
  <1>2. ASSUME NEW u \in Users
        PROVE  /\ cache[u] \in Seq(Entry) /\ inbox[u] \in Seq(Event) /\ load[u].rows \in Seq(Entry)
               /\ \A m \in Ids : Of(cache[u], m) # {} => m <= lastId
    <2>1. cache[u] \in Seq(Entry) /\ inbox[u] \in Seq(Event) /\ load[u].rows \in Seq(Entry)
      BY <1>0 DEF TypeOK, Load
    <2>2. \A i \in DOMAIN cache[u] : cache[u][i].id <= lastId
      BY <1>0 DEF Born
    <2> QED
      BY <1>1, <2>1, <2>2, StoredOf
  <1> QED
    BY <1>0, <1>1, <1>2 DEF Born, NoDuplicates, NoDuplicatesLoaded, Distinct

\* No event brings a message twice: addMessage looks for its id.
LEMMA BasicsReceive ==
    ASSUME Basics, NEW u \in Users, Receive(u)
    PROVE  Basics'
  <1> DEFINE q == inbox[u]
             e == q[1]
  <1>0. TypeOK
    BY DEF Basics
  <1>1. /\ q \in Seq(Event) /\ q # <<>> /\ e \in Event
        /\ cache' \in [Users -> Seq(Entry)] /\ inbox' \in [Users -> Seq(Event)]
        /\ inbox'[u] = Tail(q)
        /\ \A w \in Users : w # u => cache'[w] = cache[w] /\ inbox'[w] = inbox[w]
        /\ Distinct(cache[u]) => Distinct(cache'[u])
        /\ \A m \in Ids : Becomes(Of(cache[u], m), e, m, Of(cache'[u], m))
        /\ UNCHANGED <<rows, lastId, notes, job, replies, load, online, reqs, drops,
                       stale, overlapped, loads>>
    BY <1>0, ReceiveDoes
  <1>2. TypeOK'
    BY <1>0, <1>1 DEF TypeOK
  <1>3. e.id <= lastId /\ \A i \in DOMAIN Tail(q) : Tail(q)[i].id <= lastId
    <2>1. \A i \in DOMAIN q : q[i].id <= lastId
      BY BasicsLists
    <2> HIDE DEF q
    <2> QED
      BY <1>1, <2>1
  <1>4. e.kind \in {"add", "update", "delete", "reacts"}
    BY <1>1 DEF Event
  <1> HIDE DEF q, e
  <1>5. ASSUME NEW m \in Ids, Of(cache'[u], m) # {} PROVE m <= lastId
    <2>1. Of(cache[u], m) # {} \/ e.id = m
      BY <1>1, <1>4, <1>5 DEF Becomes
    <2> QED
      BY <1>3, <2>1, BasicsLists
  <1>6. \A w \in Users :
           /\ \A m \in Ids : Of(cache'[w], m) # {} => m <= lastId
           /\ \A i \in DOMAIN load'[w].rows : load'[w].rows[i].id <= lastId
           /\ \A i \in DOMAIN inbox'[w] : inbox'[w][i].id <= lastId
           /\ Distinct(cache'[w]) /\ Distinct(load'[w].rows)
    BY <1>1, <1>3, <1>5, BasicsLists
  <1> QED
    BY <1>1, <1>2, <1>6, BasicsBrowsing

\* An answer changes entries and brings none.
LEMMA BasicsReply ==
    ASSUME Basics, NEW r \in replies, ReplyArrives(r)
    PROVE  Basics'
  <1>0. TypeOK
    BY DEF Basics
  <1>1. /\ r.to \in Users /\ r.id \in Ids
        /\ replies' = replies \ {r}
        /\ cache' \in [Users -> Seq(Entry)]
        /\ \A u \in Users : u # r.to => cache'[u] = cache[u]
        /\ Distinct(cache[r.to]) => Distinct(cache'[r.to])
        /\ \A m \in Ids : m # r.id => Of(cache'[r.to], m) = Of(cache[r.to], m)
        /\ Of(cache'[r.to], r.id) = {} <=> Of(cache[r.to], r.id) = {}
        /\ UNCHANGED <<rows, lastId, notes, job, inbox, load, online, reqs, drops,
                       stale, overlapped, loads>>
    BY <1>0, ReplyArrivesDoes
  <1>2. TypeOK'
    BY <1>0, <1>1 DEF TypeOK
  <1>3. \A w \in Users :
           /\ \A m \in Ids : Of(cache'[w], m) # {} => m <= lastId
           /\ \A i \in DOMAIN load'[w].rows : load'[w].rows[i].id <= lastId
           /\ \A i \in DOMAIN inbox'[w] : inbox'[w][i].id <= lastId
           /\ Distinct(cache'[w]) /\ Distinct(load'[w].rows)
    BY <1>1, BasicsLists
  <1> QED
    BY <1>1, <1>2, <1>3, BasicsBrowsing

\* Nothing is in the empty list.
LEMMA NothingDistinct == Distinct(<<>>) /\ DOMAIN <<>> = {} /\ \A m : Of(<<>>, m) = {}
  BY DEF Distinct, Of

\* A load brings each row once, in place of all that was there.
LEMMA BasicsLoading ==
    ASSUME Basics, NEW u \in Users,
           \/ \E force \in BOOLEAN : Open(u, force)
           \/ ReadRows(u) \/ LoadArrives(u) \/ LoadFails(u)
    PROVE  Basics'
  <1>0. TypeOK /\ Born
    BY DEF Basics
  <1>1. CASE \E force \in BOOLEAN : Open(u, force)
    <2>1. /\ load' \in [Users -> Load] /\ loads' \in 0..MaxLoads
          /\ \A w \in Users : w # u => load'[w] = load[w]
          /\ load'[u].rows = <<>>
          /\ UNCHANGED <<rows, lastId, notes, job, inbox, replies, cache, online, reqs, drops,
                         stale, overlapped>>
      BY <1>0, <1>1, OpenDoes
    <2>2. TypeOK'
      BY <1>0, <2>1 DEF TypeOK
    <2>3. \A w \in Users :
             /\ \A i \in DOMAIN load'[w].rows : load'[w].rows[i].id <= lastId
             /\ Distinct(load'[w].rows)
      BY <2>1, BasicsLists, NothingDistinct
    <2> QED
      BY <2>1, <2>2, <2>3, BasicsLists, BasicsBrowsing
  <1>2. CASE ReadRows(u)
    <2>1. /\ load' \in [Users -> Load]
          /\ \A w \in Users : w # u => load'[w] = load[w]
          /\ load'[u].rows = LiveRows
          /\ UNCHANGED <<rows, lastId, notes, job, inbox, replies, cache, online, reqs,
                         drops, stale, overlapped, loads>>
      BY <1>0, <1>2, ReadRowsDoes
    <2>2. TypeOK'
      BY <1>0, <2>1 DEF TypeOK
    <2>3. \A w \in Users :
             /\ \A i \in DOMAIN load'[w].rows : load'[w].rows[i].id <= lastId
             /\ Distinct(load'[w].rows)
      BY <1>0, <2>1, BasicsLists, LiveRowsDoes
    <2> QED
      BY <2>1, <2>2, <2>3, BasicsLists, BasicsBrowsing
  <1>3. CASE LoadArrives(u)
    <2>1. /\ load' \in [Users -> Load] /\ cache' \in [Users -> Seq(Entry)]
          /\ stale' \in [Users -> SUBSET Ids]
          /\ \A w \in Users : w # u => load'[w] = load[w] /\ cache'[w] = cache[w]
          /\ load'[u] = NoLoad
          /\ cache'[u] = load[u].rows
          /\ UNCHANGED <<rows, lastId, notes, job, inbox, replies, online, reqs, drops,
                         overlapped, loads>>
      BY <1>0, <1>3, LoadArrivesDoes
    <2>2. TypeOK'
      BY <1>0, <2>1 DEF TypeOK
    <2>3. \A w \in Users :
             /\ \A i \in DOMAIN load'[w].rows : load'[w].rows[i].id <= lastId
             /\ Distinct(load'[w].rows)
      BY <2>1, BasicsLists, NothingDistinct, NoLoadIsLoad
    <2>4. \A m \in Ids : Of(load[u].rows, m) # {} => m <= lastId
      BY BasicsLists, StoredOf
    <2>5. \A w \in Users :
             /\ \A m \in Ids : Of(cache'[w], m) # {} => m <= lastId
             /\ Distinct(cache'[w])
      BY <2>1, <2>4, BasicsLists
    <2> QED
      BY <2>1, <2>2, <2>3, <2>5, BasicsLists, BasicsBrowsing
  <1>4. CASE LoadFails(u)
    <2>1. /\ load' \in [Users -> Load] /\ load'[u] = NoLoad
          /\ \A w \in Users : w # u => load'[w] = load[w]
          /\ UNCHANGED <<rows, lastId, notes, job, inbox, replies, cache, online, reqs,
                         drops, stale, overlapped, loads>>
      BY <1>0, <1>4, LoadFailsDoes
    <2>2. TypeOK'
      BY <1>0, <2>1 DEF TypeOK
    <2>3. \A w \in Users :
             /\ \A i \in DOMAIN load'[w].rows : load'[w].rows[i].id <= lastId
             /\ Distinct(load'[w].rows)
      BY <2>1, BasicsLists, NothingDistinct, NoLoadIsLoad
    <2> QED
      BY <2>1, <2>2, <2>3, BasicsLists, BasicsBrowsing
  <1> QED
    BY <1>1, <1>2, <1>3, <1>4

\* Connections bring no message.
LEMMA BasicsConnecting ==
    ASSUME Basics, NEW u \in Users, Disconnect(u) \/ Reconnect(u)
    PROVE  Basics'
  <1>0. TypeOK
    BY DEF Basics
  <1>1. CASE Disconnect(u)
    <2>1. /\ inbox' \in [Users -> Seq(Event)] /\ stale' \in [Users -> SUBSET Ids]
          /\ online' \in [Users -> BOOLEAN] /\ drops' \in [Users -> 0..MaxDrops]
          /\ \A w \in Users : w # u => inbox'[w] = inbox[w]
          /\ inbox'[u] = <<>>
          /\ UNCHANGED <<rows, lastId, notes, job, replies, cache, load, reqs, overlapped, loads>>
      BY <1>0, <1>1, DisconnectDoes
    <2>2. TypeOK'
      BY <1>0, <2>1 DEF TypeOK
    <2>3. \A w \in Users : \A i \in DOMAIN inbox'[w] : inbox'[w][i].id <= lastId
      BY <2>1, BasicsLists, NothingDistinct
    <2> QED
      BY <2>1, <2>2, <2>3, BasicsLists, BasicsBrowsing
  <1>2. CASE Reconnect(u)
    <2>1. /\ online' \in [Users -> BOOLEAN]
          /\ UNCHANGED <<rows, lastId, notes, job, inbox, replies, cache, load, reqs, drops,
                         stale, overlapped, loads>>
      BY <1>0, <1>2, ReconnectDoes
    <2>2. TypeOK'
      BY <1>0, <2>1 DEF TypeOK
    <2> QED
      BY <2>1, <2>2, BasicsLists, BasicsBrowsing
  <1> QED
    BY <1>1, <1>2

-----------------------------------------------------------------------------
(* Steps seen from one message.                                            *)

\* Who works on m, and which answers about it are on their way, tells all that the
\* invariant asks of the handlers about m.
LEMMA Seen ==
    ASSUME NEW m
    PROVE  /\ Busy(m) <=> Working(m) # {} \/ Answers(m) # {}
           /\ Sending(m) <=> \E j \in Working(m) : job[j].op \in {"send", "forward"}
           /\ Removing(m) <=> \E j \in Working(m) : job[j].op = "delete" /\ job[j].at \in {"cleanup", "deliver"}
           /\ Editing(m) <=> \E j \in Working(m) : job[j].op = "edit" /\ job[j].at \in {"read", "deliver"}
           /\ \A u : Answering(u, m) <=> \E r \in Answers(m) : r.kind = "react" /\ r.to = u
           /\ \A u : Reacting(u, m) <=>
                 \/ Answering(u, m)
                 \/ \E j \in Working(m) : /\ job[j].op = "react"
                                          /\ job[j].at = "read" \/ (job[j].at = "deliver" /\ job[j].by # u)
           /\ \A u : Waiting(u, m) <=>
                 \/ Sending(m) \/ Answering(u, m)
                 \/ \E j \in Working(m) : job[j].op = "react" /\ job[j].by = u
  BY DEF Working, Answers, Busy, Sending, Removing, Editing, Answering, Reacting, Waiting

\* The same in the next state.
LEMMA SeenNext ==
    ASSUME NEW m
    PROVE  /\ Busy(m)' <=> Working(m)' # {} \/ Answers(m)' # {}
           /\ Sending(m)' <=> \E j \in Working(m)' : job'[j].op \in {"send", "forward"}
           /\ Removing(m)' <=> \E j \in Working(m)' : job'[j].op = "delete" /\ job'[j].at \in {"cleanup", "deliver"}
           /\ Editing(m)' <=> \E j \in Working(m)' : job'[j].op = "edit" /\ job'[j].at \in {"read", "deliver"}
           /\ \A u : Answering(u, m)' <=> \E r \in Answers(m)' : r.kind = "react" /\ r.to = u
           /\ \A u : Reacting(u, m)' <=>
                 \/ Answering(u, m)'
                 \/ \E j \in Working(m)' : /\ job'[j].op = "react"
                                           /\ job'[j].at = "read" \/ (job'[j].at = "deliver" /\ job'[j].by # u)
           /\ \A u : Waiting(u, m)' <=>
                 \/ Sending(m)' \/ Answering(u, m)'
                 \/ \E j \in Working(m)' : job'[j].op = "react" /\ job'[j].by = u
  BY DEF Working, Answers, Busy, Sending, Removing, Editing, Answering, Reacting, Waiting

\* A step that leaves the row, the handlers at work on it and the answers about it alone.
Same(m) ==
    /\ rows'[m] = rows[m]
    /\ Working(m)' = Working(m)
    /\ \A j \in Working(m) : job'[j] = job[j]
    /\ Answers(m)' = Answers(m)

\* Where nobody touched m, all that is said of it stays.
LEMMA SameKeeps ==
    ASSUME NEW m, Same(m)
    PROVE  /\ Busy(m)' <=> Busy(m)
           /\ Alone(m) => Alone(m)'
           /\ Holds(m) => Holds(m)'
           /\ Due(m)' <=> Due(m)
           /\ Editing(m)' <=> Editing(m)
           /\ \A u : Reacting(u, m)' <=> Reacting(u, m)
           /\ \A u : Waiting(u, m)' <=> Waiting(u, m)
  <1>1. /\ Sending(m)' <=> Sending(m)
        /\ Removing(m)' <=> Removing(m)
        /\ \A u : Answering(u, m)' <=> Answering(u, m)
    BY Seen, SeenNext DEF Same
  <1>2. Alone(m) => Alone(m)'
    BY DEF Same, Alone
  <1>3. Holds(m) => Holds(m)'
    BY DEF Same, Holds
  <1> QED
    BY <1>1, <1>2, <1>3, Seen, SeenNext DEF Same, Due

\* What a handler does concerns the row its request names.
LEMMA OthersSame ==
    ASSUME NEW j \in Slots, Only(j), NEW m, rows'[m] = rows[m], Answers(m)' = Answers(m),
           job[j].op = "idle" \/ job[j].id # m, job'[j].op = "idle" \/ job'[j].id # m
    PROVE  Same(m)
  BY DEF Same, Only, Working

\* A handler that is the only one at work on m.
LEMMA Single ==
    ASSUME NEW m, NEW j \in Working(m), Alone(m)
    PROVE  /\ Sending(m) <=> job[j].op \in {"send", "forward"}
           /\ Removing(m) <=> job[j].op = "delete" /\ job[j].at \in {"cleanup", "deliver"}
           /\ Editing(m) <=> job[j].op = "edit" /\ job[j].at \in {"read", "deliver"}
           /\ \A u : Reacting(u, m) <=>
                 \/ Answering(u, m)
                 \/ /\ job[j].op = "react"
                    /\ job[j].at = "read" \/ (job[j].at = "deliver" /\ job[j].by # u)
           /\ \A u : Waiting(u, m) <=>
                 \/ job[j].op \in {"send", "forward"} \/ Answering(u, m)
                 \/ job[j].op = "react" /\ job[j].by = u
           /\ \A u : Answering(u, m) => job[j].op = "react" /\ job[j].at = "deliver" /\ job[j].by = u
           /\ job[j].op # "react" \/ job[j].at # "deliver" => Answers(m) = {}
           /\ \A k \in Slots : job[k].op # "idle" /\ job[k].id = m => k = j
  <1>1. \A k \in Working(m) : k = j
    BY DEF Alone
  <1>2. \A r \in Answers(m) : job[j].op = "react" /\ job[j].at = "deliver" /\ job[j].by = r.to
    BY DEF Alone
  <1> QED
    BY <1>1, <1>2, Seen DEF Working

\* The same after a step, in which that handler has gone on, or is done.
LEMMA SingleNext ==
    ASSUME NEW m, NEW j \in Slots,
           \A k \in Slots : job'[k].op # "idle" /\ job'[k].id = m => k = j,
           job'[j].op = "idle" \/ job'[j].id = m
    PROVE  /\ Sending(m)' <=> job'[j].op \in {"send", "forward"}
           /\ Removing(m)' <=> job'[j].op = "delete" /\ job'[j].at \in {"cleanup", "deliver"}
           /\ Editing(m)' <=> job'[j].op = "edit" /\ job'[j].at \in {"read", "deliver"}
           /\ \A u : Reacting(u, m)' <=>
                 \/ Answering(u, m)'
                 \/ /\ job'[j].op = "react"
                    /\ job'[j].at = "read" \/ (job'[j].at = "deliver" /\ job'[j].by # u)
           /\ \A u : Waiting(u, m)' <=>
                 \/ job'[j].op \in {"send", "forward"} \/ Answering(u, m)'
                 \/ job'[j].op = "react" /\ job'[j].by = u
           /\ job'[j].op = "idle" => Working(m)' = {}
           /\ job'[j].op # "idle" => Working(m)' = {j}
  <1>1. /\ job'[j].op = "idle" => Working(m)' = {}
        /\ job'[j].op # "idle" => Working(m)' = {j}
    BY DEF Working
  <1> QED
    BY <1>1, SeenNext

\* What a handler that is alone on a row may do to it before it tells anybody: the
\* change it makes is marked as one that is still to be announced.
Steady(m) ==
    /\ Alone(m)' /\ Holds(m)'
    /\ Due(m)' <=> Due(m)
    /\ Editing(m) => Editing(m)'
    /\ Editing(m)' \/ rows'[m].content = rows[m].content
    /\ \A u \in Users : /\ Reacting(u, m) => Reacting(u, m)'
                        /\ Reacting(u, m)' \/ rows'[m].reacts = rows[m].reacts
                        /\ Waiting(u, m)' => Waiting(u, m)

\* Steps that read change nothing that the copies have to follow,
LEMMA ReadingSteady ==
    ASSUME Basics, NEW j \in Slots, Reading(j), NEW m, m = job[j].id, Alone(m), Holds(m)
    PROVE  Steady(m)
  <1> DEFINE x == job[j]
             y == job'[j]
  <1>0. TypeOK /\ Born /\ JobShape
    BY DEF Basics
  <1>1. /\ Only(j)
        /\ Advances(x, y, rows[m])
        /\ x.op # "idle"
        /\ UNCHANGED <<rows, replies>>
    BY <1>0, ReadingDoes
  <1>2. j \in Working(m)
    BY <1>1 DEF Working
  <1>3. \A k \in Slots : job[k].op # "idle" /\ job[k].id = m => k = j
    BY <1>2, Single
  <1>4. ~(x.op = "react" /\ x.at = "deliver")
    BY <1>1 DEF Advances
  <1>5. Answers(m) = {} /\ Answers(m)' = {} /\ \A u : ~Answering(u, m) /\ ~Answering(u, m)'
    BY <1>1, <1>2, <1>4, Single, Seen, SeenNext DEF Answers
  <1>6. x.id = m /\ IdleFacts
    BY IdleHas
  <1>7. y.op = "idle" \/ y.id = m
    BY <1>1, <1>6 DEF Advances, IdleFacts
  <1>8. \A k \in Slots : job'[k].op # "idle" /\ job'[k].id = m => k = j
    BY <1>1, <1>3 DEF Only
  <1>a. /\ Sending(m) <=> x.op \in {"send", "forward"}
        /\ Removing(m) <=> x.op = "delete" /\ x.at \in {"cleanup", "deliver"}
        /\ Editing(m) <=> x.op = "edit" /\ x.at \in {"read", "deliver"}
        /\ \A u : Reacting(u, m) <=> x.op = "react" /\ (x.at = "read" \/ (x.at = "deliver" /\ x.by # u))
        /\ \A u : Waiting(u, m) <=> x.op \in {"send", "forward"} \/ (x.op = "react" /\ x.by = u)
    BY <1>2, <1>5, Single
  <1>b. /\ Sending(m)' <=> y.op \in {"send", "forward"}
        /\ Removing(m)' <=> y.op = "delete" /\ y.at \in {"cleanup", "deliver"}
        /\ Editing(m)' <=> y.op = "edit" /\ y.at \in {"read", "deliver"}
        /\ \A u : Reacting(u, m)' <=> y.op = "react" /\ (y.at = "read" \/ (y.at = "deliver" /\ y.by # u))
        /\ \A u : Waiting(u, m)' <=> y.op \in {"send", "forward"} \/ (y.op = "react" /\ y.by = u)
        /\ y.op = "idle" => Working(m)' = {}
        /\ y.op # "idle" => Working(m)' = {j}
    <2>0. /\ job'[j].op = "idle" \/ job'[j].id = m
          /\ \A k \in Slots : job'[k].op # "idle" /\ job'[k].id = m => k = j
      BY <1>7, <1>8
    <2>1. /\ Sending(m)' <=> y.op \in {"send", "forward"}
          /\ Removing(m)' <=> y.op = "delete" /\ y.at \in {"cleanup", "deliver"}
          /\ Editing(m)' <=> y.op = "edit" /\ y.at \in {"read", "deliver"}
          /\ \A u : Reacting(u, m)' <=>
                \/ Answering(u, m)'
                \/ y.op = "react" /\ (y.at = "read" \/ (y.at = "deliver" /\ y.by # u))
          /\ \A u : Waiting(u, m)' <=>
                \/ y.op \in {"send", "forward"} \/ Answering(u, m)'
                \/ y.op = "react" /\ y.by = u
      BY <2>0, SingleNext
    <2>2. /\ y.op = "idle" => Working(m)' = {}
          /\ y.op # "idle" => Working(m)' = {j}
      BY <2>0 DEF Working
    <2> HIDE DEF y
    <2> QED
      BY <1>5, <2>1, <2>2
  <1>c. /\ x.op \in {"send", "forward"} =>
              /\ rows[m].state = "live" /\ rows[m].reacts = {}
              /\ x.at = "notify" => x.content = rows[m].content
        /\ x.op \in {"edit", "react", "pin"} /\ x.at # "check" => rows[m].state = "live"
        /\ x.op = "delete" /\ x.at \in {"cleanup", "deliver"} => rows[m].state = "deleted"
    BY <1>2 DEF Holds
  <1> HIDE DEF x, y
  <1>9. Alone(m)'
    BY <1>5, <1>b DEF Alone
  <1>10. Holds(m)'
    <2>1. /\ y.op \in {"send", "forward"} =>
                /\ rows[m].state = "live" /\ rows[m].reacts = {}
                /\ y.at = "notify" => y.content = rows[m].content
          /\ y.op \in {"edit", "react", "pin"} /\ y.at # "check" => rows[m].state = "live"
          /\ y.op = "edit" /\ y.at = "deliver" => y.content = rows[m].content
          /\ y.op = "react" /\ y.at = "deliver" => y.reacts = rows[m].reacts
          /\ y.op = "delete" /\ y.at = "write" => rows[m].state = "live"
          /\ y.op = "delete" /\ y.at \in {"cleanup", "deliver"} => rows[m].state = "deleted"
      BY <1>1, <1>6, <1>c DEF Advances, IdleFacts
    <2> QED
      BY <1>1, <1>5, <1>b, <2>1 DEF Holds, y
  <1>11. /\ Sending(m)' <=> Sending(m)
         /\ Removing(m)' <=> Removing(m)
         /\ Editing(m)' <=> Editing(m)
         /\ \A u : Reacting(u, m)' <=> Reacting(u, m)
         /\ \A u : Waiting(u, m)' => Waiting(u, m)
    BY <1>1, <1>6, <1>a, <1>b, <1>c DEF Advances, IdleFacts
  <1>12. Due(m)' <=> Due(m)
    BY <1>1, <1>11 DEF Due
  <1> QED
    BY <1>1, <1>9, <1>10, <1>11, <1>12 DEF Steady

\* ... the statement changes the row, and its handler will announce that,
LEMMA WriteSteady ==
    ASSUME Basics, NEW j \in Slots, Write(j), NEW m, m = job[j].id, Alone(m), Holds(m)
    PROVE  Steady(m)
  <1> DEFINE x == job[j]
             y == job'[j]
  <1>0. TypeOK /\ Born
    BY DEF Basics
  <1>1. /\ Only(j)
        /\ x.op \in {"edit", "delete", "react", "pin"} /\ x.at = "write"
        /\ y.op = x.op /\ y.by = x.by /\ y.id = m
        /\ y.at = IF x.op = "delete" THEN "cleanup" ELSE "read"
        /\ rows'[m].state = IF x.op = "delete" THEN "deleted" ELSE rows[m].state
        /\ x.op # "edit" => rows'[m].content = rows[m].content
        /\ x.op # "react" => rows'[m].reacts = rows[m].reacts
        /\ UNCHANGED replies
    BY <1>0, WriteDoes
  <1>2. j \in Working(m)
    BY <1>1 DEF Working
  <1>3. \A k \in Slots : job[k].op # "idle" /\ job[k].id = m => k = j
    BY <1>2, Single
  <1>4. Answers(m) = {} /\ \A u : ~Answering(u, m)
    BY <1>1, <1>2, Single, Seen
  <1>5. Answers(m) = {} /\ Answers(m)' = {} /\ \A u : ~Answering(u, m) /\ ~Answering(u, m)'
    <2>1. Answers(m)' = {}
      BY <1>1, <1>4 DEF Answers
    <2> QED
      BY <1>4, <2>1, SeenNext
  <1>8. \A k \in Slots : job'[k].op # "idle" /\ job'[k].id = m => k = j
    BY <1>1, <1>3 DEF Only
  <1>a. /\ Sending(m) <=> x.op \in {"send", "forward"}
        /\ Removing(m) <=> x.op = "delete" /\ x.at \in {"cleanup", "deliver"}
        /\ Editing(m) <=> x.op = "edit" /\ x.at \in {"read", "deliver"}
        /\ \A u : Reacting(u, m) <=> x.op = "react" /\ (x.at = "read" \/ (x.at = "deliver" /\ x.by # u))
        /\ \A u : Waiting(u, m) <=> x.op \in {"send", "forward"} \/ (x.op = "react" /\ x.by = u)
    BY <1>2, <1>5, Single
  <1>b. /\ Sending(m)' <=> y.op \in {"send", "forward"}
        /\ Removing(m)' <=> y.op = "delete" /\ y.at \in {"cleanup", "deliver"}
        /\ Editing(m)' <=> y.op = "edit" /\ y.at \in {"read", "deliver"}
        /\ \A u : Reacting(u, m)' <=> y.op = "react" /\ (y.at = "read" \/ (y.at = "deliver" /\ y.by # u))
        /\ \A u : Waiting(u, m)' <=> y.op \in {"send", "forward"} \/ (y.op = "react" /\ y.by = u)
        /\ Working(m)' = {j}
    BY <1>1, <1>5, <1>8, SingleNext
  <1>c. rows[m].state = "live"
    BY <1>1, <1>2 DEF Holds
  <1>9. Alone(m)'
    BY <1>5, <1>b DEF Alone
  <1>10. Holds(m)'
    BY <1>1, <1>5, <1>b, <1>c DEF Holds
  <1> HIDE DEF x, y
  <1>11. Due(m)' <=> Due(m)
    BY <1>1, <1>a, <1>b, <1>c DEF Due
  <1> QED
    BY <1>1, <1>9, <1>10, <1>11, <1>a, <1>b DEF Steady

\* ... the answer of a reaction is still to come,
LEMMA ReadReactionsSteady ==
    ASSUME Basics, NEW j \in Slots, ReadReactions(j), NEW m, m = job[j].id, Alone(m), Holds(m)
    PROVE  Steady(m)
  <1> DEFINE x == job[j]
             y == job'[j]
             r == [kind |-> "react", to |-> x.by, id |-> m, reacts |-> rows[m].reacts,
                   pinned |-> FALSE]
  <1>0. TypeOK /\ Born
    BY DEF Basics
  <1>1. /\ Only(j)
        /\ x.op = "react" /\ x.at = "read"
        /\ y.op = "react" /\ y.at = "deliver" /\ y.by = x.by /\ y.id = m
        /\ y.reacts = rows[m].reacts
        /\ replies' = replies \cup {r}
        /\ UNCHANGED rows
    BY <1>0, ReadReactionsDoes
  <1>r. r.id = m /\ r.to = x.by /\ r.kind = "react" /\ r.reacts = rows[m].reacts
    OBVIOUS
  <1> HIDE DEF r
  <1>2. j \in Working(m)
    BY <1>1 DEF Working
  <1>3. \A k \in Slots : job[k].op # "idle" /\ job[k].id = m => k = j
    BY <1>2, Single
  <1>5. Answers(m) = {} /\ \A u : ~Answering(u, m)
    BY <1>1, <1>2, Single, Seen
  <1>6. Answers(m)' = {r}
    BY <1>1, <1>r, <1>5 DEF Answers
  <1>7. \A u : Answering(u, m)' <=> u = x.by
    BY <1>r, <1>6, SeenNext
  <1>8. \A k \in Slots : job'[k].op # "idle" /\ job'[k].id = m => k = j
    BY <1>1, <1>3 DEF Only
  <1>a. /\ ~Sending(m) /\ ~Removing(m) /\ ~Editing(m)
        /\ \A u : Waiting(u, m) <=> x.by = u
    BY <1>1, <1>2, <1>5, Single
  <1>b. /\ ~Sending(m)' /\ ~Removing(m)'
        /\ \A u : Reacting(u, m)'
        /\ \A u : Waiting(u, m)' <=> x.by = u
        /\ Working(m)' = {j}
    BY <1>1, <1>7, <1>8, SingleNext
  <1>c. rows[m].state = "live"
    BY <1>1, <1>2 DEF Holds
  <1>9. Alone(m)'
    BY <1>1, <1>r, <1>6, <1>b DEF Alone
  <1>10. Holds(m)'
    BY <1>1, <1>r, <1>6, <1>b, <1>c DEF Holds
  <1>11. Due(m)' <=> Due(m)
    BY <1>1, <1>a, <1>b DEF Due
  <1> QED
    BY <1>1, <1>9, <1>10, <1>11, <1>a, <1>b DEF Steady

\* ... and a pin is announced to nobody.
LEMMA ReadPinnedSteady ==
    ASSUME Basics, NEW j \in Slots, ReadPinned(j), NEW m, m = job[j].id, Alone(m), Holds(m)
    PROVE  Steady(m)
  <1> DEFINE x == job[j]
             y == job'[j]
  <1>0. TypeOK /\ Born
    BY DEF Basics
  <1>1. /\ Only(j)
        /\ x.op = "pin" /\ x.at = "read" /\ y = Idle
        /\ \/ replies' = replies
           \/ \E r \in Reply : r.kind = "pin" /\ r.id = m /\ replies' = replies \cup {r}
        /\ UNCHANGED rows
    BY <1>0, ReadPinnedDoes
  <1>i. y.op = "idle"
    BY <1>1, IdleHas DEF IdleFacts
  <1>2. j \in Working(m)
    BY <1>1 DEF Working
  <1>3. \A k \in Slots : job[k].op # "idle" /\ job[k].id = m => k = j
    BY <1>2, Single
  <1>5. Answers(m) = {} /\ \A u : ~Answering(u, m)
    BY <1>1, <1>2, Single, Seen
  <1>6. /\ \A r, s \in Answers(m)' : r = s
        /\ \A r \in Answers(m)' : r.kind = "pin"
    BY <1>1, <1>5 DEF Answers
  <1>7. \A u : ~Answering(u, m)'
    BY <1>6, SeenNext
  <1>8. \A k \in Slots : job'[k].op # "idle" /\ job'[k].id = m => k = j
    BY <1>1, <1>3 DEF Only
  <1>a. /\ ~Sending(m) /\ ~Removing(m) /\ ~Editing(m)
        /\ \A u : ~Reacting(u, m)
    BY <1>1, <1>2, <1>5, Single
  <1>b. /\ ~Sending(m)' /\ ~Removing(m)'
        /\ \A u : ~Waiting(u, m)'
        /\ Working(m)' = {}
    BY <1>i, <1>7, <1>8, SingleNext
  <1>9. Alone(m)'
    BY <1>6, <1>b DEF Alone
  <1>10. Holds(m)'
    BY <1>6, <1>b DEF Holds
  <1>11. Due(m)' <=> Due(m)
    BY <1>1, <1>a, <1>b DEF Due
  <1> QED
    BY <1>1, <1>9, <1>10, <1>11, <1>a, <1>b DEF Steady

\* A handler at work on a stored row, up to its broadcast.
Handling(j) == \/ Reading(j) \/ Write(j) \/ ReadReactions(j) \/ ReadPinned(j) \/ Telling(j)
               \/ GiveUpLate(j)

\* A handler touches its own message only.
LEMMA HandlingDoes ==
    ASSUME Basics, NEW j \in Slots, Handling(j)
    PROVE  LET c == job[j].id IN
           /\ j \in Working(c) /\ c \in Ids
           /\ UNCHANGED <<lastId, cache, load, online>>
           /\ overlapped \subseteq overlapped'
           /\ \A u \in Users : stale[u] \subseteq stale'[u]
           /\ \A m \in Ids : m # c => Same(m)
           /\ \A u \in Users : \A m \in Ids : m # c => Alike(inbox[u], inbox'[u], m)
  <1> DEFINE x == job[j]
             y == job'[j]
             c == x.id
  <1>0. TypeOK /\ Born /\ JobShape /\ inbox \in [Users -> Seq(Event)]
    BY DEF Basics, TypeOK
  <1>i. Idle.op = "idle"
    BY IdleHas DEF IdleFacts
  <1>1. /\ x.op # "idle" /\ c \in 1..lastId
        /\ Only(j)
        /\ y.op = "idle" \/ y.id = c
        /\ \A m \in Ids : m # c => rows'[m] = rows[m] /\ Answers(m)' = Answers(m)
        /\ UNCHANGED <<lastId, cache, load, online>>
        /\ overlapped \subseteq overlapped'
        /\ \A u \in Users : stale[u] \subseteq stale'[u]
        /\ \A u \in Users : \A m \in Ids : m # c => Alike(inbox[u], inbox'[u], m)
    <2>1. CASE Reading(j)
      <3>1. /\ Only(j)
            /\ c \in 1..lastId
            /\ Advances(x, y, rows[c])
            /\ x.op # "idle"
            /\ UNCHANGED <<rows, lastId, inbox, replies, cache, load, online, reqs, drops, stale, loads>>
            /\ overlapped \subseteq overlapped'
        BY <1>0, <2>1, ReadingDoes
      <3>2. y.op = "idle" \/ y.id = c
        BY <1>i, <3>1 DEF Advances
      <3> QED
        BY <3>1, <3>2 DEF Answers, Alike
    <2>2. CASE Write(j)
      <3>1. /\ Only(j)
            /\ c \in 1..lastId
            /\ x.op \in {"edit", "delete", "react", "pin"}
            /\ y.id = c
            /\ \A k \in Ids : k # c => rows'[k] = rows[k]
            /\ UNCHANGED <<lastId, notes, inbox, replies, cache, load, online, reqs, drops,
                           stale, overlapped, loads>>
        BY <1>0, <2>2, WriteDoes
      <3> QED
        BY <3>1 DEF Answers, Alike
    <2>3. CASE ReadReactions(j)
      <3> DEFINE r == [kind |-> "react", to |-> x.by, id |-> c, reacts |-> rows[c].reacts,
                       pinned |-> FALSE]
      <3>1. /\ Only(j)
            /\ c \in 1..lastId
            /\ x.op = "react"
            /\ y.id = c
            /\ replies' = replies \cup {r}
            /\ UNCHANGED <<rows, lastId, notes, inbox, cache, load, online, reqs, drops,
                           stale, overlapped, loads>>
        BY <1>0, <2>3, ReadReactionsDoes
      <3>2. r.id = c
        OBVIOUS
      <3> HIDE DEF r
      <3> QED
        BY <3>1, <3>2 DEF Answers, Alike
    <2>4. CASE ReadPinned(j)
      <3>1. /\ Only(j)
            /\ c \in 1..lastId
            /\ x.op = "pin" /\ y = Idle
            /\ \/ replies' = replies
               \/ \E r \in Reply : r.kind = "pin" /\ r.id = c /\ replies' = replies \cup {r}
            /\ UNCHANGED <<rows, lastId, notes, inbox, cache, load, online, reqs, drops,
                           stale, overlapped, loads>>
        BY <1>0, <2>4, ReadPinnedDoes
      <3> QED
        BY <1>i, <3>1 DEF Answers, Alike
    <2>5. CASE Telling(j)
      <3>1. /\ Only(j) /\ y = Idle
            /\ c \in 1..lastId
            /\ UNCHANGED <<rows, lastId, notes, replies, cache, load, online, reqs, drops,
                           overlapped, loads>>
        BY <1>0, <2>5, TellingDoes
      <3>2. PICK kind \in {"add", "update", "delete", "reacts"}, audience \in SUBSET Users :
               Announces(x, kind, audience) /\ Tells(j, kind, audience)
        BY <1>0, <2>5, TellingDoes
      <3> DEFINE e == [kind |-> kind, id |-> x.id, content |-> x.content, reacts |-> x.reacts]
      <3>3. /\ e \in Event
            /\ \A u \in Users : inbox'[u] = inbox[u] \/ inbox'[u] = Put(inbox[u], e)
            /\ \A u \in Users : stale[u] \subseteq stale'[u]
        BY <3>2 DEF Tells
      <3>4. e.id = c
        OBVIOUS
      <3>5. x.op # "idle"
        BY <3>2 DEF Announces
      <3> HIDE DEF e, x, c
      <3>6. ASSUME NEW u \in Users, NEW m \in Ids, m # c PROVE Alike(inbox[u], inbox'[u], m)
        <4>1. inbox[u] \in Seq(Event)
          BY <1>0
        <4>2. Alike(inbox[u], Put(inbox[u], e), m)
          BY <3>3, <3>4, <3>6, <4>1, AnnouncedOther
        <4> QED
          BY <3>3, <4>2 DEF Alike
      <3> QED
        BY <1>i, <3>1, <3>3, <3>5, <3>6 DEF Answers
    <2>6. CASE GiveUpLate(j)
      <3>1. /\ Only(j) /\ y = Idle
            /\ c \in 1..lastId
            /\ x.op # "idle"
            /\ \A u \in Users : stale[u] \subseteq stale'[u]
            /\ UNCHANGED <<rows, lastId, notes, inbox, replies, cache, load, online, reqs, drops,
                           overlapped, loads>>
        BY <1>0, <2>6, LosingDoes
      <3> QED
        BY <1>i, <3>1 DEF Answers, Alike
    <2> QED
      BY <2>1, <2>2, <2>3, <2>4, <2>5, <2>6 DEF Handling
  <1> HIDE DEF y
  <1>2. c \in Ids
    BY <1>0, <1>1, ChatAssumption DEF TypeOK, Ids
  <1>3. ASSUME NEW m \in Ids, m # c PROVE Same(m)
    BY <1>1, <1>3, OthersSame DEF y
  <1>4. j \in Working(c)
    BY <1>1 DEF Working
  <1> QED
    BY <1>1, <1>2, <1>3, <1>4

\* The end of a broadcast: whoever was alone on the row is not there any more.
LEMMA TellingEnds ==
    ASSUME Basics, NEW j \in Slots, Telling(j), NEW m, m = job[j].id, Alone(m), Holds(m)
    PROVE  /\ Alone(m)' /\ Holds(m)'
           /\ ~Sending(m)' /\ ~Removing(m)' /\ ~Editing(m)'
           /\ \A u : Reacting(u, m)' <=> Answering(u, m)
           /\ \A u : Waiting(u, m)' <=> Answering(u, m)
  <1>0. TypeOK /\ Born
    BY DEF Basics
  <1>i. Idle.op = "idle"
    BY IdleHas DEF IdleFacts
  <1>1. /\ Only(j) /\ job'[j] = Idle
        /\ UNCHANGED <<rows, replies>>
    BY <1>0, TellingDoes
  <1>2. j \in Working(m)
    <2>1. job[j].op # "idle"
      BY DEF Telling, DeliverMessage, DeliverForward, DeliverEdit, DeliverDelete, DeliverReactions
    <2> QED
      BY <2>1 DEF Working
  <1>3. \A k \in Slots : job[k].op # "idle" /\ job[k].id = m => k = j
    BY <1>2, Single
  <1>4. \A k \in Slots : job'[k].op # "idle" /\ job'[k].id = m => k = j
    BY <1>1, <1>3 DEF Only
  <1>5. Working(m)' = {} /\ Answers(m)' = Answers(m)
    BY <1>1, <1>i, <1>4 DEF Working, Answers
  <1>6. Alone(m)' /\ Holds(m)'
    BY <1>1, <1>5 DEF Alone, Holds
  <1> QED
    BY <1>5, <1>6, Seen, SeenNext

\* ... nor is who fails before the broadcast.
LEMMA LosingEnds ==
    ASSUME Basics, NEW j \in Slots, GiveUpLate(j), NEW m, m = job[j].id, Alone(m), Holds(m)
    PROVE  Alone(m)' /\ Holds(m)'
  <1>i. Idle.op = "idle"
    BY IdleHas DEF IdleFacts
  <1>1. /\ Only(j) /\ job'[j] = Idle /\ job[j].op # "idle"
        /\ UNCHANGED <<rows, replies>>
    BY LosingDoes DEF Basics
  <1>2. j \in Working(m)
    BY <1>1 DEF Working
  <1>3. \A k \in Slots : job[k].op # "idle" /\ job[k].id = m => k = j
    BY <1>2, Single
  <1>4. \A k \in Slots : job'[k].op # "idle" /\ job'[k].id = m => k = j
    BY <1>1, <1>3 DEF Only
  <1>5. Working(m)' = {} /\ Answers(m)' = Answers(m)
    BY <1>1, <1>i, <1>4 DEF Working, Answers
  <1> QED
    BY <1>1, <1>5 DEF Alone, Holds

\* OneAtATime is kept by the handlers,
LEMMA OneHandling ==
    ASSUME Basics, OneAtATime, NEW j \in Slots, Handling(j)
    PROVE  OneAtATime'
  <1> DEFINE c == job[j].id
  <1>1. /\ j \in Working(c) /\ c \in Ids
        /\ overlapped \subseteq overlapped'
        /\ \A u \in Users : stale[u] \subseteq stale'[u]
        /\ \A m \in Ids : m # c => Same(m)
    BY HandlingDoes
  <1>2. ASSUME NEW m \in Ids, Clean(m)' PROVE Alone(m)' /\ Holds(m)'
    <2>1. Alone(m) /\ Holds(m)
      <3>1. Clean(m)
        BY <1>1, <1>2 DEF Clean
      <3> QED
        BY <3>1 DEF OneAtATime
    <2>2. CASE m # c
      BY <1>1, <2>1, <2>2, SameKeeps
    <2>3. CASE m = c
      <3>1. Steady(m) => Alone(m)' /\ Holds(m)'
        BY DEF Steady
      <3>2. CASE Telling(j)
        BY <2>1, <2>3, <3>2, TellingEnds
      <3>3. CASE GiveUpLate(j)
        BY <2>1, <2>3, <3>3, LosingEnds
      <3> QED
        BY <2>1, <2>3, <3>1, <3>2, <3>3, ReadingSteady, WriteSteady, ReadReactionsSteady, ReadPinnedSteady
           DEF Handling
    <2> QED
      BY <2>2, <2>3
  <1> QED
    BY <1>2 DEF OneAtATime

\* A row is stored in a step that nobody else can have a hand in.
LEMMA InsertAt ==
    ASSUME Basics, NEW j \in Slots, Insert(j), NEW c, c = lastId + 1
    PROVE  /\ c \in Ids
           /\ Alone(c)' /\ Holds(c)'
           /\ ~Due(c) /\ ~Due(c)'
           /\ \A u \in Users : On(inbox[u], c) = {}
           /\ \A m \in Ids : m # c => Same(m)
  <1> DEFINE y == job'[j]
  <1>0. TypeOK /\ Born /\ Room /\ JobShape
    BY DEF Basics
  <1>1. /\ Only(j)
        /\ c = lastId + 1 /\ c \in Ids /\ lastId \in Nat
        /\ job[j].op \in {"send", "forward"} /\ job[j].at = "insert"
        /\ y.op = job[j].op /\ y.at = "fetch" /\ y.id = c
        /\ rows'[c].state = "live" /\ rows'[c].reacts = {}
        /\ \A m \in Ids : m # c => rows'[m] = rows[m]
        /\ UNCHANGED <<inbox, replies>>
    <2>1. /\ lastId' = lastId + 1 /\ lastId' \in Ids /\ lastId \in Nat
          /\ job'[j].id = lastId' /\ rows'[lastId'].state = "live" /\ rows'[lastId'].reacts = {}
          /\ \A m \in Ids : m # lastId' => rows'[m] = rows[m]
      BY <1>0, InsertDoes
    <2>2. /\ Only(j)
          /\ job[j].op \in {"send", "forward"} /\ job[j].at = "insert"
          /\ y.op = job[j].op /\ y.at = "fetch"
          /\ UNCHANGED <<inbox, replies>>
      BY <1>0, InsertDoes
    <2>3. c = lastId'
      BY <2>1
    <2> QED
      BY <2>1, <2>2, <2>3
  <1>2. \A k \in Slots : ~(job[k].op # "idle" /\ job[k].id = c)
    <2>1. \A k \in Slots : job[k].op # "idle" => job[k].id \in 1..lastId \/ job[k].id = 0
      BY <1>0 DEF Born
    <2>2. c \notin 1..lastId /\ c # 0
      BY <1>1
    <2> QED
      BY <2>1, <2>2
  <1>3. Answers(c) = {} /\ Answers(c)' = {}
    <2>1. \A r \in replies : r.id <= lastId
      BY <1>0 DEF Born
    <2>2. ~(c <= lastId)
      BY <1>1
    <2> QED
      BY <1>1, <2>1, <2>2 DEF Answers
  <1>4. \A u \in Users : On(inbox[u], c) = {}
    <2>1. \A u \in Users : \A i \in DOMAIN inbox[u] : inbox[u][i].id <= lastId
      BY <1>0 DEF Born
    <2>2. ~(c <= lastId)
      BY <1>1
    <2> QED
      BY <2>1, <2>2 DEF On
  <1>5. Working(c)' = {j} /\ Working(c) = {}
    BY <1>1, <1>2 DEF Working, Only
  <1>6. Alone(c)'
    BY <1>3, <1>5 DEF Alone
  <1>7. Holds(c)'
    BY <1>1, <1>3, <1>5 DEF Holds
  <1>8. ~Due(c)
    <2>1. rows[c].state = "none"
      BY <1>0, <1>1 DEF Born
    <2>2. ~Removing(c)
      BY <1>5, Seen
    <2> QED
      BY <2>1, <2>2 DEF Due
  <1>9. ~Due(c)'
    <2>1. Sending(c)' /\ ~Removing(c)'
      BY <1>1, <1>5, SeenNext
    <2> QED
      BY <2>1 DEF Due
  <1>10. ASSUME NEW m \in Ids, m # c PROVE Same(m)
    <2>1. rows'[m] = rows[m] /\ Answers(m)' = Answers(m)
      BY <1>1, <1>10 DEF Answers
    <2>2. job[j].id # m
      BY <1>0, <1>1, ChatAssumption DEF Born, Ids
    <2> QED
      BY <1>1, <1>10, <2>1, <2>2, OthersSame
  <1> QED
    BY <1>1, <1>4, <1>6, <1>7, <1>8, <1>9, <1>10

\* ... by the new row,
LEMMA OneInsert ==
    ASSUME Basics, OneAtATime, NEW j \in Slots, Insert(j)
    PROVE  OneAtATime'
  <1>1. UNCHANGED <<stale, overlapped>>
    BY DEF Insert
  <1>2. ASSUME NEW m \in Ids, Clean(m)' PROVE Alone(m)' /\ Holds(m)'
    <2>1. Alone(m) /\ Holds(m)
      BY <1>1, <1>2 DEF OneAtATime, Clean
    <2>2. CASE m # lastId + 1
      BY <2>1, <2>2, InsertAt, SameKeeps
    <2>3. CASE m = lastId + 1
      BY <2>3, InsertAt
    <2> QED
      BY <2>2, <2>3
  <1> QED
    BY <1>2 DEF OneAtATime

\* A request about m finds m at peace, unless it is marked from then on.
LEMMA AskingAt ==
    ASSUME Basics, NEW j \in Slots, NEW u \in Users, NEW c \in Ids, Asking(j, u, c)
    PROVE  /\ \A m \in Ids : m # c => Same(m)
           /\ ~Busy(c) => /\ Alone(c)' /\ Holds(c)'
                          /\ Due(c)' <=> Due(c)
                          /\ ~Editing(c)
                          /\ \A w : ~Reacting(w, c)
                          /\ \A w : Waiting(w, c)' => w = u /\ job'[j].op = "react"
  <1> DEFINE y == job'[j]
  <1>0. TypeOK /\ Born /\ Idle.op = "idle"
    BY IdleHas DEF Basics, IdleFacts
  <1>1. /\ Only(j) /\ job[j] = Idle
        /\ y.op \in {"edit", "delete", "react", "pin"} /\ y.at = "check"
        /\ y.id = c /\ y.by = u
        /\ UNCHANGED <<rows, replies>>
    BY <1>0, AskingDoes
  <1>2. ASSUME NEW m \in Ids, m # c PROVE Same(m)
    <2>1. Answers(m)' = Answers(m)
      BY <1>1 DEF Answers
    <2> QED
      BY <1>0, <1>1, <1>2, <2>1, OthersSame
  <1>3. ASSUME ~Busy(c)
        PROVE  /\ Alone(c)' /\ Holds(c)'
               /\ Due(c)' <=> Due(c)
               /\ ~Editing(c)
               /\ \A w : ~Reacting(w, c)
               /\ \A w : Waiting(w, c)' => w = u /\ job'[j].op = "react"
    <2>1. Working(c) = {} /\ Answers(c) = {}
      BY <1>3, Seen
    <2>2. Answers(c)' = {}
      BY <1>1, <2>1 DEF Answers
    <2>3. Working(c)' = {j}
      BY <1>1, <2>1 DEF Working, Only
    <2>4. Alone(c)'
      BY <2>2, <2>3 DEF Alone
    <2>5. Holds(c)'
      BY <1>1, <2>2, <2>3 DEF Holds
    <2>6. ~Sending(c) /\ ~Removing(c) /\ ~Editing(c) /\ \A w : ~Reacting(w, c)
      BY <2>1, Seen
    <2>7. ~Sending(c)' /\ ~Removing(c)' /\ \A w : Waiting(w, c)' => w = u /\ y.op = "react"
      BY <1>1, <2>2, <2>3, SeenNext
    <2> QED
      BY <1>1, <2>4, <2>5, <2>6, <2>7 DEF Due
  <1> QED
    BY <1>2, <1>3

\* ... by a request, which makes the row unclean if anybody is at work on it,
LEMMA OneAsking ==
    ASSUME Basics, OneAtATime, NEW j \in Slots, NEW u \in Users, NEW c \in Ids, Asking(j, u, c)
    PROVE  OneAtATime'
  <1>0. TypeOK /\ Born
    BY DEF Basics
  <1>1. /\ \A w \in Users : stale[w] \subseteq stale'[w] /\ (Busy(c) => c \in stale'[w])
        /\ overlapped \subseteq overlapped'
        /\ Busy(c) => c \in overlapped'
    BY <1>0, AskingDoes
  <1>2. ASSUME NEW m \in Ids, Clean(m)' PROVE Alone(m)' /\ Holds(m)'
    <2>1. Alone(m) /\ Holds(m)
      BY <1>1, <1>2 DEF OneAtATime, Clean
    <2>2. CASE m # c
      BY <2>1, <2>2, AskingAt, SameKeeps
    <2>3. CASE m = c
      <3>1. ~Busy(c)
        BY <1>1, <1>2, <2>3 DEF Clean
      <3> QED
        BY <2>3, <3>1, AskingAt
    <2> QED
      BY <2>2, <2>3
  <1> QED
    BY <1>2 DEF OneAtATime

\* A request for a message that has no number yet concerns no row.
LEMMA RequestNewAt ==
    ASSUME Basics, NEW j \in Slots, NEW u \in Users, NEW op \in {"send", "forward"},
           RequestNew(j, u, op)
    PROVE  /\ \A m \in Ids : Same(m)
           /\ UNCHANGED <<lastId, inbox, cache, load, stale, overlapped>>
  <1>0. TypeOK /\ Room /\ Idle.op = "idle"
    BY IdleHas DEF Basics, IdleFacts
  <1>1. /\ Only(j) /\ job[j] = Idle /\ job'[j].id = 0
        /\ UNCHANGED <<rows, lastId, replies, inbox, cache, load, stale, overlapped>>
    BY <1>0, RequestNewDoes
  <1>2. ASSUME NEW m \in Ids PROVE Same(m)
    <2>1. Answers(m)' = Answers(m) /\ m # 0
      BY <1>1, ChatAssumption DEF Answers, Ids
    <2> QED
      BY <1>0, <1>1, <2>1, OthersSame
  <1> QED
    BY <1>1, <1>2

\* The steps of the browsers leave the handlers and the rows alone.
LEMMA BrowsingSame ==
    ASSUME UNCHANGED <<rows, job, replies>>, NEW m
    PROVE  Same(m)
  BY DEF Same, Working, Answers

\* ... by the browser: a load that makes a row clean again saw nobody at work on it,
LEMMA OneBrowsing ==
    ASSUME Basics, OneAtATime, LoadFresh, NEW u \in Users, Browse(u)
    PROVE  OneAtATime'
  <1>0. TypeOK /\ Born
    BY DEF Basics
  <1>1. UNCHANGED <<rows, job, replies, overlapped>>
    BY DEF Browse, Receive, Open, ReadRows, LoadArrives, LoadFails, Disconnect, Reconnect
  <1>2. ASSUME NEW m \in Ids, Clean(m)' PROVE Alone(m) /\ Holds(m)
    <2>1. CASE LoadArrives(u)
      <3>1. /\ load[u].at = "answered" /\ stale'[u] = load[u].touched
            /\ \A w \in Users : w # u => stale'[w] = stale[w]
        BY <1>0, <2>1, LoadArrivesDoes
      <3>2. CASE Clean(m)
        BY <3>2 DEF OneAtATime
      <3>3. CASE ~Clean(m)
        <4>1. m \notin load[u].touched
          BY <1>1, <1>2, <3>1, <3>3 DEF Clean
        <4>2. ~Busy(m)
          BY <3>1, <4>1 DEF LoadFresh
        <4>3. Working(m) = {} /\ Answers(m) = {}
          BY <4>2, Seen
        <4> QED
          BY <4>3 DEF Alone, Holds
      <3> QED
        BY <3>2, <3>3
    <2>2. CASE ~LoadArrives(u)
      <3>1. \A w \in Users : stale[w] \subseteq stale'[w]
        <4>1. CASE Disconnect(u)
          BY <1>0, <4>1, DisconnectDoes
        <4>2. CASE ~Disconnect(u)
          BY <2>2, <4>2 DEF Browse, Receive, Open, ReadRows, LoadFails, Reconnect
        <4> QED
          BY <4>1, <4>2
      <3>2. Clean(m)
        BY <1>1, <1>2, <3>1 DEF Clean
      <3> QED
        BY <3>2 DEF OneAtATime
    <2> QED
      BY <2>1, <2>2
  <1>3. \A m \in Ids : Same(m)
    BY <1>1, BrowsingSame
  <1> QED
    BY <1>2, <1>3, SameKeeps DEF OneAtATime

\* An answer that arrives: one less about its row.
LEMMA ReplyAt ==
    ASSUME Basics, NEW r \in replies, ReplyArrives(r)
    PROVE  /\ \A m \in Ids : m # r.id => Same(m)
           /\ \A m \in Ids : /\ Alone(m) => Alone(m)'
                             /\ Holds(m) => Holds(m)'
                             /\ Busy(m)' => Busy(m)
                             /\ Due(m)' <=> Due(m)
                             /\ Editing(m)' <=> Editing(m)
                             /\ \A u : Waiting(u, m)' => Waiting(u, m)
                             /\ \A u : u # r.to \/ r.kind = "pin" => (Reacting(u, m)' <=> Reacting(u, m))
  <1>0. TypeOK /\ Born
    BY DEF Basics
  <1>1. replies' = replies \ {r} /\ UNCHANGED <<rows, job>>
    BY <1>0, ReplyArrivesDoes
  <1>2. ASSUME NEW m \in Ids
        PROVE  /\ Working(m)' = Working(m) /\ Answers(m)' = Answers(m) \ {r}
               /\ m # r.id => Same(m)
    BY <1>1 DEF Working, Answers, Same
  <1>3. ASSUME NEW m \in Ids
        PROVE  /\ Alone(m) => Alone(m)'
               /\ Holds(m) => Holds(m)'
               /\ Busy(m)' => Busy(m)
               /\ Due(m)' <=> Due(m)
               /\ Editing(m)' <=> Editing(m)
               /\ \A u : Waiting(u, m)' => Waiting(u, m)
               /\ \A u : u # r.to \/ r.kind = "pin" => (Reacting(u, m)' <=> Reacting(u, m))
    <2>1. Alone(m) => Alone(m)'
      BY <1>1, <1>2 DEF Alone
    <2>2. Holds(m) => Holds(m)'
      BY <1>1, <1>2 DEF Holds
    <2>3. Busy(m)' => Busy(m)
      BY <1>1 DEF Busy
    <2>4. (Sending(m)' <=> Sending(m)) /\ (Removing(m)' <=> Removing(m)) /\ (Editing(m)' <=> Editing(m))
      BY <1>1 DEF Sending, Removing, Editing
    <2>5. \A u : /\ Answering(u, m)' => Answering(u, m)
                 /\ u # r.to \/ r.kind = "pin" => (Answering(u, m)' <=> Answering(u, m))
      BY <1>1 DEF Answering
    <2>6. \A u : Waiting(u, m)' => Waiting(u, m)
      BY <1>1, <2>4, <2>5 DEF Waiting
    <2>7. \A u : u # r.to \/ r.kind = "pin" => (Reacting(u, m)' <=> Reacting(u, m))
      BY <1>1, <2>5 DEF Reacting
    <2> QED
      BY <1>1, <2>1, <2>2, <2>3, <2>4, <2>6, <2>7 DEF Due
  <1> QED
    BY <1>2, <1>3

\* ... and by the answers.
LEMMA OneReply ==
    ASSUME Basics, OneAtATime, NEW r \in replies, ReplyArrives(r)
    PROVE  OneAtATime'
  <1>1. UNCHANGED <<stale, overlapped>>
    BY DEF ReplyArrives
  <1> QED
    BY <1>1, ReplyAt DEF OneAtATime, Clean

-----------------------------------------------------------------------------
(* A load and the changes of its rows.                                     *)

\* The queue of u speaks of m.
LEMMA QueuedOn ==
    ASSUME NEW u, NEW m
    PROVE  /\ Queued(u, m) <=> On(inbox[u], m) # {}
           /\ Queued(u, m)' <=> On(inbox'[u], m) # {}
  BY DEF Queued, On

\* A step that leaves m alone leaves a load of it as good as it was.
LEMMA LoadKept ==
    ASSUME LoadFresh, NEW u \in Users, NEW m \in Ids, Same(m),
           load'[u].at = load[u].at, load'[u].rows = load[u].rows,
           load[u].touched \subseteq load'[u].touched,
           On(inbox[u], m) = {} => On(inbox'[u], m) = {},
           load'[u].at # "none", m \notin load'[u].touched
    PROVE  /\ ~Busy(m)' /\ ~Queued(u, m)'
           /\ load'[u].at = "answered" => Brings(load[u].rows, m)'
  <1>1. /\ ~Busy(m) /\ ~Queued(u, m)
        /\ load[u].at = "answered" => Brings(load[u].rows, m)
    BY DEF LoadFresh
  <1>2. ~Busy(m)' /\ ~Queued(u, m)'
    BY <1>1, SameKeeps, QueuedOn
  <1>3. Brings(load[u].rows, m) => Brings(load[u].rows, m)'
    BY DEF Same, Brings
  <1> QED
    BY <1>1, <1>2, <1>3

\* A handler is at work on a row that every load under way counts as touched.
LEMMA LoadHandling ==
    ASSUME Basics, LoadFresh, NEW j \in Slots, Handling(j)
    PROVE  LoadFresh'
  <1> DEFINE c == job[j].id
  <1>1. /\ j \in Working(c) /\ c \in Ids /\ load' = load
        /\ \A m \in Ids : m # c => Same(m)
        /\ \A u \in Users : \A m \in Ids : m # c => Alike(inbox[u], inbox'[u], m)
    BY HandlingDoes
  <1>2. Busy(c)
    BY <1>1, Seen
  <1> HIDE DEF c
  <1>3. ASSUME NEW u \in Users, NEW m \in Ids, load'[u].at # "none", m \notin load'[u].touched
        PROVE  /\ ~Busy(m)' /\ ~Queued(u, m)'
               /\ load'[u].at = "answered" => Brings(load[u].rows, m)'
    <2>1. m # c
      BY <1>1, <1>2, <1>3 DEF LoadFresh
    <2> QED
      BY <1>1, <1>3, <2>1, LoadKept DEF Alike
  <1> QED
    BY <1>1, <1>3 DEF LoadFresh

\* Who begins to work on a row touches it in every load under way.
LEMMA LoadTouched ==
    ASSUME Basics, LoadFresh, NEW c \in Ids, Touch(c), UNCHANGED inbox,
           \A m \in Ids : m # c => Same(m)
    PROVE  LoadFresh'
  <1>1. \A u \in Users :
           /\ load'[u].at = load[u].at /\ load'[u].rows = load[u].rows
           /\ load[u].touched \subseteq load'[u].touched
           /\ load[u].at # "none" => c \in load'[u].touched
    BY TouchDoes DEF Basics
  <1>2. ASSUME NEW u \in Users, NEW m \in Ids, load'[u].at # "none", m \notin load'[u].touched
        PROVE  /\ ~Busy(m)' /\ ~Queued(u, m)'
               /\ load'[u].at = "answered" => Brings(load[u].rows, m)'
    <2>1. m # c
      BY <1>1, <1>2
    <2> QED
      BY <1>1, <1>2, <2>1, LoadKept
  <1> QED
    BY <1>2 DEF LoadFresh

\* A new row does,
LEMMA LoadInsert ==
    ASSUME Basics, LoadFresh, NEW j \in Slots, Insert(j)
    PROVE  LoadFresh'
  <1> DEFINE c == lastId + 1
  <1>1. c \in Ids /\ \A m \in Ids : m # c => Same(m)
    BY InsertAt
  <1>2. Touch(c) /\ UNCHANGED inbox
    BY DEF Insert
  <1> HIDE DEF c
  <1> QED
    BY <1>1, <1>2, LoadTouched

\* ... and a request about a row does.
LEMMA LoadRequest ==
    ASSUME Basics, LoadFresh, NEW u \in Users, Requests(u)
    PROVE  LoadFresh'
  <1>1. PICK j \in Slots :
           \/ \E op \in {"send", "forward"} : RequestNew(j, u, op)
           \/ \E m \in Ids : Asking(j, u, m)
    BY DEF Requests, Asking
  <1>2. CASE \E op \in {"send", "forward"} : RequestNew(j, u, op)
    <2>1. /\ \A m \in Ids : Same(m)
          /\ UNCHANGED <<lastId, inbox, cache, load, stale, overlapped>>
      BY <1>2, RequestNewAt
    <2>2. ASSUME NEW w \in Users, NEW m \in Ids, load'[w].at # "none", m \notin load'[w].touched
          PROVE  /\ ~Busy(m)' /\ ~Queued(w, m)'
                 /\ load'[w].at = "answered" => Brings(load[w].rows, m)'
      BY <2>1, <2>2, LoadKept
    <2> QED
      BY <2>1, <2>2 DEF LoadFresh
  <1>3. CASE \E m \in Ids : Asking(j, u, m)
    <2>1. PICK c \in Ids : Asking(j, u, c)
      BY <1>3
    <2>2. \A m \in Ids : m # c => Same(m)
      BY <2>1, AskingAt
    <2>3. Touch(c) /\ UNCHANGED inbox
      BY <2>1, AskingDoes DEF Basics
    <2> QED
      BY <2>2, <2>3, LoadTouched
  <1> QED
    BY <1>1, <1>2, <1>3

\* A load begins with what is busy or queued as touched, and reads the rows as they are.
LEMMA LoadBrowsing ==
    ASSUME Basics, LoadFresh, NEW u \in Users, Browse(u)
    PROVE  LoadFresh'
  <1>0. TypeOK /\ Born
    BY DEF Basics
  <1>1. UNCHANGED <<rows, job, replies>>
    BY DEF Browse, Receive, Open, ReadRows, LoadArrives, LoadFails, Disconnect, Reconnect
  <1>2. \A m \in Ids : Same(m)
    BY <1>1, BrowsingSame
  <1>3. ASSUME NEW w \in Users, NEW m \in Ids,
               On(inbox[w], m) = {} => On(inbox'[w], m) = {}, load'[w] = load[w],
               load'[w].at # "none", m \notin load'[w].touched
        PROVE  /\ ~Busy(m)' /\ ~Queued(w, m)'
               /\ load'[w].at = "answered" => Brings(load[w].rows, m)'
    BY <1>2, <1>3, LoadKept
  <1>4. ASSUME NEW w \in Users, NEW m \in Ids PROVE On(inbox[w], m) = {} => On(inbox'[w], m) = {}
    <2>1. CASE Receive(u)
      <3>1. /\ inbox[u] \in Seq(Event) /\ inbox[u] # <<>>
            /\ inbox'[u] = Tail(inbox[u])
            /\ w # u => inbox'[w] = inbox[w]
        BY <1>0, <2>1, ReceiveDoes
      <3>2. \A i \in On(Tail(inbox[u]), m) : i + 1 \in On(inbox[u], m)
        BY <3>1, TailOf
      <3> QED
        BY <3>1, <3>2
    <2>2. CASE Disconnect(u)
      <3>1. inbox'[u] = <<>> /\ (w # u => inbox'[w] = inbox[w])
        BY <1>0, <2>2, DisconnectDoes
      <3>2. On(<<>>, m) = {}
        BY DEF On
      <3> QED
        BY <3>1, <3>2
    <2> QED
      BY <2>1, <2>2 DEF Browse, Open, ReadRows, LoadArrives, LoadFails, Reconnect
  <1>5. ASSUME NEW w \in Users, NEW m \in Ids, load'[w].at # "none", m \notin load'[w].touched
        PROVE  /\ ~Busy(m)' /\ ~Queued(w, m)'
               /\ load'[w].at = "answered" => Brings(load[w].rows, m)'
    <2>1. CASE load'[w] = load[w]
      BY <1>3, <1>4, <1>5, <2>1
    <2>2. CASE load'[w] # load[w]
      <3>1. w = u /\ ((\E force \in BOOLEAN : Open(u, force)) \/ ReadRows(u))
        <4>1. LoadArrives(u) \/ LoadFails(u) => w # u
          BY <1>0, <1>5, LoadArrivesDoes, LoadFailsDoes, NoLoadIsLoad
        <4>2. CASE \E force \in BOOLEAN : Open(u, force)
          BY <1>0, <2>2, <4>2, OpenDoes
        <4>3. CASE ReadRows(u)
          BY <1>0, <2>2, <4>3, ReadRowsDoes
        <4>4. CASE LoadArrives(u) \/ LoadFails(u)
          BY <1>0, <2>2, <4>1, <4>4, LoadArrivesDoes, LoadFailsDoes
        <4> QED
          BY <2>2, <4>2, <4>3, <4>4 DEF Browse, Receive, Disconnect, Reconnect
      <3>2. CASE \E force \in BOOLEAN : Open(u, force)
        <4>1. /\ load'[u].at = "asked" /\ UNCHANGED inbox
              /\ \A k \in Ids : Busy(k) \/ Queued(u, k) => k \in load'[u].touched
          BY <1>0, <3>2, OpenDoes
        <4>2. ~Busy(m) /\ ~Queued(u, m)
          BY <1>5, <3>1, <4>1
        <4>3. ~Busy(m)'
          BY <1>2, <4>2, SameKeeps
        <4>4. ~Queued(u, m)'
          BY <4>1, <4>2, QueuedOn
        <4> QED
          BY <3>1, <4>1, <4>3, <4>4
      <3>3. CASE ReadRows(u)
        <4>1. /\ load[u].at = "asked" /\ load'[u].touched = load[u].touched \cup (Live \ Newest)
              /\ load'[u].rows = LiveRows /\ UNCHANGED <<inbox, rows>>
          BY <1>0, <3>3, ReadRowsDoes
        <4>2. ~Busy(m) /\ ~Queued(u, m)
          BY <1>5, <3>1, <4>1 DEF LoadFresh
        <4>3. ~Busy(m)'
          BY <1>2, <4>2, SameKeeps
        <4>4. ~Queued(u, m)'
          BY <4>1, <4>2, QueuedOn
        <4>5. Brings(LiveRows, m)
          BY <1>0, <1>5, <3>1, <4>1, LiveRowsDoes
        <4>6. Brings(load[u].rows, m)'
          BY <4>1, <4>5 DEF Brings
        <4> QED
          BY <3>1, <4>3, <4>4, <4>6
      <3> QED
        BY <3>1, <3>2, <3>3
    <2> QED
      BY <2>1, <2>2
  <1> QED
    BY <1>5 DEF LoadFresh

\* An answer that arrives makes nothing busy.
LEMMA LoadReply ==
    ASSUME Basics, LoadFresh, NEW r \in replies, ReplyArrives(r)
    PROVE  LoadFresh'
  <1>1. UNCHANGED <<load, inbox, rows>>
    BY DEF ReplyArrives
  <1>2. ASSUME NEW m \in Ids, ~Busy(m) PROVE ~Busy(m)'
    BY <1>2, ReplyAt
  <1> QED
    BY <1>1, <1>2 DEF LoadFresh, Queued, Brings

-----------------------------------------------------------------------------
(* The copies keep in step.                                                *)

\* Where nobody touched m, the copy stays in step.
LEMMA StepSame ==
    ASSUME NEW u \in Users, NEW m, InStep(u, m), Same(m), Alike(inbox[u], inbox'[u], m),
           Of(cache'[u], m) = Of(cache[u], m)
    PROVE  InStep(u, m)'
  <1> DEFINE q == inbox[u]
             p == inbox'[u]
             S == Of(cache[u], m)
  <1>1. /\ On(p, m) = On(q, m)
        /\ Ordered(q, S, m) => Ordered(p, S, m)
        /\ WillShow(p, S, m) <=> WillShow(q, S, m)
        /\ \A c : EndsWith(q, S, m, c) => EndsWith(p, S, m, c)
        /\ \A R : EndsReacted(q, S, m, R) => EndsReacted(p, S, m, R)
    BY AlikeKeeps
  <1>2. rows'[m] = rows[m]
    BY DEF Same
  <1>3. /\ Due(m)' <=> Due(m)
        /\ Editing(m)' <=> Editing(m)
        /\ Reacting(u, m)' <=> Reacting(u, m)
        /\ Waiting(u, m)' <=> Waiting(u, m)
    BY SameKeeps
  <1> QED
    BY <1>1, <1>2, <1>3 DEF InStep

\* A change of the row that is still to be announced.
LEMMA StepSteady ==
    ASSUME NEW u \in Users, NEW m, InStep(u, m), UNCHANGED <<inbox, cache>>,
           Due(m)' <=> Due(m),
           Editing(m) => Editing(m)',
           Editing(m)' \/ rows'[m].content = rows[m].content,
           Reacting(u, m) => Reacting(u, m)',
           Reacting(u, m)' \/ rows'[m].reacts = rows[m].reacts,
           Waiting(u, m)' => Waiting(u, m) \/ On(inbox[u], m) = {}
    PROVE  InStep(u, m)'
  BY DEF InStep

\* The broadcast: who is told gets the event that brings the copy up to date, who is not
\* told and expected to know has had the answer, or has it still to come.
LEMMA StepTelling ==
    ASSUME Basics, NEW j \in Slots, Telling(j), NEW m \in Ids, m = job[j].id, Alone(m), Holds(m),
           NEW u \in Users, InStep(u, m), m \notin stale'[u]
    PROVE  InStep(u, m)'
  <1> DEFINE x == job[j]
             q == inbox[u]
             S == Of(cache[u], m)
  <1>0. TypeOK /\ Born /\ q \in Seq(Event) /\ Shape(x)
    BY DEF Basics, TypeOK, JobShape
  <1>1. /\ Only(j) /\ job'[j] = Idle
        /\ UNCHANGED <<rows, replies, cache>>
    BY <1>0, TellingDoes
  <1>2. PICK kind \in {"add", "update", "delete", "reacts"}, audience \in SUBSET Users :
           Announces(x, kind, audience) /\ Tells(j, kind, audience)
    BY <1>0, TellingDoes
  <1> DEFINE e == [kind |-> kind, id |-> x.id, content |-> x.content, reacts |-> x.reacts]
             p == Put(q, e)
  <1>3. /\ e \in Event
        /\ u \in audience /\ online[u] => inbox'[u] = p
        /\ ~(u \in audience /\ online[u]) =>
              /\ inbox'[u] = q
              /\ stale'[u] = IF x.op = "react" /\ u = x.by THEN stale[u] ELSE stale[u] \cup {x.id}
    BY <1>2 DEF Tells
  <1>4. e.kind = kind /\ e.id = m /\ e.content = x.content /\ e.reacts = x.reacts
    OBVIOUS
  <1>5. x.op # "idle" /\ j \in Working(m)
    BY <1>2 DEF Announces, Working
  <1>6. /\ Sending(m) <=> x.op \in {"send", "forward"}
        /\ Removing(m) <=> x.op = "delete" /\ x.at \in {"cleanup", "deliver"}
        /\ Editing(m) <=> x.op = "edit" /\ x.at \in {"read", "deliver"}
        /\ Reacting(u, m) <=>
              \/ Answering(u, m)
              \/ /\ x.op = "react"
                 /\ x.at = "read" \/ (x.at = "deliver" /\ x.by # u)
        /\ Waiting(u, m) <=>
              \/ x.op \in {"send", "forward"} \/ Answering(u, m)
              \/ x.op = "react" /\ x.by = u
        /\ Answering(u, m) => x.op = "react" /\ x.at = "deliver" /\ x.by = u
    BY <1>5, Single
  <1>7. /\ ~Sending(m)' /\ ~Removing(m)' /\ ~Editing(m)'
        /\ Reacting(u, m)' <=> Answering(u, m)
        /\ Waiting(u, m)' <=> Answering(u, m)
    BY TellingEnds
  <1>8. /\ x.op \in {"send", "forward"} =>
              /\ rows[m].state = "live" /\ rows[m].reacts = {}
              /\ x.at = "notify" => x.content = rows[m].content
        /\ x.op \in {"edit", "react", "pin"} /\ x.at # "check" => rows[m].state = "live"
        /\ x.op = "edit" /\ x.at = "deliver" => x.content = rows[m].content
        /\ x.op = "react" /\ x.at = "deliver" => x.reacts = rows[m].reacts
        /\ x.op = "delete" /\ x.at \in {"cleanup", "deliver"} => rows[m].state = "deleted"
    BY <1>5 DEF Holds
  <1>9. /\ Ordered(q, S, m)
        /\ WillShow(q, S, m) <=> Due(m)
        /\ Due(m) /\ ~Editing(m) => EndsWith(q, S, m, rows[m].content)
        /\ Due(m) /\ ~Reacting(u, m) => EndsReacted(q, S, m, rows[m].reacts)
        /\ Waiting(u, m) => On(q, m) = {}
    BY DEF InStep
  <1>d. /\ Due(m) <=> (rows[m].state = "live" /\ ~Sending(m)) \/ Removing(m)
        /\ Due(m)' <=> rows[m].state = "live"
    BY <1>1, <1>7 DEF Due
  <1> SUFFICES
        /\ Ordered(inbox'[u], S, m)
        /\ WillShow(inbox'[u], S, m) <=> Due(m)'
        /\ Due(m)' => EndsWith(inbox'[u], S, m, rows[m].content)
        /\ Due(m)' /\ ~Answering(u, m) => EndsReacted(inbox'[u], S, m, rows[m].reacts)
        /\ Answering(u, m) => On(inbox'[u], m) = {}
    BY <1>1, <1>7 DEF InStep
  <1> HIDE DEF e, q, S, x
  <1>10. CASE ~(u \in audience /\ online[u])
    <2>1. x.op = "react" /\ u = x.by /\ x.at = "deliver" /\ inbox'[u] = q
      <3>1. x.op = "react" /\ u = x.by /\ inbox'[u] = q
        BY <1>3, <1>10 DEF x
      <3> QED
        BY <1>2, <3>1 DEF Announces
    <2>2. rows[m].state = "live" /\ Due(m) /\ Due(m)' /\ ~Editing(m)
      BY <1>6, <1>8, <1>d, <2>1
    <2> QED
      BY <1>6, <1>9, <2>1, <2>2
  <1>11. CASE u \in audience /\ online[u]
    <2>0. inbox'[u] = p
      BY <1>3, <1>11
    <2>1. CASE kind = "add"
      <3>1. x.op \in {"send", "forward"} /\ x.at = "notify"
        BY <1>2, <2>1 DEF Announces
      <3>2. ~Answering(u, m) /\ ~Due(m) /\ Due(m)'
        BY <1>6, <1>8, <1>d, <3>1
      <3>3. On(q, m) = {} /\ S = {}
        BY <1>6, <1>9, <3>1, <3>2, Silent
      <3>4. x.reacts = {}
        BY <1>0, <3>1 DEF Shape
      <3>5. /\ Ordered(p, {}, m)
            /\ WillShow(p, {}, m)
            /\ EndsWith(p, {}, m, x.content)
            /\ EndsReacted(p, {}, m, x.reacts)
        BY <1>0, <1>3, <1>4, <2>1, <3>3, AnnouncedNew
      <3> HIDE DEF p
      <3> QED
        BY <1>8, <2>0, <3>1, <3>2, <3>3, <3>4, <3>5
    <2>2. CASE kind # "add"
      <3>1. Due(m) /\ ~Answering(u, m)
        BY <1>2, <1>6, <1>8, <1>d, <1>11, <2>2 DEF Announces
      <3>2. /\ Ordered(p, S, m)
            /\ WillShow(p, S, m) <=> kind # "delete"
            /\ kind = "update" => EndsWith(p, S, m, x.content)
            /\ kind = "reacts" => EndsReacted(p, S, m, x.reacts)
            /\ kind # "update" => \A c : EndsWith(q, S, m, c) => EndsWith(p, S, m, c)
            /\ kind # "reacts" => \A R : EndsReacted(q, S, m, R) => EndsReacted(p, S, m, R)
        <4>1. q \in Seq(Event) /\ e \in Event /\ e.kind # "add" /\ Ordered(q, S, e.id) /\ WillShow(q, S, e.id)
          BY <1>0, <1>3, <1>4, <1>9, <2>2, <3>1
        <4>2. /\ Ordered(p, S, e.id)
              /\ WillShow(p, S, e.id) <=> e.kind # "delete"
              /\ e.kind = "update" => EndsWith(p, S, e.id, e.content)
              /\ e.kind = "reacts" => EndsReacted(p, S, e.id, e.reacts)
              /\ e.kind # "update" => \A c : EndsWith(q, S, e.id, c) => EndsWith(p, S, e.id, c)
              /\ e.kind # "reacts" => \A R : EndsReacted(q, S, e.id, R) => EndsReacted(p, S, e.id, R)
          BY <4>1, AnnouncedChange
        <4> QED
          BY <1>4, <4>2
      <3> HIDE DEF p
      <3>3. CASE kind = "update"
        <4>1. x.op = "edit" /\ x.at = "deliver"
          BY <1>2, <3>3 DEF Announces
        <4>2. ~Reacting(u, m) /\ Due(m)'
          BY <1>6, <1>8, <1>d, <3>1, <4>1
        <4> QED
          BY <1>8, <1>9, <2>0, <3>1, <3>2, <3>3, <4>1, <4>2
      <3>4. CASE kind = "delete"
        <4>1. x.op = "delete" /\ x.at = "deliver"
          BY <1>2, <3>4 DEF Announces
        <4>2. ~Due(m)'
          BY <1>8, <1>d, <4>1
        <4> QED
          BY <2>0, <3>1, <3>2, <3>4, <4>2
      <3>5. CASE kind = "reacts"
        <4>1. x.op = "react" /\ x.at = "deliver"
          BY <1>2, <3>5 DEF Announces
        <4>2. ~Editing(m) /\ Due(m)'
          BY <1>6, <1>8, <1>d, <4>1
        <4> QED
          BY <1>8, <1>9, <2>0, <3>1, <3>2, <3>5, <4>1, <4>2
      <3> QED
        BY <2>2, <3>3, <3>4, <3>5
    <2> QED
      BY <2>1, <2>2
  <1> QED
    BY <1>10, <1>11

\* CopiesFollow is kept by the handlers,
LEMMA CopiesHandling ==
    ASSUME Basics, OneAtATime, CopiesFollow, NEW j \in Slots, Handling(j)
    PROVE  CopiesFollow'
  <1> DEFINE c == job[j].id
  <1>1. /\ j \in Working(c) /\ c \in Ids
        /\ UNCHANGED cache
        /\ \A u \in Users : stale[u] \subseteq stale'[u]
        /\ \A m \in Ids : m # c => Same(m)
        /\ \A u \in Users : \A m \in Ids : m # c => Alike(inbox[u], inbox'[u], m)
    BY HandlingDoes
  <1>2. ASSUME NEW u \in Users, NEW m \in Ids, m \notin stale'[u] PROVE InStep(u, m)'
    <2>1. InStep(u, m) /\ m \notin stale[u]
      BY <1>1, <1>2 DEF CopiesFollow
    <2>2. Alone(m) /\ Holds(m)
      BY <2>1 DEF OneAtATime, Clean
    <2>3. CASE m # c
      BY <1>1, <2>1, <2>3, StepSame
    <2>4. CASE m = c /\ Telling(j)
      BY <1>2, <2>1, <2>2, <2>4, StepTelling
    <2>6. ~(m = c /\ GiveUpLate(j))
      BY <1>2, LosingDoes DEF Basics
    <2>5. CASE m = c /\ ~Telling(j)
      <3>1. Steady(m)
        BY <2>2, <2>5, <2>6, ReadingSteady, WriteSteady, ReadReactionsSteady, ReadPinnedSteady DEF Handling
      <3>2. UNCHANGED inbox
        BY <2>5, <2>6 DEF Handling, Reading, Fetch, Notify, NotifyFails, CheckSender, CheckMember,
                    ReadEdited, GiveUp, Cleanup, CleanupFails, Write, ReadReactions, ReadPinned
      <3> QED
        BY <1>1, <2>1, <3>1, <3>2, StepSteady DEF Steady
    <2> QED
      BY <2>3, <2>4, <2>5
  <1> QED
    BY <1>2 DEF CopiesFollow

\* ... by the new row, which is not due before it is announced,
LEMMA CopiesInsert ==
    ASSUME Basics, CopiesFollow, NEW j \in Slots, Insert(j)
    PROVE  CopiesFollow'
  <1>1. UNCHANGED <<inbox, cache, stale>>
    BY DEF Insert
  <1>2. ASSUME NEW u \in Users, NEW m \in Ids, m \notin stale'[u] PROVE InStep(u, m)'
    <2>1. InStep(u, m)
      BY <1>1, <1>2 DEF CopiesFollow
    <2>2. CASE m # lastId + 1
      <3>1. Same(m)
        BY <2>2, InsertAt
      <3> QED
        BY <1>1, <2>1, <3>1, StepSame DEF Alike
    <2>3. CASE m = lastId + 1
      <3>1. ~Due(m) /\ ~Due(m)' /\ On(inbox[u], m) = {}
        BY <2>3, InsertAt
      <3> QED
        BY <1>1, <2>1, <3>1 DEF InStep
    <2> QED
      BY <2>2, <2>3
  <1> QED
    BY <1>2 DEF CopiesFollow

\* ... by the requests, after which nothing may be queued for who reacts,
LEMMA CopiesRequest ==
    ASSUME Basics, CopiesFollow, NEW u \in Users, Requests(u)
    PROVE  CopiesFollow'
  <1>1. PICK j \in Slots :
           \/ \E op \in {"send", "forward"} : RequestNew(j, u, op)
           \/ \E m \in Ids : Asking(j, u, m)
    BY DEF Requests, Asking
  <1>2. CASE \E op \in {"send", "forward"} : RequestNew(j, u, op)
    <2>1. /\ \A m \in Ids : Same(m)
          /\ UNCHANGED <<lastId, inbox, cache, load, stale, overlapped>>
      BY <1>2, RequestNewAt
    <2>2. ASSUME NEW w \in Users, NEW m \in Ids, m \notin stale'[w] PROVE InStep(w, m)'
      <3>1. InStep(w, m)
        BY <2>1, <2>2 DEF CopiesFollow
      <3> QED
        BY <2>1, <3>1, StepSame DEF Alike
    <2> QED
      BY <2>2 DEF CopiesFollow
  <1>3. CASE \E m \in Ids : Asking(j, u, m)
    <2>1. PICK c \in Ids : Asking(j, u, c)
      BY <1>3
    <2>2. /\ UNCHANGED <<rows, inbox, cache>>
          /\ \A w \in Users :
                /\ stale[w] \subseteq stale'[w]
                /\ Busy(c) => c \in stale'[w]
                /\ w = u /\ job'[j].op = "react" /\ Queued(w, c) => c \in stale'[w]
      BY <2>1, AskingDoes DEF Basics
    <2>3. ASSUME NEW w \in Users, NEW m \in Ids, m \notin stale'[w] PROVE InStep(w, m)'
      <3>1. InStep(w, m)
        BY <2>2, <2>3 DEF CopiesFollow
      <3>2. CASE m # c
        <4>1. Same(m)
          BY <2>1, <3>2, AskingAt
        <4> QED
          BY <2>2, <3>1, <4>1, StepSame DEF Alike
      <3>3. CASE m = c
        <4>1. ~Busy(m)
          BY <2>2, <2>3, <3>3
        <4>2. /\ Due(m)' <=> Due(m)
              /\ ~Editing(m) /\ ~Reacting(w, m)
              /\ Waiting(w, m)' => w = u /\ job'[j].op = "react"
          BY <2>1, <3>3, <4>1, AskingAt
        <4>3. Waiting(w, m)' => On(inbox[w], m) = {}
          BY <2>2, <2>3, <3>3, <4>2, QueuedOn
        <4> QED
          BY <2>2, <3>1, <4>2, <4>3, StepSteady
      <3> QED
        BY <3>2, <3>3
    <2> QED
      BY <2>3 DEF CopiesFollow
  <1> QED
    BY <1>1, <1>2, <1>3

\* A copy that shows the same of m, but perhaps not its reactions.
LEMMA LooksKeeps ==
    ASSUME NEW q, NEW S, NEW T, NEW m, T = {} <=> S = {},
           \A x \in T : \E y \in S : x.content = y.content
    PROVE  /\ Ordered(q, S, m) => Ordered(q, T, m)
           /\ WillShow(q, T, m) <=> WillShow(q, S, m)
           /\ \A c : EndsWith(q, S, m, c) => EndsWith(q, T, m, c)
           /\ (\A x \in T : \E y \in S : x.reacts = y.reacts) =>
                 \A R : EndsReacted(q, S, m, R) => EndsReacted(q, T, m, R)
  <1>1. Ordered(q, S, m) => Ordered(q, T, m)
    BY DEF Ordered
  <1>2. WillShow(q, T, m) <=> WillShow(q, S, m)
    BY DEF WillShow
  <1>3. ASSUME NEW c, EndsWith(q, S, m, c) PROVE EndsWith(q, T, m, c)
    BY <1>3 DEF EndsWith
  <1>4. ASSUME \A x \in T : \E y \in S : x.reacts = y.reacts, NEW R, EndsReacted(q, S, m, R)
        PROVE  EndsReacted(q, T, m, R)
    BY <1>4 DEF EndsReacted
  <1> QED
    BY <1>1, <1>2, <1>3, <1>4

\* The answer of a reaction brings the copy of the caller up to date, where no event about
\* the message is queued; the answer of a pin changes nothing that events speak of.
LEMMA CopiesReply ==
    ASSUME Basics, OneAtATime, CopiesFollow, NEW r \in replies, ReplyArrives(r)
    PROVE  CopiesFollow'
  <1> DEFINE c == r.id
             o == r.to
  <1>1. /\ r \in Reply /\ o \in Users /\ c \in Ids
        /\ \A u \in Users : u # o => cache'[u] = cache[u]
        /\ \A m \in Ids : m # c => Of(cache'[o], m) = Of(cache[o], m)
        /\ Of(cache'[o], c) = {} <=> Of(cache[o], c) = {}
        /\ \A x \in Of(cache'[o], c) : \E y \in Of(cache[o], c) :
              /\ x.content = y.content
              /\ r.kind = "react" => x.reacts = r.reacts
              /\ r.kind = "pin" => x.reacts = y.reacts
        /\ UNCHANGED <<rows, inbox, stale>>
    BY ReplyArrivesDoes DEF Basics
  <1>2. r.kind \in {"react", "pin"}
    BY <1>1 DEF Reply
  <1>3. \A m \in Ids : m # c => Same(m)
    BY ReplyAt
  <1>4. \A m \in Ids : /\ Due(m)' <=> Due(m)
                       /\ Editing(m)' <=> Editing(m)
                       /\ \A u : Waiting(u, m)' => Waiting(u, m)
                       /\ \A u : u # o \/ r.kind = "pin" => (Reacting(u, m)' <=> Reacting(u, m))
    BY ReplyAt
  <1>5. ASSUME NEW u \in Users, NEW m \in Ids, m \notin stale'[u] PROVE InStep(u, m)'
    <2>1. InStep(u, m) /\ m \notin stale[u]
      BY <1>1, <1>5 DEF CopiesFollow
    <2>2. CASE m # c
      <3>1. Of(cache'[u], m) = Of(cache[u], m)
        BY <1>1, <2>2
      <3> QED
        BY <1>1, <1>3, <2>1, <2>2, <3>1, StepSame DEF Alike
    <2>3. CASE m = c /\ u # o
      <3>1. UNCHANGED <<inbox[u], cache[u]>>
        BY <1>1, <2>3
      <3> QED
        BY <1>1, <1>4, <2>1, <2>3, <3>1 DEF InStep
    <2>4. CASE m = c /\ u = o
      <3> DEFINE q == inbox[u]
                 S == Of(cache[u], m)
                 T == Of(cache'[u], m)
      <3>1. /\ T = {} <=> S = {}
            /\ \A x \in T : \E y \in S :
                  /\ x.content = y.content
                  /\ r.kind = "react" => x.reacts = r.reacts
                  /\ r.kind = "pin" => x.reacts = y.reacts
        BY <1>1, <2>4
      <3>2. /\ Ordered(q, S, m)
            /\ WillShow(q, S, m) <=> Due(m)
            /\ Due(m) /\ ~Editing(m) => EndsWith(q, S, m, rows[m].content)
            /\ Due(m) /\ ~Reacting(u, m) => EndsReacted(q, S, m, rows[m].reacts)
            /\ Waiting(u, m) => On(q, m) = {}
        BY <2>1 DEF InStep
      <3>3. CASE r.kind = "pin"
        <4>1. /\ Reacting(u, m)' <=> Reacting(u, m)
              /\ Due(m)' <=> Due(m)
              /\ Editing(m)' <=> Editing(m)
              /\ Waiting(u, m)' => Waiting(u, m)
          BY <1>4, <3>3
        <4> HIDE DEF q, S, T
        <4>2. /\ Ordered(q, T, m)
              /\ WillShow(q, T, m) <=> WillShow(q, S, m)
              /\ \A k : EndsWith(q, S, m, k) => EndsWith(q, T, m, k)
              /\ \A R : EndsReacted(q, S, m, R) => EndsReacted(q, T, m, R)
          BY <3>1, <3>2, <3>3, LooksKeeps
        <4> QED
          BY <1>1, <3>2, <4>1, <4>2 DEF InStep, q, S, T
      <3>4. CASE r.kind = "react"
        <4>1. Answering(u, m) /\ r \in Answers(m)
          BY <2>4, <3>4 DEF Answering, Answers
        <4>2. On(q, m) = {}
          BY <3>2, <4>1 DEF Waiting
        <4>3. r.reacts = rows[m].reacts
          <5>1. Holds(m)
            BY <2>1 DEF OneAtATime, Clean
          <5> QED
            BY <3>4, <4>1, <5>1 DEF Holds
        <4>4. /\ Due(m)' <=> Due(m)
              /\ Editing(m)' <=> Editing(m)
          BY <1>4
        <4> HIDE DEF q, S, T
        <4>5. /\ Ordered(q, T, m)
              /\ WillShow(q, T, m) <=> WillShow(q, S, m)
              /\ \A k : EndsWith(q, S, m, k) => EndsWith(q, T, m, k)
          BY <3>1, <3>2, LooksKeeps
        <4>6. EndsReacted(q, T, m, rows[m].reacts)
          <5>1. \A R : EndsReacted(q, T, m, R) <=> \A x \in T : x.reacts = R
            BY <4>2, Silent
          <5> QED
            BY <3>1, <3>4, <4>3, <5>1
        <4> QED
          BY <1>1, <3>2, <4>2, <4>4, <4>5, <4>6 DEF InStep, q, S, T
      <3> QED
        BY <1>2, <3>3, <3>4
    <2> QED
      BY <2>2, <2>3, <2>4
  <1> QED
    BY <1>5 DEF CopiesFollow

\* ... and by the browser, which applies events, loses them with the socket, or takes a snapshot.
LEMMA CopiesBrowsing ==
    ASSUME Basics, LoadFresh, CopiesFollow, NEW u \in Users, Browse(u)
    PROVE  CopiesFollow'
  <1>0. TypeOK /\ Born
    BY DEF Basics
  <1>1. UNCHANGED <<rows, job, replies>>
    BY DEF Browse, Receive, Open, ReadRows, LoadArrives, LoadFails, Disconnect, Reconnect
  <1>2. \A m \in Ids : Same(m)
    BY <1>1, BrowsingSame
  <1>3. ASSUME NEW w \in Users, NEW m \in Ids, m \notin stale'[w],
               inbox'[w] = inbox[w], cache'[w] = cache[w], stale[w] \subseteq stale'[w]
        PROVE  InStep(w, m)'
    <2>1. InStep(w, m)
      BY <1>3 DEF CopiesFollow
    <2> QED
      BY <1>2, <1>3, <2>1, StepSame DEF Alike
  <1>4. CASE Receive(u)
    <2>1. /\ inbox[u] \in Seq(Event) /\ inbox[u] # <<>>
          /\ inbox'[u] = Tail(inbox[u])
          /\ \A w \in Users : w # u => cache'[w] = cache[w] /\ inbox'[w] = inbox[w]
          /\ \A m \in Ids : Becomes(Of(cache[u], m), inbox[u][1], m, Of(cache'[u], m))
          /\ UNCHANGED stale
      BY <1>0, <1>4, ReceiveDoes
    <2>2. ASSUME NEW m \in Ids, m \notin stale'[u] PROVE InStep(u, m)'
      <3> DEFINE q == inbox[u]
                 S == Of(cache[u], m)
                 T == Of(cache'[u], m)
      <3>1. /\ Ordered(q, S, m)
            /\ WillShow(q, S, m) <=> Due(m)
            /\ Due(m) /\ ~Editing(m) => EndsWith(q, S, m, rows[m].content)
            /\ Due(m) /\ ~Reacting(u, m) => EndsReacted(q, S, m, rows[m].reacts)
            /\ Waiting(u, m) => On(q, m) = {}
        BY <2>1, <2>2 DEF CopiesFollow, InStep
      <3>2. Becomes(S, q[1], m, T) /\ q \in Seq(Event) /\ q # <<>>
        BY <2>1
      <3> HIDE DEF q, S, T
      <3>3. /\ Ordered(Tail(q), T, m)
            /\ WillShow(Tail(q), T, m) <=> WillShow(q, S, m)
            /\ \A c : EndsWith(q, S, m, c) => EndsWith(Tail(q), T, m, c)
            /\ \A R : EndsReacted(q, S, m, R) => EndsReacted(Tail(q), T, m, R)
            /\ On(q, m) = {} => On(Tail(q), m) = {}
        BY <3>1, <3>2, Received
      <3>4. /\ Due(m)' <=> Due(m)
            /\ Editing(m)' <=> Editing(m)
            /\ Reacting(u, m)' <=> Reacting(u, m)
            /\ Waiting(u, m)' <=> Waiting(u, m)
        BY <1>2, SameKeeps
      <3>5. inbox'[u] = Tail(q)
        BY <2>1 DEF q
      <3> QED
        BY <1>1, <3>1, <3>3, <3>4, <3>5 DEF InStep, T
    <2> QED
      BY <1>3, <2>1, <2>2 DEF CopiesFollow
  <1>5. CASE LoadArrives(u)
    <2>1. /\ \A w \in Users : w # u => cache'[w] = cache[w] /\ stale'[w] = stale[w]
          /\ load[u].at = "answered"
          /\ cache'[u] = load[u].rows /\ stale'[u] = load[u].touched
          /\ UNCHANGED inbox
      BY <1>0, <1>5, LoadArrivesDoes
    <2>2. ASSUME NEW m \in Ids, m \notin stale'[u] PROVE InStep(u, m)'
      <3> DEFINE q == inbox[u]
                 T == Of(load[u].rows, m)
      <3>1. ~Busy(m) /\ ~Queued(u, m) /\ Brings(load[u].rows, m)
        BY <2>1, <2>2 DEF LoadFresh
      <3>2. On(q, m) = {}
        BY <3>1, QueuedOn
      <3>3. ~Sending(m) /\ ~Removing(m)
        BY <3>1, Seen
      <3>4. Due(m)' <=> rows[m].state = "live"
        BY <1>1, <1>2, <3>3, SameKeeps DEF Due
      <3>5. /\ T # {} <=> rows[m].state = "live"
            /\ \A x \in T : x.content = rows[m].content /\ x.reacts = rows[m].reacts
        BY <3>1 DEF Brings
      <3> HIDE DEF q, T
      <3>6. /\ Ordered(q, T, m)
            /\ WillShow(q, T, m) <=> T # {}
            /\ EndsWith(q, T, m, rows[m].content)
            /\ EndsReacted(q, T, m, rows[m].reacts)
        <4>1. /\ Ordered(q, T, m)
              /\ WillShow(q, T, m) <=> T # {}
              /\ \A c : EndsWith(q, T, m, c) <=> \A x \in T : x.content = c
              /\ \A R : EndsReacted(q, T, m, R) <=> \A x \in T : x.reacts = R
          BY <3>2, Silent
        <4> QED
          BY <3>5, <4>1
      <3>7. inbox'[u] = q /\ Of(cache'[u], m) = T
        BY <2>1 DEF q, T
      <3> QED
        BY <1>1, <3>2, <3>4, <3>5, <3>6, <3>7 DEF InStep
    <2>3. ASSUME NEW w \in Users, NEW m \in Ids, m \notin stale'[w] PROVE InStep(w, m)'
      <3>1. CASE w # u
        BY <1>3, <2>1, <2>3, <3>1
      <3>2. CASE w = u
        BY <2>2, <2>3, <3>2
      <3> QED
        BY <3>1, <3>2
    <2> QED
      BY <2>3 DEF CopiesFollow
  <1>6. CASE Disconnect(u)
    <2>1. /\ \A w \in Users : w # u => inbox'[w] = inbox[w] /\ stale'[w] = stale[w]
          /\ inbox'[u] = <<>> /\ stale[u] \subseteq stale'[u]
          /\ \A m \in Ids : Queued(u, m) => m \in stale'[u]
          /\ UNCHANGED cache
      BY <1>0, <1>6, DisconnectDoes
    <2>2. ASSUME NEW m \in Ids, m \notin stale'[u] PROVE InStep(u, m)'
      <3>1. InStep(u, m)
        BY <2>1, <2>2 DEF CopiesFollow
      <3>2. On(inbox[u], m) = {}
        BY <2>1, <2>2, QueuedOn
      <3>3. Alike(inbox[u], inbox'[u], m)
        BY <2>1, <3>2 DEF Alike, On
      <3> QED
        BY <1>2, <2>1, <3>1, <3>3, StepSame
    <2>3. ASSUME NEW w \in Users, NEW m \in Ids, m \notin stale'[w] PROVE InStep(w, m)'
      <3>1. CASE w # u
        BY <1>3, <2>1, <2>3, <3>1
      <3>2. CASE w = u
        BY <2>2, <2>3, <3>2
      <3> QED
        BY <3>1, <3>2
    <2> QED
      BY <2>3 DEF CopiesFollow
  <1>7. CASE ~Receive(u) /\ ~LoadArrives(u) /\ ~Disconnect(u)
    <2>1. UNCHANGED <<inbox, cache, stale>>
      BY <1>7 DEF Browse, Open, ReadRows, LoadFails, Reconnect
    <2> QED
      BY <1>3, <2>1 DEF CopiesFollow
  <1> QED
    BY <1>4, <1>5, <1>6, <1>7

-----------------------------------------------------------------------------
(* Notifications.                                                          *)

\* A step leaves no dangling notification if it deletes no row, adds no notification and ends no
\* clean-up.
LEMMA NotesKept ==
    ASSUME NotesPointAtLive, notes' \subseteq notes, overlapped \subseteq overlapped',
           \A n \in notes : rows'[n.id].state = "deleted" => rows[n.id].state = "deleted",
           \A k \in Slots : job[k].op = "delete" /\ job[k].at = "cleanup" => job'[k] = job[k]
    PROVE  NotesPointAtLive'
  BY DEF NotesPointAtLive

\* A notification is written for a row that its sender holds stored, and the handler that
\* deletes a row takes its notifications before it tells anybody.
LEMMA NotesHandle ==
    ASSUME Basics, OneAtATime, NotesPointAtLive, NEW j \in Slots, Handle(j)
    PROVE  NotesPointAtLive'
  <1> DEFINE x == job[j]
             c == x.id
  <1>0. TypeOK /\ Born /\ JobShape /\ Room /\ \A n \in notes : n.id \in Ids
    BY DEF Basics, TypeOK, Note
  <1>1. CASE \/ Fetch(j) \/ NotifyFails(j) \/ CheckSender(j) \/ CheckMember(j) \/ ReadEdited(j)
             \/ GiveUp(j)
    <2>1. Only(j)
      BY <1>0, <1>1, ReadingDoes DEF Reading
    <2>2. /\ ~(x.op = "delete" /\ x.at = "cleanup")
          /\ UNCHANGED <<rows, notes, overlapped>>
      BY <1>1 DEF Fetch, NotifyFails, CheckSender, CheckMember, ReadEdited, GiveUp
    <2> QED
      BY <2>1, <2>2, NotesKept DEF Only
  <1>2. CASE Notify(j)
    <2>1. Only(j) /\ c \in 1..lastId
      BY <1>0, <1>2, ReadingDoes DEF Reading
    <2>2. PICK to \in x.todo : notes' = notes \cup {[to |-> to, id |-> c]}
      BY <1>2 DEF Notify
    <2>3. /\ x.op \in {"send", "forward"} /\ x.at = "notify"
          /\ UNCHANGED <<rows, overlapped>>
      BY <1>2 DEF Notify
    <2>4. c \in Ids /\ j \in Working(c)
      BY <1>0, <2>1, <2>3, ChatAssumption DEF TypeOK, Ids, Working
    <2>5. c \in overlapped \/ rows[c].state = "live"
      <3>1. c \notin overlapped => Holds(c)
        BY <2>4 DEF OneAtATime, Clean
      <3> QED
        BY <2>3, <2>4, <3>1 DEF Holds
    <2> DEFINE w == [to |-> to, id |-> c]
    <2>6. w.id = c
      OBVIOUS
    <2> HIDE DEF w, c, x
    <2>7. ASSUME NEW n \in notes', rows'[n.id].state = "deleted"
          PROVE  \/ n.id \in overlapped'
                 \/ \E k \in Slots : job'[k].op = "delete" /\ job'[k].id = n.id /\ job'[k].at = "cleanup"
      <3>1. CASE n \in notes
        <4>1. \/ n.id \in overlapped
              \/ \E k \in Slots : job[k].op = "delete" /\ job[k].id = n.id /\ job[k].at = "cleanup"
          BY <2>3, <2>7, <3>1 DEF NotesPointAtLive
        <4>2. \A k \in Slots : job[k].op = "delete" => job'[k] = job[k]
          BY <2>1, <2>3 DEF Only, x
        <4> QED
          BY <2>3, <4>1, <4>2
      <3>2. CASE n \notin notes
        <4>1. n = w
          BY <2>2, <3>2 DEF w
        <4> QED
          BY <2>3, <2>5, <2>6, <2>7, <4>1
      <3> QED
        BY <3>1, <3>2
    <2> QED
      BY <2>7 DEF NotesPointAtLive
  <1>3. CASE Cleanup(j) \/ CleanupFails(j)
    <2>1. Only(j)
      BY <1>0, <1>3, ReadingDoes DEF Reading
    <2>2. UNCHANGED rows
      BY <1>3 DEF Cleanup, CleanupFails
    <2>3. notes' \subseteq notes /\ \A n \in notes' : n.id # c \/ c \in overlapped'
      BY <1>3 DEF Cleanup, CleanupFails
    <2>4. overlapped \subseteq overlapped'
      BY <1>3 DEF Cleanup, CleanupFails
    <2> HIDE DEF c
    <2>5. ASSUME NEW n \in notes', rows'[n.id].state = "deleted", n.id \notin overlapped'
          PROVE  \E k \in Slots : job'[k].op = "delete" /\ job'[k].id = n.id /\ job'[k].at = "cleanup"
      <3>1. n.id # c /\ n \in notes
        BY <2>3, <2>5
      <3>2. PICK k \in Slots : job[k].op = "delete" /\ job[k].id = n.id /\ job[k].at = "cleanup"
        BY <2>2, <2>4, <2>5, <3>1 DEF NotesPointAtLive
      <3>3. k # j
        BY <3>1, <3>2 DEF c
      <3> QED
        BY <2>1, <3>2, <3>3 DEF Only
    <2> QED
      BY <2>5 DEF NotesPointAtLive
  <1>4. CASE Write(j)
    <2>1. /\ Only(j)
          /\ c \in Ids
          /\ x.at = "write"
          /\ job'[j].op = x.op /\ job'[j].id = c
          /\ job'[j].at = IF x.op = "delete" THEN "cleanup" ELSE "read"
          /\ \A k \in Ids : k # c => rows'[k] = rows[k]
          /\ rows'[c].state = IF x.op = "delete" THEN "deleted" ELSE rows[c].state
          /\ UNCHANGED <<notes, overlapped>>
      BY <1>0, <1>4, WriteDoes
    <2> HIDE DEF c
    <2>2. ASSUME NEW n \in notes', rows'[n.id].state = "deleted", n.id \notin overlapped'
          PROVE  \E k \in Slots : job'[k].op = "delete" /\ job'[k].id = n.id /\ job'[k].at = "cleanup"
      <3>1. CASE n.id = c /\ x.op = "delete"
        BY <2>1, <3>1
      <3>2. CASE ~(n.id = c /\ x.op = "delete")
        <4>1. rows[n.id].state = "deleted" /\ n \in notes /\ n.id \notin overlapped
          BY <1>0, <2>1, <2>2, <3>2
        <4>2. PICK k \in Slots : job[k].op = "delete" /\ job[k].id = n.id /\ job[k].at = "cleanup"
          BY <4>1 DEF NotesPointAtLive
        <4>3. k # j
          BY <2>1, <4>2
        <4> QED
          BY <2>1, <4>2, <4>3 DEF Only
      <3> QED
        BY <3>1, <3>2
    <2> QED
      BY <2>2 DEF NotesPointAtLive
  <1>5. CASE Insert(j)
    <2>1. /\ Only(j)
          /\ rows'[lastId'].state = "live" /\ \A m \in Ids : m # lastId' => rows'[m] = rows[m]
          /\ job[j].at = "insert"
          /\ UNCHANGED <<notes, overlapped>>
      BY <1>0, <1>5, InsertDoes
    <2>2. \A n \in notes : rows'[n.id].state = "deleted" => rows[n.id].state = "deleted"
      BY <1>0, <2>1
    <2> QED
      BY <2>1, <2>2, NotesKept DEF Only
  <1>6. CASE ReadReactions(j) \/ ReadPinned(j) \/ Telling(j)
    <2>1. Only(j)
      BY <1>0, <1>6, ReadReactionsDoes, ReadPinnedDoes, TellingDoes
    <2>2. x.at # "cleanup"
      BY <1>6 DEF ReadReactions, ReadPinned, Telling, DeliverMessage, DeliverForward, DeliverEdit,
                  DeliverDelete, DeliverReactions
    <2>3. UNCHANGED <<rows, notes, overlapped>>
      BY <1>6 DEF ReadReactions, ReadPinned, Telling, DeliverMessage, DeliverForward, DeliverEdit,
                  DeliverDelete, DeliverReactions, Tell
    <2> QED
      BY <2>1, <2>2, <2>3, NotesKept DEF Only
  <1>7. CASE GiveUpLate(j)
    <2>1. Only(j)
      BY <1>0, <1>7, LosingDoes
    <2>2. x.at # "cleanup" /\ UNCHANGED <<rows, notes, overlapped>>
      BY <1>7 DEF GiveUpLate
    <2> QED
      BY <2>1, <2>2, NotesKept DEF Only
  <1> QED
    BY <1>1, <1>2, <1>3, <1>4, <1>5, <1>6, <1>7 DEF Handle, Telling

\* Notifications are kept by the requests.
LEMMA NotesRequest ==
    ASSUME Basics, NotesPointAtLive, NEW u \in Users, Requests(u)
    PROVE  NotesPointAtLive'
  <1>0. TypeOK /\ Born /\ Room /\ Idle.op = "idle"
    BY IdleHas DEF Basics, IdleFacts
  <1>1. PICK j \in Slots :
           \/ \E op \in {"send", "forward"} : RequestNew(j, u, op)
           \/ \E m \in Ids : Asking(j, u, m)
    BY DEF Requests, Asking
  <1>2. /\ Only(j) /\ job[j] = Idle
        /\ UNCHANGED <<rows, notes>> /\ overlapped \subseteq overlapped'
    BY <1>0, <1>1, RequestNewDoes, AskingDoes
  <1> QED
    BY <1>0, <1>2, NotesKept DEF Only

-----------------------------------------------------------------------------
(* The theorems.                                                           *)

\* The invariant holds at the start,
LEMMA InitIInv ==
    ASSUME Init
    PROVE  IInv
  <1> DEFINE row(m) == [state |-> IF m <= History THEN "live" ELSE "none", by |-> Author,
                        content |-> 0, reacts |-> {}, pinned |-> FALSE]
  <1>0. /\ History \in Nat /\ History <= MaxMsg /\ MaxMsg \in Nat /\ MaxReq \in Nat
        /\ \A m \in Ids : m \in Nat /\ m >= 1 /\ m <= MaxMsg
    BY ChatAssumption DEF Ids
  <1>1. /\ rows = [m \in Ids |-> row(m)]
        /\ lastId = History /\ notes = {} /\ replies = {} /\ overlapped = {}
        /\ job = [j \in Slots |-> Idle]
        /\ inbox = [u \in Users |-> <<>>] /\ cache = [u \in Users |-> <<>>]
        /\ load = [u \in Users |-> NoLoad] /\ online = [u \in Users |-> TRUE]
        /\ reqs = 0 /\ loads = 0 /\ drops = [u \in Users |-> 0]
        /\ stale = [u \in Users |-> 1..History]
    BY DEF Init
  <1>2. ASSUME NEW m \in Ids
        PROVE  row(m) \in Row /\ row(m).state = IF m <= History THEN "live" ELSE "none"
    BY ChatAssumption DEF Row, Content
  <1> HIDE DEF row
  <1>3. TypeOK
    <2>1. rows \in [Ids -> Row]
      BY <1>1, <1>2
    <2>2. lastId \in 0..MaxMsg /\ reqs \in 0..MaxReq /\ loads \in 0..MaxLoads /\ drops \in [Users -> 0..MaxDrops]
      BY <1>0, <1>1, ChatAssumption
    <2>3. job \in [Slots -> Job]
      BY <1>1, IdleIsJob
    <2>4. inbox \in [Users -> Seq(Event)] /\ cache \in [Users -> Seq(Entry)]
      BY <1>1
    <2>5. load \in [Users -> Load] /\ online \in [Users -> BOOLEAN]
      BY <1>1, NoLoadIsLoad
    <2>6. stale \in [Users -> SUBSET Ids]
      <3>1. 1..History \in SUBSET Ids
        BY <1>0 DEF Ids
      <3> QED
        BY <1>1, <3>1
    <2> QED
      BY <1>1, <2>1, <2>2, <2>3, <2>4, <2>5, <2>6 DEF TypeOK
  <1>4. \A j \in Slots : job[j] = Idle /\ job[j].op = "idle" /\ job[j].at = "check"
    BY <1>1, IdleHas DEF IdleFacts
  <1>5. \A u \in Users : /\ inbox[u] = <<>> /\ cache[u] = <<>>
                         /\ load[u].at = "none" /\ load[u].rows = <<>>
    BY <1>1, NoLoadIsLoad
  <1>6. Room
    <2>1. {j \in Slots : job[j].op # "idle" /\ job[j].at = "insert"} = {}
      BY <1>4
    <2>2. Unborn = 0
      BY <2>1, FS_EmptySet DEF Unborn
    <2> QED
      BY <1>0, <1>1, <2>2 DEF Room
  <1>7. JobShape
    BY <1>4, IdleShape DEF JobShape
  <1>8. Born
    <2>1. \A m \in Ids : rows[m].state = "none" <=> m > lastId
      BY <1>0, <1>1, <1>2
    <2> QED
      BY <1>1, <1>4, <1>5, <2>1, NothingDistinct DEF Born
  <1>9. NoDuplicates /\ NoDuplicatesLoaded
    BY <1>5, NothingDistinct DEF NoDuplicates, NoDuplicatesLoaded
  <1>10. ASSUME NEW m \in Ids
         PROVE  /\ Working(m) = {} /\ Answers(m) = {}
    BY <1>1, <1>4 DEF Working, Answers
  <1>11. OneAtATime
    BY <1>10 DEF OneAtATime, Alone, Holds
  <1>12. LoadFresh
    BY <1>5 DEF LoadFresh
  <1>13. CopiesFollow
    <2>1. ASSUME NEW u \in Users, NEW m \in Ids, m \notin stale[u] PROVE InStep(u, m)
      <3>1. ~(m <= History)
        BY <1>0, <1>1, <2>1
      <3>2. ~Due(m)
        <4>1. rows[m].state = "none" /\ ~Removing(m)
          BY <1>1, <1>2, <1>10, <3>1, Seen
        <4> QED
          BY <4>1 DEF Due
      <3>3. On(inbox[u], m) = {} /\ Of(cache[u], m) = {}
        BY <1>5, NothingDistinct DEF On
      <3>4. /\ Ordered(inbox[u], {}, m)
            /\ ~WillShow(inbox[u], {}, m)
        BY <3>3, Silent
      <3> QED
        BY <3>2, <3>3, <3>4 DEF InStep
    <2> QED
      BY <2>1 DEF CopiesFollow
  <1>14. NotesPointAtLive
    BY <1>1 DEF NotesPointAtLive
  <1> QED
    BY <1>3, <1>6, <1>7, <1>8, <1>9, <1>11, <1>12, <1>13, <1>14 DEF IInv, Basics

\* ... and every step keeps it.
LEMMA NextIInv ==
    ASSUME IInv, [Next]_vars
    PROVE  IInv'
  <1>0. Basics /\ OneAtATime /\ LoadFresh /\ CopiesFollow /\ NotesPointAtLive
    BY DEF IInv
  <1>1. ASSUME NEW u \in Users, Requests(u) PROVE IInv'
    <2>1. PICK j \in Slots :
             \/ \E op \in {"send", "forward"} : RequestNew(j, u, op)
             \/ \E m \in Ids : Asking(j, u, m)
      BY <1>1 DEF Requests, Asking
    <2>2. Basics'
      BY <1>0, <2>1, BasicsRequestNew, BasicsAsking
    <2>3. OneAtATime'
      <3>1. CASE \E op \in {"send", "forward"} : RequestNew(j, u, op)
        <4>1. /\ \A m \in Ids : Same(m)
              /\ UNCHANGED <<stale, overlapped>>
          BY <1>0, <3>1, RequestNewAt
        <4> QED
          BY <1>0, <4>1, SameKeeps DEF OneAtATime, Clean
      <3>2. CASE \E m \in Ids : Asking(j, u, m)
        BY <1>0, <3>2, OneAsking
      <3> QED
        BY <2>1, <3>1, <3>2
    <2>4. LoadFresh' /\ CopiesFollow' /\ NotesPointAtLive'
      BY <1>0, <1>1, LoadRequest, CopiesRequest, NotesRequest
    <2> QED
      BY <2>2, <2>3, <2>4 DEF IInv
  <1>2. ASSUME NEW u \in Users, Browse(u) PROVE IInv'
    <2>1. Basics'
      BY <1>0, <1>2, BasicsReceive, BasicsLoading, BasicsConnecting DEF Browse
    <2>2. OneAtATime' /\ LoadFresh' /\ CopiesFollow'
      BY <1>0, <1>2, OneBrowsing, LoadBrowsing, CopiesBrowsing
    <2>3. UNCHANGED <<rows, job, notes, overlapped>>
      BY <1>2 DEF Browse, Receive, Open, ReadRows, LoadArrives, LoadFails, Disconnect, Reconnect
    <2>4. NotesPointAtLive'
      BY <1>0, <2>3, NotesKept
    <2> QED
      BY <2>1, <2>2, <2>4 DEF IInv
  <1>3. ASSUME NEW j \in Slots, Handle(j) PROVE IInv'
    <2>1. Insert(j) \/ Handling(j)
      BY <1>3 DEF Handle, Handling, Reading, Telling
    <2>2. Basics'
      BY <1>0, <2>1, BasicsInsert, BasicsReading, BasicsWrite, BasicsReadReactions, BasicsReadPinned,
         BasicsTelling, BasicsLosing DEF Handling
    <2>3. OneAtATime'
      BY <1>0, <2>1, OneInsert, OneHandling
    <2>4. LoadFresh'
      BY <1>0, <2>1, LoadInsert, LoadHandling
    <2>5. CopiesFollow'
      BY <1>0, <2>1, CopiesInsert, CopiesHandling
    <2>6. NotesPointAtLive'
      BY <1>0, <1>3, NotesHandle
    <2> QED
      BY <2>2, <2>3, <2>4, <2>5, <2>6 DEF IInv
  <1>4. ASSUME NEW r \in replies, ReplyArrives(r) PROVE IInv'
    <2>1. Basics' /\ OneAtATime' /\ LoadFresh' /\ CopiesFollow'
      BY <1>0, <1>4, BasicsReply, OneReply, LoadReply, CopiesReply
    <2>2. UNCHANGED <<rows, job, notes, overlapped>>
      BY <1>4 DEF ReplyArrives
    <2>3. NotesPointAtLive'
      BY <1>0, <2>2, NotesKept
    <2> QED
      BY <2>1, <2>3 DEF IInv
  <1>5. CASE UNCHANGED vars
    <2>1. UNCHANGED <<rows, lastId, notes, job, inbox, replies, cache, load, online,
                      reqs, loads, drops, stale, overlapped>>
      BY <1>5 DEF vars
    <2>2. TypeOK'
      BY <1>0, <2>1 DEF Basics, TypeOK
    <2>3. Basics'
      BY <1>0, <2>1, <2>2, BasicsLists, BasicsBrowsing
    <2>4. ASSUME NEW m \in Ids PROVE Same(m)
      BY <2>1, BrowsingSame
    <2>5. OneAtATime'
      BY <1>0, <2>1, <2>4, SameKeeps DEF OneAtATime, Clean
    <2>6. LoadFresh'
      <3>1. \A m \in Ids : Busy(m)' <=> Busy(m)
        BY <2>4, SameKeeps
      <3> QED
        BY <1>0, <2>1, <3>1 DEF LoadFresh, Queued, Brings
    <2>7. CopiesFollow'
      <3>1. ASSUME NEW u \in Users, NEW m \in Ids, m \notin stale'[u] PROVE InStep(u, m)'
        <4>1. InStep(u, m)
          BY <1>0, <2>1, <3>1 DEF CopiesFollow
        <4> QED
          BY <2>1, <2>4, <4>1, StepSame DEF Alike
      <3> QED
        BY <3>1 DEF CopiesFollow
    <2>8. NotesPointAtLive'
      BY <1>0, <2>1, NotesKept
    <2> QED
      BY <2>3, <2>5, <2>6, <2>7, <2>8 DEF IInv
  <1> QED
    BY <1>1, <1>2, <1>3, <1>4, <1>5 DEF Next

\* The inductive invariant: the shape of handlers, queues and copies, who works alone
\* on a row, what a load will bring, and that every copy is in step with its row.
THEOREM Invariance == Spec => []IInv
  BY InitIInv, NextIInv, PTL DEF Spec

\* Rows, handlers, queues, answers, loads and copies keep their types, for any members,
\* history, number of handlers and bounds (message.handler.ts, chatStore.ts).
THEOREM TypeCorrect == Spec => []TypeOK
  <1>1. IInv => TypeOK
    BY DEF IInv, Basics
  <1> QED
    BY <1>1, Invariance, PTL

\* No copy shows a message twice: whatever loads, events and answers overtake each other,
\* addMessage appends only what is not there and a load replaces the list (chatStore.ts).
THEOREM ShownOnce == Spec => []NoDuplicates
  <1>1. IInv => NoDuplicates
    BY DEF IInv, Basics
  <1> QED
    BY <1>1, Invariance, PTL

\* When nothing runs and nothing is queued, in step means equal.
LEMMA InStepAgrees ==
    ASSUME IInv, Quiet, NEW u \in Users, NEW m \in Ids, m \notin stale[u]
    PROVE  Agrees(u, m)
  <1> DEFINE S == Of(cache[u], m)
             list == cache[u]
  <1>1. InStep(u, m) /\ NoDuplicates
    BY DEF IInv, Basics, CopiesFollow
  <1>2. Working(m) = {} /\ Answers(m) = {}
    BY IdleHas DEF Quiet, Working, Answers, IdleFacts
  <1>3. ~Sending(m) /\ ~Removing(m) /\ ~Editing(m) /\ ~Reacting(u, m)
    BY <1>2, Seen
  <1>4. Due(m) <=> rows[m].state = "live"
    BY <1>3 DEF Due
  <1>5. On(inbox[u], m) = {}
    BY NothingDistinct DEF Quiet, On
  <1>6. /\ WillShow(inbox[u], S, m) <=> S # {}
        /\ \A c : EndsWith(inbox[u], S, m, c) <=> \A x \in S : x.content = c
        /\ \A R : EndsReacted(inbox[u], S, m, R) <=> \A x \in S : x.reacts = R
    BY <1>5, Silent
  <1>7. /\ S # {} <=> rows[m].state = "live"
        /\ \A x \in S : x.content = rows[m].content /\ x.reacts = rows[m].reacts
    BY <1>1, <1>3, <1>4, <1>6 DEF InStep
  <1>8. m \in Shown(u) <=> S # {}
    BY OfIds DEF Shown
  <1>9. ASSUME m \in Shown(u) PROVE EntryOf(u, m) \in S
    <2>1. \E i \in DOMAIN list : list[i].id = m
      BY <1>9 DEF Shown, IdsOf
    <2> DEFINE i == CHOOSE k \in DOMAIN list : list[k].id = m
    <2>2. i \in DOMAIN list /\ list[i].id = m
      BY <2>1
    <2> QED
      BY <2>2 DEF EntryOf, Of
  <1> HIDE DEF S
  <1> QED
    BY <1>7, <1>8, <1>9 DEF Agrees

\* When every handler has ended and all events and answers have landed, each browser shows
\* of every row what the table holds, except for the rows an event of which it lost or two
\* requests or a load overlapped on: nothing else goes astray (message.handler.ts, chatStore.ts).
THEOREM CopiesConverge == Spec => []Converged
  <1>1. IInv => Converged
    <2>1. ASSUME IInv, Quiet, NEW u \in Users, NEW m \in 1..lastId, m \notin stale[u]
          PROVE  Agrees(u, m)
      <3>1. m \in Ids
        BY <2>1, ChatAssumption DEF IInv, Basics, TypeOK, Ids
      <3> QED
        BY <2>1, <3>1, InStepAgrees
    <2> QED
      BY <2>1 DEF Converged
  <1> QED
    BY <1>1, Invariance, PTL

\* A notification points at a message that is live or about to be cleaned up after, unless
\* two requests overlapped on it or the clean-up failed (Message.service.ts).
THEOREM NotesLive == Spec => []NotesPointAtLive
  <1>1. IInv => NotesPointAtLive
    BY DEF IInv
  <1> QED
    BY <1>1, Invariance, PTL

=============================================================================
