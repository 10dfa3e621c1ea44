-------------------------- MODULE RemindersProofs --------------------------
(***************************************************************************)
(* What is marked as sent was reminded of, and nobody is reminded twice,   *)
(* for any number of reminders, requests and overlapping polls.            *)
(*                                                                         *)
(* Neither is inductive.  A poll marks rows by the ids it read long ago,   *)
(* so the first needs to know what a run holds: the setting of the row, or *)
(* one before a setting that was made meanwhile (Held), and reported if it *)
(* is to be marked (Reports).  The second counts, for each setting, the    *)
(* runs that may yet notify of it, and while it can still be found those   *)
(* that have and have not marked it (Counted).                             *)
(***************************************************************************)
EXTENDS Reminders, FiniteSetTheorems, TLAPS

\* The setting of a row is the last that was made, and the bound on turns
\* leaves room for those under way.
Setting(k) ==
    /\ arms[k] + (IF job[k].op = "set" THEN 1 ELSE 0) <= turns
    /\ row[k] # NONE => /\ row[k].arm = arms[k]
                        /\ kind # "task" => row[k].who \in Users

\* What a run is at says whether it has a reminder in hand; it has each but once.
Shape(r) ==
    /\ r.at \in {"wants", "notify", "mark"} => r.cur \in Item
    /\ r.at \in {"idle", "loop"} => r.cur = NONE
    /\ r.at = "idle" => r.todo = {} /\ r.ids = {}
    /\ \A x, y \in r.todo \cup r.ids \cup {r.cur} : x # NONE /\ y # NONE /\ x.key = y.key => x = y
    /\ r.todo \cap r.ids = {} /\ r.cur \notin r.todo \cup r.ids

Settings == \A k \in Keys : Setting(k)
Stages == \A p \in Polls : Shape(poll[p])
IType == TypeOK /\ Settings /\ Stages

\* What a run holds is the setting of the row, or one before it, and then the row
\* was set meanwhile.
Items(r) == (r.todo \cup r.ids \cup {r.cur}) \ {NONE}
Held(x) ==
    /\ x.arm <= arms[x.key]
    /\ row[x.key] # NONE => IF row[x.key].arm = x.arm THEN row[x.key].born = x.born
                             ELSE row[x.key].arm \in moved[x.key]
Helds == \A p \in Polls : \A x \in Items(poll[p]) : Held(x)

\* What is to be marked was reported.
Reported(x) == fired[x.key][x.arm] > 0 \/ x.arm \in spared[x.key]
Reports ==
    \A p \in Polls : /\ \A x \in poll[p].ids : Reported(x)
                     /\ poll[p].at = "mark" => Reported(poll[p].cur)

SInv == IType /\ Helds /\ Reports /\ SentWasReminded

\* The runs that may yet notify of a setting, and those that have and will mark it.
Before(r) == r.todo \cup {x \in {r.cur} : r.at \in {"wants", "notify"}}
After(r) == r.ids \cup {x \in {r.cur} : r.at = "mark"}
In(items, k, a) == \E x \in items : x.key = k /\ x.arm = a
Ahead(k, a) == {p \in Polls : In(Before(poll[p]), k, a)}
Behind(k, a) == {p \in Polls : In(After(poll[p]), k, a)}

Findable(k, a) == row[k] # NONE /\ row[k].arm = a /\ ~row[k].sent
Bound(k, a) == IF a \in shared[k] THEN Cardinality(Polls) ELSE 1
Count(k, a) ==
    /\ fired[k][a] > 0 => a <= arms[k]
    /\ ~failed => /\ fired[k][a] + Cardinality(Ahead(k, a)) <= Bound(k, a)
                  /\ Findable(k, a) => fired[k][a] <= Cardinality(Behind(k, a))
Counted == \A k \in Keys, a \in Arms : Count(k, a)

IInv == SInv /\ Counted

-----------------------------------------------------------------------------
(* Types.                                                                  *)

LEMMA SettingsType ==
  ASSUME IType, NEW k \in Keys, row[k] # NONE
  PROVE  row[k] \in Row /\ row[k].arm = arms[k] /\ arms[k] \in Arms
  BY DEF IType, TypeOK, Settings, Setting

LEMMA ItemType ==
  ASSUME IType, NEW k \in Keys, Due(k)
  PROVE  ItemOf(k) \in Item
  <1>1. row[k] \in Row /\ row[k] # NONE
    BY DEF IType, TypeOK, Due
  <1>2. row[k].who \in Users
    BY <1>1 DEF IType, Settings, Setting, Due, Row, Somebody
  <1>3. QED
    BY <1>1, <1>2 DEF ItemOf, Row, Item

LEMMA Put ==
  ASSUME NEW S, NEW f \in [Keys -> S], NEW k \in Keys, NEW v \in S, NEW g, g = [f EXCEPT ![k] = v]
  PROVE  g[k] = v /\ g \in [Keys -> S] /\ \A j \in Keys \ {k} : g[j] = f[j]
  OBVIOUS

\* The steps of requests, people and the clock.
LEMMA TypeRequests ==
  ASSUME IType, NEW k \in Keys, Set(k) \/ Drop(k) \/ Find(k) \/ Delete(k) \/ Toggle(k)
  PROVE  IType'
  <1>1. UNCHANGED <<kind, now, muted, poll, history, failed>>
    BY DEF Set, Drop, Begin, Find, Delete, Toggle
  <1>2. turns' \in 0..MaxTurns /\ turns' >= turns
    BY RemindersAssumption DEF Set, Drop, Begin, Find, Delete, Toggle, Turn, IType, TypeOK
  <1>3. \/ job' = job
        \/ \E r \in Job : /\ job' = [job EXCEPT ![k] = r]
                          /\ r.op = "set" => job[k].op = "set" \/ turns' = turns + 1
    <2>1. CASE Set(k)
      <3>1. [op |-> "set", at |-> "write", born |-> 0] \in Job
        BY RemindersAssumption DEF Job, Arms
      <3>2. QED
        BY <2>1, <3>1 DEF Set, Begin, Turn
    <2>2. CASE Drop(k)
      <3>1. row[k].born \in Arms
        BY <2>2, SettingsType DEF Drop, Row
      <3>2. [op |-> "drop", at |-> IF kind = "message" THEN "find" ELSE "write",
             born |-> row[k].born] \in Job
        BY <3>1 DEF Job
      <3>3. QED
        BY <2>2, <3>2 DEF Drop, Begin
    <2>3. Idle \in Job /\ Idle.op # "set"
      BY RemindersAssumption DEF Idle, Job, Arms
    <2>4. CASE Find(k)
      <3>1. CASE row[k] # NONE /\
                 job' = [job EXCEPT ![k] = [@ EXCEPT !.at = "write", !.born = row[k].born]]
        <4>1. job[k] \in Job /\ row[k].born \in Arms
          BY <3>1, SettingsType DEF IType, TypeOK, Row
        <4> DEFINE r == [job[k] EXCEPT !.at = "write", !.born = row[k].born]
        <4>2. r \in Job /\ r.op = job[k].op
          BY <4>1 DEF Job
        <4>3. job' = [job EXCEPT ![k] = r]
          BY <3>1
        <4> HIDE DEF r
        <4>4. QED
          BY <4>2, <4>3
      <3>2. CASE job' = [job EXCEPT ![k] = Idle]
        BY <2>3, <3>2
      <3>3. QED
        BY <2>4, <3>1, <3>2 DEF Find, Answer
    <2>5. CASE Delete(k)
      BY <2>3, <2>5 DEF Delete, Answer
    <2>6. CASE Toggle(k)
      BY <2>6 DEF Toggle
    <2>7. QED
      BY <2>1, <2>2, <2>4, <2>5, <2>6
  <1>4. /\ job' \in [Keys -> Job] /\ \A j \in Keys \ {k} : job'[j] = job[j]
        /\ job'[k].op = "set" => job[k].op = "set" \/ turns' = turns + 1
    <2>1. CASE job' = job
      BY <2>1 DEF IType, TypeOK
    <2>2. CASE job' # job
      <3>1. PICK r \in Job : /\ job' = [job EXCEPT ![k] = r]
                             /\ r.op = "set" => job[k].op = "set" \/ turns' = turns + 1
        BY <1>3, <2>2
      <3>2. job \in [Keys -> Job]
        BY DEF IType, TypeOK
      <3>3. job'[k] = r /\ job' \in [Keys -> Job] /\ \A j \in Keys \ {k} : job'[j] = job[j]
        BY <3>1, <3>2, Put
      <3>4. QED
        BY <3>1, <3>3
    <2>3. QED
      BY <2>1, <2>2
  <1>6. DOMAIN row' = Keys /\ \A j \in Keys : row'[j] = NONE \/ row'[j] = row[j]
    BY DEF Set, Drop, Begin, Find, Delete, Toggle, IType, TypeOK
  <1>7. open' \in [Keys -> BOOLEAN]
    BY DEF Set, Drop, Begin, Find, Delete, Toggle, IType, TypeOK
  <1>8. TypeOK'
    BY <1>1, <1>2, <1>4, <1>6, <1>7 DEF IType, TypeOK, history
  <1>9. Settings'
    <2> SUFFICES ASSUME NEW j \in Keys PROVE Setting(j)'
      BY DEF Settings
    <2>1. Setting(j) /\ arms'[j] = arms[j] /\ arms[j] \in Nat /\ turns \in Nat /\ turns' \in Nat
          /\ kind' = kind
      BY <1>1, <1>2, RemindersAssumption DEF IType, TypeOK, Settings, history, Arms
    <2>2. arms[j] + (IF job'[j].op = "set" THEN 1 ELSE 0) <= turns'
      BY <1>2, <1>4, <2>1 DEF Setting
    <2>3. row'[j] # NONE => row'[j].arm = arms[j] /\ (kind # "task" => row'[j].who \in Users)
      BY <1>6, <2>1 DEF Setting
    <2>4. QED
      BY <2>1, <2>2, <2>3 DEF Setting
  <1>10. Stages'
    BY <1>1 DEF IType, Stages
  <1>11. QED
    BY <1>8, <1>9, <1>10 DEF IType

\* A setting is made.
LEMMA Upserted ==
  ASSUME IType, NEW k \in Keys, Upsert(k)
  PROVE  /\ arms[k] \in Arms /\ arms[k] + 1 \in Arms
         /\ arms' = [arms EXCEPT ![k] = arms[k] + 1] /\ arms'[k] = arms[k] + 1
         /\ \E r \in Row : /\ row' = [row EXCEPT ![k] = r] /\ ~r.sent
                           /\ r.arm = arms[k] + 1
                           /\ kind # "task" => r.who \in Users
  <1>1. job[k].op = "set" /\ arms' = [arms EXCEPT ![k] = arms[k] + 1]
    BY DEF Upsert, At
  <1>2. arms[k] \in Arms /\ turns \in 0..MaxTurns /\ arms[k] + 1 <= turns
    BY <1>1 DEF IType, TypeOK, Settings, Setting
  <1>3. arms[k] + 1 \in Arms
    BY <1>2, RemindersAssumption DEF Arms
  <1>4. arms'[k] = arms[k] + 1
    BY <1>1 DEF IType, TypeOK
  <1>5. PICK when \in Moments, who \in (IF kind = "task" THEN Somebody ELSE {Owner[k]}) :
          row' = [row EXCEPT ![k] =
                   [at |-> when, sent |-> FALSE, who |-> who, arm |-> arms'[k],
                    born |-> IF @ = NONE THEN arms'[k] ELSE @.born]]
    BY DEF Upsert
  <1> DEFINE r == [at |-> when, sent |-> FALSE, who |-> who, arm |-> arms'[k],
                   born |-> IF row[k] = NONE THEN arms'[k] ELSE row[k].born]
  <1>6. when \in Times
    <2>1. now \in 1..MaxTime
      BY DEF IType, TypeOK, Times
    <2>2. when \in Nat /\ when >= 1 /\ when <= MaxTime
      BY <2>1, RemindersAssumption DEF Moments
    <2>3. QED
      BY <2>2, RemindersAssumption DEF Times
  <1>7. who \in Somebody /\ (kind # "task" => who \in Users)
    BY RemindersAssumption DEF Somebody
  <1>8. row[k] # NONE => row[k].born \in Arms
    BY SettingsType DEF Row
  <1>9. r \in Row
    BY <1>3, <1>4, <1>6, <1>7, <1>8 DEF Row
  <1>10. ~r.sent /\ r.arm = arms[k] + 1 /\ (kind # "task" => r.who \in Users)
    BY <1>4, <1>7
  <1>11. row' = [row EXCEPT ![k] = r]
    BY <1>5
  <1> HIDE DEF r
  <1>12. QED
    BY <1>1, <1>2, <1>3, <1>4, <1>9, <1>10, <1>11

LEMMA TypeUpsert ==
  ASSUME IType, NEW k \in Keys, Upsert(k)
  PROVE  IType'
  <1>1. PICK r \in Row : row' = [row EXCEPT ![k] = r] /\ r.arm = arms[k] + 1
                         /\ (kind # "task" => r.who \in Users)
    BY Upserted
  <1>2. /\ arms[k] \in Arms /\ arms[k] + 1 \in Arms
        /\ arms' = [arms EXCEPT ![k] = arms[k] + 1]
    BY Upserted
  <1>3. /\ UNCHANGED <<kind, now, open, muted, poll, turns, fired, spared, shared, failed>>
        /\ job' = [job EXCEPT ![k] = Idle] /\ job[k].op = "set"
        /\ moved' \in {moved, [moved EXCEPT ![k] = @ \cup {arms'[k]}]}
    BY DEF Upsert, Answer, At
  <1>4. Idle \in Job /\ Idle.op = "idle"
    BY RemindersAssumption DEF Idle, Job, Arms
  <1>5. job' \in [Keys -> Job]
    BY <1>3, <1>4 DEF IType, TypeOK
  <1>6. arms' \in [Keys -> Arms]
    BY <1>2 DEF IType, TypeOK
  <1>7. moved' \in [Keys -> SUBSET Arms]
    BY <1>2, <1>3 DEF IType, TypeOK
  <1>8. DOMAIN row' = Keys /\ row'[k] = r /\ \A j \in Keys \ {k} : row'[j] = row[j]
    BY <1>1 DEF IType, TypeOK
  <1>9. TypeOK'
    BY <1>3, <1>5, <1>6, <1>7, <1>8 DEF IType, TypeOK
  <1>10. Settings'
    <2> SUFFICES ASSUME NEW j \in Keys PROVE Setting(j)'
      BY DEF Settings
    <2>1. CASE j = k
      <3>1. arms'[j] = arms[k] + 1 /\ job'[j].op = "idle" /\ row'[j] = r
        BY <1>2, <1>3, <1>4, <1>8, <2>1 DEF IType, TypeOK
      <3>2. arms[k] + 1 <= turns
        BY <1>3 DEF IType, Settings, Setting
      <3>3. QED
        BY <1>1, <1>2, <1>3, <3>1, <3>2, RemindersAssumption DEF Setting, Arms
    <2>2. CASE j # k
      <3>1. arms'[j] = arms[j] /\ job'[j] = job[j] /\ row'[j] = row[j] /\ kind' = kind /\ turns' = turns
        BY <1>2, <1>3, <1>8, <2>2 DEF IType, TypeOK
      <3>2. QED
        BY <3>1 DEF IType, Settings, Setting
    <2>3. QED
      BY <2>1, <2>2
  <1>11. Stages'
    BY <1>3 DEF IType, Stages
  <1>12. QED
    BY <1>9, <1>10, <1>11 DEF IType

\* What an update leaves as it is.
LEMMA Updated ==
  ASSUME IType, NEW k \in Keys, UpdateTask(k)
  PROVE  /\ DOMAIN row' = Keys
         /\ \A j \in Keys : \/ row'[j] = row[j]
                            \/ /\ row[j] # NONE /\ row'[j] \in Row
                               /\ row'[j].sent = row[j].sent /\ row'[j].arm = row[j].arm
                               /\ row'[j].born = row[j].born
  <1>1. CASE row' = row
    BY <1>1 DEF IType, TypeOK
  <1>2. CASE row[k] # NONE /\ row' # row
    <2>1. row[k] \in Row
      BY <1>2, SettingsType
    <2>2. PICK when \in Moments \cup {row[k].at}, who \in Somebody :
             row' = [row EXCEPT ![k] = [row[k] EXCEPT !.at = when, !.who = who]]
      BY <1>2 DEF UpdateTask
    <2>3. when \in Times
      <3>1. CASE when = row[k].at
        BY <2>1, <3>1 DEF Row
      <3>2. CASE when \in Moments
        <4>1. now \in 1..MaxTime
          BY DEF IType, TypeOK, Times
        <4>2. when \in Nat /\ when >= 1 /\ when <= MaxTime
          BY <3>2, <4>1, RemindersAssumption DEF Moments
        <4>3. QED
          BY <4>2, RemindersAssumption DEF Times
      <3>3. QED
        BY <2>2, <3>1, <3>2
    <2> DEFINE r == [row[k] EXCEPT !.at = when, !.who = who]
    <2>4. /\ r \in Row /\ r.sent = row[k].sent /\ r.arm = row[k].arm
          /\ r.born = row[k].born
      BY <2>1, <2>2, <2>3 DEF Row
    <2>5. row' = [row EXCEPT ![k] = r]
      BY <2>2
    <2> HIDE DEF r
    <2>6. QED
      BY <1>2, <2>4, <2>5 DEF IType, TypeOK
  <1>3. QED
    BY <1>1, <1>2 DEF UpdateTask

LEMMA TypeUpdate ==
  ASSUME IType, NEW k \in Keys, UpdateTask(k)
  PROVE  IType'
  <1>1. /\ UNCHANGED <<kind, now, muted, poll, turns, history, failed>>
        /\ job' = [job EXCEPT ![k] = Idle] /\ kind = "task"
    BY DEF UpdateTask, Answer
  <1>2. Idle \in Job /\ Idle.op = "idle"
    BY RemindersAssumption DEF Idle, Job, Arms
  <1>3. job' \in [Keys -> Job] /\ \A j \in Keys : job'[j].op = "set" => job[j].op = "set"
    BY <1>1, <1>2 DEF IType, TypeOK
  <1>4. open' \in [Keys -> BOOLEAN]
    BY DEF UpdateTask, IType, TypeOK
  <1>5. TypeOK'
    BY <1>1, <1>3, <1>4, Updated DEF IType, TypeOK, history
  <1>6. Settings'
    <2> SUFFICES ASSUME NEW j \in Keys PROVE Setting(j)'
      BY DEF Settings
    <2>1. Setting(j) /\ arms[j] \in Nat /\ turns \in Nat /\ arms' = arms
      BY <1>1, RemindersAssumption DEF IType, TypeOK, Settings, history, Arms
    <2>2. row'[j] # NONE => row[j] # NONE /\ row'[j].arm = row[j].arm
      BY Updated
    <2>3. QED
      BY <1>1, <1>3, <2>1, <2>2 DEF Setting
  <1>7. Stages'
    BY <1>1 DEF IType, Stages
  <1>8. QED
    BY <1>5, <1>6, <1>7 DEF IType

LEMMA TypeAround ==
  ASSUME IType, (\E u \in Users : Mute(u)) \/ Clock
  PROVE  IType'
  <1>1. UNCHANGED <<kind, row, open, job, poll, history, failed>>
    BY DEF Mute, Clock
  <1>2. now' \in Times /\ muted' \subseteq Users
    BY RemindersAssumption DEF Mute, Clock, IType, TypeOK, Times
  <1>3. turns' \in 0..MaxTurns /\ turns' >= turns
    BY RemindersAssumption DEF Mute, Clock, Turn, IType, TypeOK
  <1>4. TypeOK'
    BY <1>1, <1>2, <1>3 DEF IType, TypeOK, history
  <1>5. Settings'
    <2> SUFFICES ASSUME NEW j \in Keys PROVE Setting(j)'
      BY DEF Settings
    <2>1. Setting(j) /\ arms[j] \in Nat /\ turns \in Nat /\ turns' \in Nat /\ arms' = arms
      BY <1>1, <1>3, RemindersAssumption DEF IType, TypeOK, Settings, history, Arms
    <2>2. QED
      BY <1>1, <1>3, <2>1 DEF Setting
  <1>6. Stages'
    BY <1>1 DEF IType, Stages
  <1>7. QED
    BY <1>4, <1>5, <1>6 DEF IType

\* A run moves on, or starts; the others stay as they are.
LEMMA RunMoves ==
  ASSUME IType, NEW p \in Polls, Run(p) \/ PollFault(p)
  PROVE  /\ poll' \in [Polls -> Poll] /\ \A q \in Polls \ {p} : poll'[q] = poll[q]
         /\ Shape(poll'[p])
  <1>1. poll \in [Polls -> Poll] /\ poll[p] \in Poll /\ Shape(poll[p])
    BY DEF IType, TypeOK, Stages
  <1>2. NONE \notin Item
    BY NoneAssumption
  <1> DEFINE Fine(r) == r \in Poll /\ Shape(r)
  <1>3. ASSUME NEW x \in poll[p].todo, Skip(p, x), poll[p].at = "loop"
        PROVE  \E r : Fine(r) /\ poll' = [poll EXCEPT ![p] = r]
    <2> DEFINE r == [poll[p] EXCEPT !.todo = poll[p].todo \ {x}]
    <2>1. r \in Poll
      BY <1>1 DEF Poll
    <2>2. Shape(r)
      BY <1>1, <1>3 DEF Shape, Poll
    <2>3. poll' = [poll EXCEPT ![p] = r]
      BY <1>3 DEF Skip
    <2> HIDE DEF r
    <2>4. QED
      BY <2>1, <2>2, <2>3
  <1>4. ASSUME GoBack(p), poll[p].at \in {"wants", "notify", "mark"}
        PROVE  \E r : Fine(r) /\ poll' = [poll EXCEPT ![p] = r]
    <2> DEFINE r == [poll[p] EXCEPT !.at = "loop", !.cur = NONE]
    <2>1. r \in Poll
      BY <1>1 DEF Poll
    <2>2. Shape(r)
      BY <1>1, <1>2, <1>4 DEF Shape, Poll
    <2>3. poll' = [poll EXCEPT ![p] = r]
      BY <1>4 DEF GoBack
    <2> HIDE DEF r
    <2>4. QED
      BY <2>1, <2>2, <2>3
  <1>5. ASSUME Consume(p), poll[p].at \in {"wants", "notify"}
        PROVE  \E r : Fine(r) /\ poll' = [poll EXCEPT ![p] = r]
    <2> DEFINE r == [at |-> "loop", todo |-> poll[p].todo, cur |-> NONE,
                     ids |-> poll[p].ids \cup {poll[p].cur}]
    <2>1. poll[p].cur \in Item
      BY <1>1, <1>5 DEF Shape
    <2>2. r \in Poll
      BY <1>1, <2>1 DEF Poll
    <2>3. Shape(r)
      BY <1>1, <1>2, <1>5, <2>1 DEF Shape, Poll
    <2>4. poll' = [poll EXCEPT ![p] = r]
      BY <1>5 DEF Consume
    <2> HIDE DEF r
    <2>5. QED
      BY <2>2, <2>3, <2>4
  <1>6. ASSUME NEW stage \in {"notify", "mark"}, GoTo(p, stage),
               poll[p].at \in {"wants", "notify"}
        PROVE  \E r : Fine(r) /\ poll' = [poll EXCEPT ![p] = r]
    <2> DEFINE r == [poll[p] EXCEPT !.at = stage]
    <2>1. r \in Poll
      BY <1>1 DEF Poll
    <2>2. Shape(r)
      BY <1>1, <1>6 DEF Shape, Poll
    <2>3. poll' = [poll EXCEPT ![p] = r]
      BY <1>6 DEF GoTo
    <2> HIDE DEF r
    <2>4. QED
      BY <2>1, <2>2, <2>3
  <1>7. Fine(Resting)
    BY <1>2 DEF Resting, Poll, Shape
  <1>8. CASE Start(p)
    <2>1. PICK d \in Batches :
            poll' = [poll EXCEPT ![p] = [at |-> "loop", todo |-> {ItemOf(k) : k \in d},
                                         cur |-> NONE, ids |-> {}]]
      BY <1>8 DEF Start
    <2>2. \A k \in d : k \in Keys /\ Due(k) /\ ItemOf(k) \in Item /\ ItemOf(k).key = k
      BY ItemType DEF Batches, ItemOf
    <2> DEFINE T == {ItemOf(k) : k \in d}
               r == [at |-> "loop", todo |-> T, cur |-> NONE, ids |-> {}]
    <2>3. T \subseteq Item /\ \A x, y \in T : x.key = y.key => x = y
      BY <2>2
    <2> HIDE DEF T
    <2>4. r \in Poll
      BY <2>3 DEF Poll
    <2>5. Shape(r)
      BY <1>2, <2>3 DEF Shape
    <2>6. poll' = [poll EXCEPT ![p] = r]
      BY <2>1 DEF T
    <2> HIDE DEF r
    <2>7. QED
      BY <1>1, <2>4, <2>5, <2>6
  <1>9. CASE Take(p)
    <2>1. PICK x \in poll[p].todo :
            \/ Skip(p, x)
            \/ poll' = [poll EXCEPT ![p] = [at |-> "wants", todo |-> @.todo \ {x}, cur |-> x, ids |-> @.ids]]
      BY <1>9 DEF Take
    <2>2. poll[p].at = "loop"
      BY <1>9 DEF Take
    <2> DEFINE r == [at |-> "wants", todo |-> poll[p].todo \ {x}, cur |-> x, ids |-> poll[p].ids]
    <2>3. r \in Poll
      BY <1>1 DEF Poll
    <2>4. Shape(r)
      BY <1>1, <1>2, <2>2 DEF Shape, Poll
    <2>5. CASE poll' = [poll EXCEPT ![p] = [at |-> "wants", todo |-> @.todo \ {x}, cur |-> x, ids |-> @.ids]]
      <3>1. poll' = [poll EXCEPT ![p] = r]
        BY <2>5
      <3> HIDE DEF r
      <3>2. QED
        BY <1>1, <2>3, <2>4, <3>1
    <2>6. CASE Skip(p, x)
      BY <1>1, <1>3, <2>2, <2>6
    <2>7. QED
      BY <2>1, <2>5, <2>6
  <1>10. CASE Wants(p)
    BY <1>1, <1>5, <1>6, <1>10 DEF Wants, DoneMuted, Done
  <1>11. CASE Notify(p)
    BY <1>1, <1>5, <1>6, <1>11 DEF Notify, Done
  <1>12. CASE Mark(p)
    BY <1>1, <1>4, <1>12 DEF Mark
  <1>13. CASE End(p)
    BY <1>1, <1>7, <1>13 DEF End
  <1>14. CASE PollFault(p)
    BY <1>1, <1>3, <1>4, <1>7, <1>14 DEF PollFault
  <1>15. QED
    BY <1>8, <1>9, <1>10, <1>11, <1>12, <1>13, <1>14 DEF Run

\* A poll marks rows, and leaves the rest of them to others.
LEMMA RunLeaves ==
  ASSUME IType, NEW p \in Polls, Run(p) \/ PollFault(p)
  PROVE  /\ UNCHANGED <<kind, now, open, muted, job, arms, moved>>
         /\ turns' \in 0..MaxTurns /\ turns' >= turns
         /\ failed' \in BOOLEAN
         /\ DOMAIN row' = Keys
         /\ \A k \in Keys : \/ row'[k] = row[k]
                            \/ /\ row[k] # NONE /\ row'[k] \in Row
                               /\ row'[k] = [row[k] EXCEPT !.sent = TRUE]
  <1>1. UNCHANGED <<kind, now, open, muted, job, arms, moved>>
    BY DEF Run, Start, Take, Wants, Notify, Mark, End, PollFault, history
  <1>2. /\ turns' \in 0..MaxTurns /\ turns' >= turns
        /\ failed' \in BOOLEAN
    <2>1. CASE UNCHANGED <<turns, failed>>
      BY <2>1, RemindersAssumption DEF IType, TypeOK
    <2>2. CASE Mishap
      BY <2>2, RemindersAssumption DEF Mishap, Turn, IType, TypeOK
    <2>3. QED
      BY <2>1, <2>2 DEF Run, Start, Take, Wants, Notify, Mark, End, PollFault
  <1>3. ASSUME NEW items, MarkSent(items)
        PROVE  /\ DOMAIN row' = Keys
               /\ \A k \in Keys : \/ row'[k] = row[k]
                                  \/ /\ row[k] # NONE /\ row'[k] \in Row
                                     /\ row'[k] = [row[k] EXCEPT !.sent = TRUE]
    <2>1. \A k \in Keys : row[k] # NONE => [row[k] EXCEPT !.sent = TRUE] \in Row
      BY SettingsType DEF Row
    <2>2. QED
      BY <1>3, <2>1 DEF MarkSent
  <1>4. CASE UNCHANGED row
    BY <1>1, <1>2, <1>4 DEF IType, TypeOK
  <1>5. CASE Mark(p) \/ End(p)
    BY <1>1, <1>2, <1>3, <1>5 DEF Mark, End
  <1>6. QED
    BY <1>4, <1>5 DEF Run, Start, Take, Wants, Notify, PollFault

LEMMA RunReports ==
  ASSUME IType, NEW p \in Polls, Run(p) \/ PollFault(p)
  PROVE  /\ fired' \in [Keys -> [Arms -> Nat]]
         /\ spared' \in [Keys -> SUBSET Arms]
         /\ shared' \in [Keys -> SUBSET Arms]
  <1>1. /\ fired \in [Keys -> [Arms -> Nat]]
        /\ spared \in [Keys -> SUBSET Arms] /\ shared \in [Keys -> SUBSET Arms]
    BY DEF IType, TypeOK
  <1>2. CASE Start(p)
    <2>1. UNCHANGED <<fired, spared>>
      BY <1>2 DEF Start
    <2>2. PICK d \in Batches : shared' = [k \in Keys |->
              IF k \in d /\ \E q \in Polls : Holds(q, k)
              THEN shared[k] \cup {row[k].arm} ELSE shared[k]]
      BY <1>2 DEF Start
    <2>3. \A k \in d : row[k].arm \in Arms
      BY SettingsType DEF Batches, Due
    <2>4. QED
      BY <1>1, <2>1, <2>2, <2>3
  <1>3. CASE Wants(p)
    <2>1. poll[p].cur \in Item
      BY <1>3 DEF Wants, IType, Stages, Shape
    <2>2. poll[p].cur.key \in Keys /\ poll[p].cur.arm \in Arms
      BY <2>1 DEF Item
    <2>3. QED
      BY <1>1, <1>3, <2>2 DEF Wants
  <1>4. CASE Notify(p)
    <2>1. poll[p].cur \in Item
      BY <1>4 DEF Notify, IType, Stages, Shape
    <2>2. poll[p].cur.key \in Keys /\ poll[p].cur.arm \in Arms
      BY <2>1 DEF Item
    <2>3. QED
      BY <1>1, <1>4, <2>2 DEF Notify
  <1>5. CASE UNCHANGED <<fired, spared, shared>>
    BY <1>1, <1>5
  <1>6. QED
    BY <1>2, <1>3, <1>4, <1>5 DEF Run, Take, Mark, End, PollFault, history

LEMMA TypeRun ==
  ASSUME IType, NEW p \in Polls, Run(p) \/ PollFault(p)
  PROVE  IType'
  <1>1. TypeOK'
    <2>1. UNCHANGED <<kind, now, open, muted, job, arms, moved>>
      BY RunLeaves
    <2>2. turns' \in 0..MaxTurns /\ failed' \in BOOLEAN /\ DOMAIN row' = Keys
      BY RunLeaves
    <2>3. \A k \in Keys : row'[k] = NONE \/ row'[k] \in Row
      BY RunLeaves DEF IType, TypeOK
    <2>4. poll' \in [Polls -> Poll]
      BY RunMoves
    <2>5. QED
      BY <2>1, <2>2, <2>3, <2>4, RunReports DEF IType, TypeOK
  <1>2. Settings'
    <2> SUFFICES ASSUME NEW k \in Keys PROVE Setting(k)'
      BY DEF Settings
    <2>1. Setting(k) /\ arms[k] \in Nat /\ turns \in Nat /\ turns' \in Nat
      BY RunLeaves, RemindersAssumption DEF IType, TypeOK, Settings, Arms
    <2>2. UNCHANGED <<kind, job, arms>> /\ turns' >= turns
      BY RunLeaves
    <2>3. row'[k] # NONE => row[k] # NONE /\ row'[k].arm = row[k].arm /\ row'[k].who = row[k].who
      <3>1. row[k] # NONE => row[k] \in Row
        BY SettingsType
      <3>2. QED
        BY <3>1, RunLeaves DEF Row
    <2>4. QED
      BY <2>1, <2>2, <2>3 DEF Setting
  <1>3. Stages'
    BY RunMoves DEF IType, Stages
  <1>4. QED
    BY <1>1, <1>2, <1>3 DEF IType

LEMMA TypeRestart ==
  ASSUME IType, Restart
  PROVE  IType'
  <1>1. /\ UNCHANGED <<kind, now, row, open, muted, history>>
        /\ job' = [k \in Keys |-> Idle] /\ poll' = [p \in Polls |-> Resting] /\ failed' = TRUE
        /\ turns' = turns + 1 /\ turns < MaxTurns
    BY DEF Restart, Mishap, Turn
  <1>2. Idle \in Job /\ Idle.op = "idle"
    BY RemindersAssumption DEF Idle, Job, Arms
  <1>3. Resting \in Poll /\ Shape(Resting)
    BY NoneAssumption DEF Resting, Poll, Shape
  <1>4. TypeOK'
    BY <1>1, <1>2, <1>3, RemindersAssumption DEF IType, TypeOK, history
  <1>5. Settings'
    <2> SUFFICES ASSUME NEW k \in Keys PROVE Setting(k)'
      BY DEF Settings
    <2>1. Setting(k) /\ arms[k] \in Nat /\ turns \in Nat
      BY RemindersAssumption DEF IType, TypeOK, Settings, Arms
    <2>2. QED
      BY <1>1, <1>2, <2>1 DEF Setting, history
  <1>6. Stages'
    BY <1>1, <1>3 DEF Stages
  <1>7. QED
    BY <1>4, <1>5, <1>6 DEF IType

LEMMA TypeInit == Init => IType
  <1> SUFFICES ASSUME Init PROVE IType
    OBVIOUS
  <1>1. Idle \in Job /\ Idle.op = "idle"
    BY RemindersAssumption DEF Idle, Job, Arms
  <1>2. Resting \in Poll /\ Shape(Resting)
    BY NoneAssumption DEF Resting, Poll, Shape
  <1>3. 0 \in Arms /\ 1 \in Times /\ 0 \in 0..MaxTurns
    BY RemindersAssumption DEF Arms, Times
  <1>4. TypeOK
    BY <1>1, <1>2, <1>3 DEF Init, TypeOK
  <1>5. Settings
    BY <1>1 DEF Init, Settings, Setting
  <1>6. Stages
    BY <1>2 DEF Init, Stages
  <1>7. QED
    BY <1>4, <1>5, <1>6 DEF IType

\* The steps, one lemma each.
LEMMA TypeStep ==
  ASSUME IType, [Next]_vars
  PROVE  IType'
  <1>1. CASE UNCHANGED vars
    BY <1>1 DEF vars, history, IType, TypeOK, Settings, Setting, Stages
  <1>2. CASE Next
    BY <1>2, TypeRequests, TypeUpsert, TypeUpdate, TypeAround, TypeRun, TypeRestart DEF Next, Handle
  <1>3. QED
    BY <1>1, <1>2

\* Every variable keeps its type, a setting has an owner and is the last that was made,
\* a run has each reminder once (Reminder.service.ts, Task.service.ts).
THEOREM TypeCorrect == Spec => []TypeOK
  <1>1. IType /\ [Next]_vars => IType'
    BY TypeStep
  <1>2. IType => TypeOK
    BY DEF IType
  <1>3. QED
    BY TypeInit, <1>1, <1>2, PTL DEF Spec

-----------------------------------------------------------------------------
(* What is marked was reported.                                            *)

\* Rows may go, and change what nothing here depends on.
LEMMA RowsStay ==
  ASSUME SInv, IType', UNCHANGED <<poll, history>>,
         \A k \in Keys : row'[k] = NONE \/ (row[k] # NONE /\ row'[k].sent = row[k].sent
                           /\ row'[k].arm = row[k].arm /\ row'[k].born = row[k].born)
  PROVE  SInv'
  <1>1. UNCHANGED <<poll, arms, fired, spared, moved>>
    BY DEF history
  <1>2. Helds'
    <2> SUFFICES ASSUME NEW p \in Polls, NEW x \in Items(poll[p]) PROVE Held(x)'
      BY <1>1 DEF Helds
    <2>1. x.key \in Keys /\ Held(x)
      BY DEF SInv, IType, TypeOK, Poll, Helds, Items, Item
    <2>2. QED
      BY <1>1, <2>1 DEF Held
  <1>3. Reports'
    BY <1>1 DEF SInv, Reports, Reported
  <1>4. SentWasReminded'
    BY <1>1 DEF SInv, SentWasReminded
  <1>5. QED
    BY <1>2, <1>3, <1>4 DEF SInv

LEMMA RowsOf ==
  ASSUME IType, NEW k \in Keys,
         Set(k) \/ Drop(k) \/ Find(k) \/ Delete(k) \/ Toggle(k) \/ UpdateTask(k)
  PROVE  /\ UNCHANGED <<poll, history, failed>>
         /\ \A j \in Keys : row'[j] = NONE \/ (row[j] # NONE /\ row'[j].sent = row[j].sent
                              /\ row'[j].arm = row[j].arm /\ row'[j].born = row[j].born)
  <1>1. UNCHANGED <<poll, history, failed>>
    BY DEF Set, Drop, Begin, Find, Delete, Toggle, UpdateTask
  <1>2. CASE UpdateTask(k)
    BY <1>1, <1>2, Updated
  <1>3. CASE Set(k) \/ Drop(k) \/ Find(k) \/ Delete(k) \/ Toggle(k)
    BY <1>1, <1>3 DEF Set, Drop, Begin, Find, Delete, Toggle, IType, TypeOK
  <1>4. QED
    BY <1>2, <1>3

LEMMA UpsertReported ==
  ASSUME SInv, IType', NEW k \in Keys, Upsert(k)
  PROVE  SInv'
  <1>1. PICK r \in Row : row' = [row EXCEPT ![k] = r] /\ ~r.sent /\ r.arm = arms[k] + 1
    BY Upserted DEF SInv
  <1>2. /\ arms[k] \in Arms /\ arms[k] + 1 \in Arms
        /\ arms' = [arms EXCEPT ![k] = arms[k] + 1] /\ arms'[k] = arms[k] + 1
    BY Upserted DEF SInv
  <1>3. /\ UNCHANGED <<poll, fired, spared, shared>>
        /\ moved' = IF \E p \in Polls : Holds(p, k)
                    THEN [moved EXCEPT ![k] = @ \cup {arms'[k]}] ELSE moved
    BY DEF Upsert
  <1>4. row'[k] = r /\ \A j \in Keys \ {k} : row'[j] = row[j] /\ arms'[j] = arms[j]
    BY <1>1, <1>2 DEF SInv, IType, TypeOK
  <1>5. \A j \in Keys : moved[j] \subseteq moved'[j]
    BY <1>3 DEF SInv, IType, TypeOK
  <1>6. Helds'
    <2> SUFFICES ASSUME NEW p \in Polls, NEW x \in Items(poll[p]) PROVE Held(x)'
      BY <1>3 DEF Helds
    <2>1. x \in Item /\ x.key \in Keys /\ x.arm \in Arms /\ Held(x)
      BY DEF SInv, IType, TypeOK, Poll, Helds, Items, Item
    <2>2. CASE x.key # k
      <3>1. row'[x.key] = row[x.key] /\ arms'[x.key] = arms[x.key]
            /\ moved[x.key] \subseteq moved'[x.key]
        BY <1>4, <1>5, <2>1, <2>2
      <3>2. QED
        BY <2>1, <3>1 DEF Held
    <2>3. CASE x.key = k
      <3>1. x.arm <= arms[k]
        BY <2>1, <2>3 DEF Held
      <3>2. Holds(p, k)
        BY <2>1, <2>3 DEF Holds, Items
      <3>3. arms[k] + 1 \in moved'[k]
        BY <1>2, <1>3, <3>2 DEF SInv, IType, TypeOK
      <3>4. x.arm <= arms[k] + 1 /\ x.arm # arms[k] + 1
        BY <1>2, <2>1, <3>1 DEF Arms
      <3>5. QED
        BY <1>1, <1>2, <1>4, <2>3, <3>3, <3>4 DEF Held
    <2>4. QED
      BY <2>2, <2>3
  <1>7. Reports'
    BY <1>3 DEF SInv, Reports, Reported
  <1>8. SentWasReminded'
    <2> SUFFICES ASSUME NEW j \in Keys, row'[j] # NONE, row'[j].sent
                 PROVE  fired'[j][row'[j].arm] > 0 \/ row'[j].arm \in spared'[j] \cup moved'[j]
      BY DEF SentWasReminded
    <2>1. j # k
      BY <1>1, <1>4
    <2>2. row'[j] = row[j] /\ moved[j] \subseteq moved'[j]
      BY <1>4, <1>5, <2>1
    <2>3. QED
      BY <1>3, <2>2 DEF SInv, SentWasReminded
  <1>9. QED
    BY <1>6, <1>7, <1>8 DEF SInv

\* The fields of a run after each of its moves.
LEMMA Fields ==
  ASSUME IType, NEW p \in Polls
  PROVE  /\ \A x : Skip(p, x) => /\ poll'[p].at = poll[p].at /\ poll'[p].cur = poll[p].cur
                                 /\ poll'[p].todo = poll[p].todo \ {x}
                                 /\ poll'[p].ids = poll[p].ids
         /\ GoBack(p) => /\ poll'[p].at = "loop" /\ poll'[p].cur = NONE
                         /\ poll'[p].todo = poll[p].todo /\ poll'[p].ids = poll[p].ids
         /\ Consume(p) => /\ poll'[p].at = "loop" /\ poll'[p].cur = NONE
                          /\ poll'[p].todo = poll[p].todo
                          /\ poll'[p].ids = poll[p].ids \cup {poll[p].cur}
         /\ \A stage : GoTo(p, stage) => /\ poll'[p].at = stage /\ poll'[p].cur = poll[p].cur
                                         /\ poll'[p].todo = poll[p].todo
                                         /\ poll'[p].ids = poll[p].ids
  <1>1. poll \in [Polls -> Poll] /\ poll[p] \in Poll
    BY DEF IType, TypeOK
  <1>2. ASSUME NEW x, Skip(p, x)
        PROVE  /\ poll'[p].at = poll[p].at /\ poll'[p].cur = poll[p].cur
               /\ poll'[p].todo = poll[p].todo \ {x} /\ poll'[p].ids = poll[p].ids
    BY <1>1, <1>2 DEF Skip, Poll
  <1>3. ASSUME GoBack(p)
        PROVE  /\ poll'[p].at = "loop" /\ poll'[p].cur = NONE
               /\ poll'[p].todo = poll[p].todo /\ poll'[p].ids = poll[p].ids
    BY <1>1, <1>3 DEF GoBack, Poll
  <1>4. ASSUME Consume(p)
        PROVE  /\ poll'[p].at = "loop" /\ poll'[p].cur = NONE
               /\ poll'[p].todo = poll[p].todo
               /\ poll'[p].ids = poll[p].ids \cup {poll[p].cur}
    BY <1>1, <1>4 DEF Consume
  <1>5. ASSUME NEW stage, GoTo(p, stage)
        PROVE  /\ poll'[p].at = stage /\ poll'[p].cur = poll[p].cur
               /\ poll'[p].todo = poll[p].todo /\ poll'[p].ids = poll[p].ids
    BY <1>1, <1>5 DEF GoTo, Poll
  <1>6. QED
    BY <1>2, <1>3, <1>4, <1>5

\* What a run holds it held, except what it starts with.
LEMMA ItemsStay ==
  ASSUME IType, NEW p \in Polls, Run(p) \/ PollFault(p), ~Start(p)
  PROVE  Items(poll'[p]) \subseteq Items(poll[p])
  <1>1. \A x : Skip(p, x) => Items(poll'[p]) \subseteq Items(poll[p])
    BY Fields DEF Items
  <1>2. GoBack(p) \/ Consume(p) => Items(poll'[p]) \subseteq Items(poll[p])
    BY Fields DEF Items
  <1>3. \A stage : GoTo(p, stage) => Items(poll'[p]) \subseteq Items(poll[p])
    BY Fields DEF Items
  <1>4. CASE Take(p)
    <2>1. PICK x \in poll[p].todo :
            \/ Skip(p, x)
            \/ poll' = [poll EXCEPT ![p] = [at |-> "wants", todo |-> @.todo \ {x}, cur |-> x, ids |-> @.ids]]
      BY <1>4 DEF Take
    <2>2. QED
      BY <1>1, <2>1 DEF Items, IType, TypeOK
  <1>5. CASE Wants(p)
    BY <1>2, <1>3, <1>5 DEF Wants, DoneMuted, Done
  <1>6. CASE Notify(p)
    BY <1>2, <1>3, <1>6 DEF Notify, Done
  <1>7. CASE Mark(p)
    BY <1>2, <1>7 DEF Mark
  <1>8. poll' = [poll EXCEPT ![p] = Resting] => Items(poll'[p]) \subseteq Items(poll[p])
    BY DEF Items, Resting, IType, TypeOK
  <1>9. CASE End(p)
    BY <1>8, <1>9 DEF End
  <1>10. CASE PollFault(p)
    BY <1>1, <1>2, <1>8, <1>10 DEF PollFault
  <1>11. QED
    BY <1>4, <1>5, <1>6, <1>7, <1>9, <1>10 DEF Run

LEMMA RunHolds ==
  ASSUME SInv, NEW p \in Polls, Run(p) \/ PollFault(p)
  PROVE  Helds'
  <1>1. IType
    BY DEF SInv
  <1>2. \A q \in Polls \ {p} : poll'[q] = poll[q]
    BY <1>1, RunMoves
  <1>3. UNCHANGED <<arms, moved>>
    BY <1>1, RunLeaves
  <1>4. \A k \in Keys : row'[k] # NONE =>
           row[k] # NONE /\ row'[k].arm = row[k].arm /\ row'[k].born = row[k].born
    <2> SUFFICES ASSUME NEW k \in Keys, row'[k] # NONE
                 PROVE  row[k] # NONE /\ row'[k].arm = row[k].arm /\ row'[k].born = row[k].born
      OBVIOUS
    <2>1. row[k] # NONE => row[k] \in Row
      BY <1>1, SettingsType
    <2>2. \/ row'[k] = row[k]
          \/ row[k] # NONE /\ row'[k] = [row[k] EXCEPT !.sent = TRUE]
      BY <1>1, RunLeaves
    <2>3. QED
      BY <2>1, <2>2 DEF Row
  <1>5. ASSUME NEW x, x.key \in Keys, Held(x) PROVE Held(x)'
    BY <1>3, <1>4, <1>5 DEF Held
  <1>6. \A q \in Polls : \A x \in Items(poll[q]) : x.key \in Keys /\ Held(x)
    BY <1>1 DEF IType, TypeOK, Poll, Item, Items, SInv, Helds
  <1>7. CASE Start(p)
    <2>1. PICK d \in Batches :
            poll' = [poll EXCEPT ![p] = [at |-> "loop", todo |-> {ItemOf(k) : k \in d},
                                         cur |-> NONE, ids |-> {}]]
      BY <1>7 DEF Start
    <2>2. Items(poll'[p]) \subseteq {ItemOf(k) : k \in d}
      BY <1>1, <2>1 DEF Items, IType, TypeOK
    <2>4. ASSUME NEW x \in Items(poll'[p]) PROVE Held(x)'
      <3>1. PICK k \in d : x = ItemOf(k)
        BY <2>2
      <3>2. k \in Keys /\ row[k] # NONE
        BY DEF Batches, Due
      <3>3. row[k].arm = arms[k] /\ row[k] \in Row /\ arms[k] \in Arms
        BY <1>1, <3>2, SettingsType
      <3>4. x.key = k /\ x.arm = row[k].arm /\ x.born = row[k].born
        BY <3>1 DEF ItemOf
      <3>5. Held(x)
        BY <3>2, <3>3, <3>4 DEF Held, Arms
      <3>6. QED
        BY <1>5, <3>2, <3>4, <3>5
    <2>5. QED
      BY <1>2, <1>5, <1>6, <2>4 DEF Helds
  <1>8. CASE ~Start(p)
    <2>1. Items(poll'[p]) \subseteq Items(poll[p])
      BY <1>1, <1>8, ItemsStay
    <2>2. QED
      BY <1>2, <1>5, <1>6, <2>1 DEF Helds
  <1>9. QED
    BY <1>7, <1>8

\* Reports only grow.
LEMMA ReportsGrow ==
  ASSUME IType, NEW p \in Polls, Run(p) \/ PollFault(p)
  PROVE  /\ \A k \in Keys : spared[k] \subseteq spared'[k]
         /\ \A k \in Keys, a \in Arms : fired'[k][a] >= fired[k][a]
         /\ \A x \in Item : Reported(x) => Reported(x)'
  <1>1. fired \in [Keys -> [Arms -> Nat]] /\ spared \in [Keys -> SUBSET Arms]
    BY DEF IType, TypeOK
  <1>2. \A k \in Keys : spared[k] \subseteq spared'[k]
    <2>1. CASE Wants(p)
      BY <1>1, <2>1 DEF Wants
    <2>2. CASE UNCHANGED spared
      BY <2>2
    <2>3. QED
      BY <2>1, <2>2 DEF Run, Start, Take, Notify, Mark, End, PollFault, history
  <1>3. \A k \in Keys, a \in Arms : fired'[k][a] >= fired[k][a]
    <2>1. CASE Notify(p)
      BY <1>1, <2>1 DEF Notify
    <2>2. CASE UNCHANGED fired
      BY <1>1, <2>2
    <2>3. QED
      BY <2>1, <2>2 DEF Run, Start, Take, Wants, Mark, End, PollFault, history
  <1>4. ASSUME NEW x \in Item, Reported(x) PROVE Reported(x)'
    <2>1. x.key \in Keys /\ x.arm \in Arms
      BY DEF Item
    <2>2. fired[x.key][x.arm] \in Nat /\ fired'[x.key][x.arm] \in Nat
      BY <1>1, <2>1, RunReports
    <2>3. QED
      BY <1>2, <1>3, <1>4, <2>1, <2>2 DEF Reported
  <1>5. QED
    BY <1>2, <1>3, <1>4

\* What a run lets go of as sent was reported.
LEMMA RunReported ==
  ASSUME SInv, NEW p \in Polls, Run(p) \/ PollFault(p)
  PROVE  Reports'
  <1>1. IType /\ poll \in [Polls -> Poll] /\ poll[p] \in Poll /\ Shape(poll[p])
    BY DEF SInv, IType, TypeOK, Stages
  <1>2. \A q \in Polls \ {p} : poll'[q] = poll[q]
    BY <1>1, RunMoves
  <1>3. \A x \in Item : Reported(x) => Reported(x)'
    BY <1>1, ReportsGrow
  <1> DEFINE Fine(q) == /\ \A x \in poll[q].ids : Reported(x)
                        /\ poll[q].at = "mark" => Reported(poll[q].cur)
  <1>4. \A q \in Polls : Fine(q)
    BY DEF SInv, Reports
  <1>5. ASSUME NEW q \in Polls \ {p} PROVE Fine(q)'
    <2>1. poll[q] \in Poll /\ Shape(poll[q]) /\ poll'[q] = poll[q]
      BY <1>1, <1>2 DEF IType, TypeOK, Stages
    <2>2. \A x \in poll[q].ids : Reported(x)'
      BY <1>3, <1>4, <2>1 DEF Poll
    <2>3. \A x : poll[q].at = "mark" /\ x = poll[q].cur => Reported(x)'
      BY <1>3, <1>4, <2>1 DEF Shape
    <2>4. QED
      BY <2>1, <2>2, <2>3 DEF Reported
  <1>6. \A x \in poll[p].ids : Reported(x)'
    BY <1>1, <1>3, <1>4 DEF Poll
  <1>7. ASSUME poll'[p].ids \subseteq poll[p].ids, poll'[p].at # "mark" PROVE Fine(p)'
    BY <1>6, <1>7
  <1>8. ASSUME \A x : x = poll[p].cur => Reported(x)', Done(p) PROVE Fine(p)'
    <2>1. CASE Consume(p)
      BY <1>1, <1>6, <1>8, <2>1, Fields
    <2>2. CASE GoTo(p, "mark")
      <3>1. poll'[p].ids = poll[p].ids /\ poll'[p].cur = poll[p].cur
        BY <1>1, <2>2, Fields
      <3>2. QED
        BY <1>6, <1>8, <3>1 DEF Reported
    <2>3. QED
      BY <1>8, <2>1, <2>2 DEF Done
  <1> SUFFICES Fine(p)'
    BY <1>5 DEF Reports
  <1> HIDE DEF Fine
  <1>9. CASE Start(p)
    BY <1>1, <1>7, <1>9 DEF Start
  <1>10. CASE Take(p)
    <2>1. PICK x \in poll[p].todo :
            \/ Skip(p, x)
            \/ poll' = [poll EXCEPT ![p] = [at |-> "wants", todo |-> @.todo \ {x}, cur |-> x, ids |-> @.ids]]
      BY <1>10 DEF Take
    <2>2. poll[p].at = "loop"
      BY <1>10 DEF Take
    <2>3. CASE Skip(p, x)
      BY <1>1, <1>7, <2>2, <2>3, Fields
    <2>4. CASE ~Skip(p, x)
      BY <1>1, <1>7, <2>1, <2>4
    <2>5. QED
      BY <2>3, <2>4
  <1>11. CASE Wants(p)
    <2>1. CASE GoTo(p, "notify")
      BY <1>1, <1>7, <2>1, Fields
    <2>2. CASE ~GoTo(p, "notify")
      <3>1. /\ Done(p)
            /\ spared' = [spared EXCEPT ![poll[p].cur.key] = @ \cup {poll[p].cur.arm}]
        BY <1>11, <2>2 DEF Wants, DoneMuted
      <3>2. poll[p].cur \in Item
        BY <1>1, <1>11 DEF Wants, Shape
      <3>3. \A x : x = poll[p].cur => Reported(x)'
        BY <1>1, <3>1, <3>2 DEF Reported, IType, TypeOK, Item
      <3>4. QED
        BY <1>8, <3>1, <3>3
    <2>3. QED
      BY <2>1, <2>2
  <1>12. CASE Notify(p)
    <2>1. /\ Done(p)
          /\ fired' = [fired EXCEPT ![poll[p].cur.key][poll[p].cur.arm] = @ + 1]
      BY <1>12 DEF Notify
    <2>2. poll[p].cur \in Item
      BY <1>1, <1>12 DEF Notify, Shape
    <2>3. poll[p].cur.key \in Keys /\ poll[p].cur.arm \in Arms
      BY <2>2 DEF Item
    <2>4. fired'[poll[p].cur.key][poll[p].cur.arm] > 0
      BY <1>1, <2>1, <2>3 DEF IType, TypeOK
    <2>5. \A x : x = poll[p].cur => Reported(x)'
      BY <2>4 DEF Reported
    <2>6. QED
      BY <1>8, <2>1, <2>5
  <1>13. CASE Mark(p)
    BY <1>1, <1>7, <1>13, Fields DEF Mark
  <1>14. CASE poll' = [poll EXCEPT ![p] = Resting]
    BY <1>1, <1>7, <1>14 DEF Resting
  <1>15. CASE PollFault(p)
    <2>1. CASE GoBack(p)
      BY <1>1, <1>7, <2>1, Fields
    <2>2. CASE poll[p].at = "loop" /\ \E x \in poll[p].todo : Skip(p, x)
      BY <1>1, <1>7, <2>2, Fields
    <2>3. QED
      BY <1>14, <1>15, <2>1, <2>2 DEF PollFault
  <1>16. QED
    BY <1>9, <1>10, <1>11, <1>12, <1>13, <1>14, <1>15 DEF Run, End

LEMMA RunMarks ==
  ASSUME SInv, NEW p \in Polls, Run(p) \/ PollFault(p)
  PROVE  SentWasReminded'
  <1>1. IType
    BY DEF SInv
  <1>2. moved' = moved
    BY <1>1, RunLeaves
  <1>3. ASSUME NEW items, items \subseteq Item, MarkSent(items), UNCHANGED <<fired, spared>>,
               \A x \in items : Held(x) /\ Reported(x)
        PROVE  SentWasReminded'
    <2> SUFFICES ASSUME NEW k \in Keys, row'[k] # NONE, row'[k].sent
                 PROVE  fired'[k][row'[k].arm] > 0 \/ row'[k].arm \in spared'[k] \cup moved'[k]
      BY DEF SentWasReminded
    <2>1. CASE row'[k] = row[k]
      BY <1>2, <1>3, <2>1 DEF SInv, SentWasReminded
    <2>2. CASE row'[k] # row[k]
      <3>1. PICK x \in items : row[k] # NONE /\ x.key = k
        BY <1>3, <2>2 DEF MarkSent
      <3>2. row'[k] = [row[k] EXCEPT !.sent = TRUE]
        BY <1>3, <2>2 DEF MarkSent
      <3>3. row'[k].arm = row[k].arm
        BY <1>1, <3>1, <3>2, SettingsType DEF Row
      <3>4. Held(x) /\ Reported(x)
        BY <1>3
      <3>5. QED
        BY <1>2, <1>3, <3>1, <3>3, <3>4 DEF Held, Reported
    <2>3. QED
      BY <2>1, <2>2
  <1>4. CASE Mark(p)
    <2>1. poll[p].at = "mark" /\ poll[p].cur \in Item
      BY <1>1, <1>4 DEF Mark, IType, Stages, Shape
    <2>2. poll[p].cur \in Items(poll[p])
      BY <2>1, NoneAssumption DEF Items
    <2>3. Held(poll[p].cur) /\ Reported(poll[p].cur)
      BY <2>1, <2>2 DEF SInv, Helds, Reports
    <2>4. QED
      BY <1>3, <1>4, <2>1, <2>3 DEF Mark, history
  <1>5. CASE End(p)
    <2>1. poll[p].ids \subseteq Item
      BY <1>1 DEF IType, TypeOK, Poll
    <2>2. \A x \in poll[p].ids : Held(x) /\ Reported(x)
      BY <2>1, NoneAssumption DEF SInv, Helds, Reports, Items
    <2>3. QED
      BY <1>3, <1>5, <2>1, <2>2 DEF End, history
  <1>6. CASE UNCHANGED row
    <2> SUFFICES ASSUME NEW k \in Keys, row[k] # NONE, row[k].sent
                 PROVE  fired'[k][row[k].arm] > 0 \/ row[k].arm \in spared'[k] \cup moved'[k]
      BY <1>6 DEF SentWasReminded
    <2>1. row[k].arm \in Arms
      BY <1>1, SettingsType
    <2>2. fired[k][row[k].arm] \in Nat /\ fired'[k][row[k].arm] \in Nat
      BY <1>1, <2>1, RunReports DEF IType, TypeOK
    <2>3. fired'[k][row[k].arm] >= fired[k][row[k].arm] /\ spared[k] \subseteq spared'[k]
      BY <1>1, <2>1, ReportsGrow
    <2>4. QED
      BY <1>2, <2>2, <2>3 DEF SInv, SentWasReminded
  <1>7. QED
    BY <1>4, <1>5, <1>6 DEF Run, Start, Take, Wants, Notify, PollFault

LEMMA ReportedStep ==
  ASSUME SInv, [Next]_vars
  PROVE  SInv'
  <1>1. IType /\ IType'
    BY TypeStep DEF SInv
  <1>2. CASE UNCHANGED <<row, poll, history>>
    <2>1. \A k \in Keys : row[k] # NONE => row[k] \in Row
      BY <1>1 DEF IType, TypeOK
    <2>2. QED
      BY <1>1, <1>2, RowsStay
  <1>3. CASE \E k \in Keys :
              Set(k) \/ Drop(k) \/ Find(k) \/ Delete(k) \/ Toggle(k) \/ UpdateTask(k)
    BY <1>1, <1>3, RowsOf, RowsStay
  <1>4. CASE \E k \in Keys : Upsert(k)
    BY <1>1, <1>4, UpsertReported
  <1>5. CASE \E p \in Polls : Run(p) \/ PollFault(p)
    BY <1>1, <1>5, RunHolds, RunReported, RunMarks DEF SInv
  <1>6. CASE Restart
    <2>1. UNCHANGED <<row, arms, fired, spared, moved>> /\ poll' = [p \in Polls |-> Resting]
      BY <1>6 DEF Restart, history
    <2>2. Helds' /\ Reports'
      BY <2>1 DEF Helds, Reports, Items, Resting
    <2>3. SentWasReminded'
      BY <2>1 DEF SInv, SentWasReminded
    <2>4. QED
      BY <1>1, <2>2, <2>3 DEF SInv
  <1>7. CASE (\E u \in Users : Mute(u)) \/ Clock \/ UNCHANGED vars
    BY <1>2, <1>7 DEF Mute, Clock, vars
  <1>8. QED
    BY <1>3, <1>4, <1>5, <1>6, <1>7 DEF Next, Handle

\* What is marked as sent reached its user, unless it was muted, or was set anew while
\* a run held the setting before (markAsSent, markDeadlineReminded).
THEOREM SentIsReminded == Spec => []SentWasReminded
  <1>1. Init => SInv
    <2> SUFFICES ASSUME Init PROVE SInv
      OBVIOUS
    <2>1. IType /\ Helds /\ Reports
      BY TypeInit DEF Init, Helds, Reports, Items, Resting
    <2>2. SentWasReminded
      BY DEF Init, SentWasReminded
    <2>3. QED
      BY <2>1, <2>2 DEF SInv
  <1>2. SInv /\ [Next]_vars => SInv'
    BY ReportedStep
  <1>3. SInv => SentWasReminded
    BY DEF SInv
  <1>4. QED
    BY <1>1, <1>2, <1>3, PTL DEF Spec

-----------------------------------------------------------------------------
(* Nobody is reminded twice.                                               *)

\* A set of runs with one of them aside.
LEMMA Aside ==
  ASSUME NEW S \in SUBSET Polls, NEW p \in Polls
  PROVE  /\ Cardinality(S) \in Nat /\ Cardinality(S \ {p}) \in Nat
         /\ Cardinality(S) = Cardinality(S \ {p}) + (IF p \in S THEN 1 ELSE 0)
  <1>1. IsFiniteSet(S)
    BY FS_Subset, RemindersAssumption
  <1>2. IsFiniteSet(S \ {p}) /\ Cardinality(S) \in Nat /\ Cardinality(S \ {p}) \in Nat
    BY <1>1, FS_Subset, FS_CardinalityType
  <1>3. CASE p \in S
    <2>1. Cardinality(S \ {p}) = Cardinality(S) - 1
      BY <1>1, <1>3, FS_RemoveElement
    <2>2. QED
      BY <1>2, <1>3, <2>1
  <1>4. CASE p \notin S
    <2>1. S \ {p} = S
      BY <1>4
    <2>2. QED
      BY <1>2, <1>4, <2>1
  <1>5. QED
    BY <1>3, <1>4

\* Runs that are none of two kinds leave room.
LEMMA Room ==
  ASSUME NEW S \in SUBSET Polls, NEW T \in SUBSET Polls, S \cap T = {},
         NEW p \in Polls, p \notin S \cup T
  PROVE  Cardinality(S) + Cardinality(T) + 1 <= Cardinality(Polls)
  <1>1. IsFiniteSet(Polls) /\ IsFiniteSet(S) /\ IsFiniteSet(T)
    BY FS_Subset, RemindersAssumption
  <1>2. Cardinality(S \cup T) = Cardinality(S) + Cardinality(T) - Cardinality(S \cap T)
    BY <1>1, FS_Union
  <1>3. Cardinality(S \cap T) = 0
    BY FS_EmptySet
  <1>4. (S \cup T) \subseteq Polls \ {p} /\ IsFiniteSet(Polls \ {p})
    BY <1>1, FS_Subset
  <1>5. Cardinality(S \cup T) <= Cardinality(Polls \ {p})
    BY <1>4, FS_Subset
  <1>6. Cardinality(Polls) = Cardinality(Polls \ {p}) + 1 /\ Cardinality(Polls \ {p}) \in Nat
    BY Aside
  <1>7. Cardinality(S) \in Nat /\ Cardinality(T) \in Nat
    BY <1>1, FS_CardinalityType
  <1>8. QED
    BY <1>2, <1>3, <1>5, <1>6, <1>7

\* Nothing here changes but rows, and none can be found that could not.
LEMMA CountStays ==
  ASSUME IInv, UNCHANGED <<poll, fired, shared>>, failed' = failed,
         NEW k \in Keys, NEW a \in Arms, arms[k] <= arms'[k], arms'[k] \in Nat,
         Findable(k, a)' => Findable(k, a)
  PROVE  Count(k, a)'
  <1>1. Count(k, a) /\ arms[k] \in Nat /\ a \in Nat
    <2>1. Count(k, a)
      BY DEF IInv, Counted
    <2>2. arms[k] \in Nat
      <3>1. arms[k] \in Arms
        BY DEF IInv, SInv, IType, TypeOK
      <3>2. QED
        BY <3>1, RemindersAssumption DEF Arms
    <2>3. a \in Nat
      BY RemindersAssumption DEF Arms
    <2>4. QED
      BY <2>1, <2>2, <2>3
  <1>2. Ahead(k, a)' = Ahead(k, a) /\ Behind(k, a)' = Behind(k, a) /\ Bound(k, a)' = Bound(k, a)
    BY DEF Ahead, Behind, Bound
  <1>3. fired[k][a] > 0 => a <= arms'[k]
    BY <1>1 DEF Count
  <1>4. QED
    BY <1>1, <1>2, <1>3 DEF Count

LEMMA CountRows ==
  ASSUME IInv, UNCHANGED <<poll, history, failed>>,
         \A k \in Keys : row'[k] = NONE \/ (row[k] # NONE /\ row'[k].sent = row[k].sent
                           /\ row'[k].arm = row[k].arm /\ row'[k].born = row[k].born)
  PROVE  Counted'
  <1> SUFFICES ASSUME NEW k \in Keys, NEW a \in Arms PROVE Count(k, a)'
    BY DEF Counted
  <1>1. Findable(k, a)' => Findable(k, a)
    BY DEF Findable
  <1>2. arms' = arms /\ arms[k] \in Nat
    BY DEF history, IInv, SInv, IType, TypeOK, Arms
  <1>3. QED
    BY <1>1, <1>2, CountStays DEF history

LEMMA CountUpsert ==
  ASSUME IInv, NEW k \in Keys, Upsert(k)
  PROVE  Counted'
  <1> SUFFICES ASSUME NEW j \in Keys, NEW a \in Arms PROVE Count(j, a)'
    BY DEF Counted
  <1>1. IType /\ Count(j, a)
    BY DEF IInv, SInv, Counted
  <1>2. PICK r \in Row : row' = [row EXCEPT ![k] = r] /\ r.arm = arms[k] + 1
    BY <1>1, Upserted
  <1>3. /\ arms[k] \in Nat /\ arms'[k] = arms[k] + 1
        /\ \A i \in Keys \ {k} : arms'[i] = arms[i] /\ arms[i] \in Nat
    <2>1. arms \in [Keys -> Arms]
      BY <1>1 DEF IType, TypeOK
    <2>2. arms' = [arms EXCEPT ![k] = arms[k] + 1] /\ arms'[k] = arms[k] + 1
      BY <1>1, Upserted
    <2>3. QED
      BY <2>1, <2>2 DEF Arms
  <1>4. UNCHANGED <<poll, fired, shared, failed>>
    BY DEF Upsert
  <1>5. row'[k] = r /\ \A i \in Keys \ {k} : row'[i] = row[i]
    BY <1>1, <1>2 DEF IType, TypeOK
  <1>6. arms[j] <= arms'[j] /\ arms'[j] \in Nat
    BY <1>3
  <1>7. CASE Findable(j, a)' => Findable(j, a)
    BY <1>4, <1>6, <1>7, CountStays
  <1>8. CASE Findable(j, a)' /\ ~Findable(j, a)
    <2>1. j = k /\ a = arms[k] + 1
      BY <1>2, <1>5, <1>8 DEF Findable
    <2>2. fired[j][a] \in Nat
      BY <1>1 DEF IType, TypeOK
    <2>3. fired[j][a] = 0
      BY <1>1, <1>3, <2>1, <2>2 DEF Count
    <2>4. Ahead(j, a)' = Ahead(j, a) /\ Behind(j, a)' = Behind(j, a) /\ Bound(j, a)' = Bound(j, a)
      BY <1>4 DEF Ahead, Behind, Bound
    <2>5. Cardinality(Behind(j, a)) \in Nat
      BY FS_Subset, FS_CardinalityType, RemindersAssumption DEF Behind
    <2>6. QED
      BY <1>1, <1>4, <2>3, <2>4, <2>5 DEF Count
  <1>9. QED
    BY <1>7, <1>8

\* After a failure there is only the first part to keep.
LEMMA CountFailed ==
  ASSUME IInv, UNCHANGED history, failed' = TRUE
  PROVE  Counted'
  BY DEF IInv, Counted, Count, history

\* What a run does to the count of one setting is what it does to its own part.
LEMMA CountRun ==
  ASSUME IInv, NEW p \in Polls, poll' \in [Polls -> Poll],
         \A q \in Polls \ {p} : poll'[q] = poll[q],
         arms' = arms, failed' = failed,
         NEW k \in Keys, NEW a \in Arms, shared'[k] = shared[k],
         \/ /\ fired'[k][a] = fired[k][a]
            /\ In(Before(poll'[p]), k, a) => In(Before(poll[p]), k, a)
            /\ Findable(k, a)' => /\ Findable(k, a)
                                  /\ In(After(poll[p]), k, a) => In(After(poll'[p]), k, a)
         \/ /\ fired'[k][a] = fired[k][a] + 1 /\ a <= arms[k]
            /\ In(Before(poll[p]), k, a) /\ ~In(Before(poll'[p]), k, a)
            /\ Findable(k, a)' => Findable(k, a)
            /\ ~In(After(poll[p]), k, a) /\ In(After(poll'[p]), k, a)
  PROVE  Count(k, a)'
  <1>1. Count(k, a) /\ fired[k][a] \in Nat
    BY DEF IInv, SInv, Counted, IType, TypeOK
  <1> DEFINE A == Ahead(k, a)  B == Behind(k, a)
  <1>2. /\ A \in SUBSET Polls /\ B \in SUBSET Polls
        /\ A' \in SUBSET Polls /\ B' \in SUBSET Polls
    BY DEF Ahead, Behind
  <1>3. A' \ {p} = A \ {p} /\ B' \ {p} = B \ {p}
    BY DEF Ahead, Behind
  <1>4. /\ p \in A <=> In(Before(poll[p]), k, a)
        /\ p \in A' <=> In(Before(poll'[p]), k, a)
        /\ p \in B <=> In(After(poll[p]), k, a)
        /\ p \in B' <=> In(After(poll'[p]), k, a)
    BY DEF Ahead, Behind, In, Before, After
  <1>5. Bound(k, a)' = Bound(k, a) /\ Bound(k, a) \in Nat
    <2>1. Cardinality(Polls) \in Nat
      BY FS_CardinalityType, RemindersAssumption
    <2>2. QED
      BY <2>1 DEF Bound
  <1> HIDE DEF A, B
  <1>6. /\ Cardinality(A) \in Nat /\ Cardinality(A \ {p}) \in Nat
        /\ Cardinality(A) = Cardinality(A \ {p}) + (IF p \in A THEN 1 ELSE 0)
    BY <1>2, Aside
  <1>7. /\ Cardinality(B) \in Nat /\ Cardinality(B \ {p}) \in Nat
        /\ Cardinality(B) = Cardinality(B \ {p}) + (IF p \in B THEN 1 ELSE 0)
    BY <1>2, Aside
  <1>8. /\ Cardinality(A') \in Nat
        /\ Cardinality(A') = Cardinality(A \ {p}) + (IF p \in A' THEN 1 ELSE 0)
    <2>1. /\ Cardinality(A') \in Nat
          /\ Cardinality(A') = Cardinality(A' \ {p}) + (IF p \in A' THEN 1 ELSE 0)
      BY <1>2, Aside
    <2>2. QED
      BY <1>3, <2>1
  <1>9. /\ Cardinality(B') \in Nat
        /\ Cardinality(B') = Cardinality(B \ {p}) + (IF p \in B' THEN 1 ELSE 0)
    <2>1. /\ Cardinality(B') \in Nat
          /\ Cardinality(B') = Cardinality(B' \ {p}) + (IF p \in B' THEN 1 ELSE 0)
      BY <1>2, Aside
    <2>2. QED
      BY <1>3, <2>1
  <1>10. fired'[k][a] > 0 => a <= arms[k]
    BY <1>1 DEF Count
  <1>11. ASSUME ~failed PROVE fired'[k][a] + Cardinality(A') <= Bound(k, a)
    <2>1. fired[k][a] + Cardinality(A) <= Bound(k, a)
      BY <1>1, <1>11 DEF Count, A
    <2>2. QED
      BY <1>1, <1>4, <1>5, <1>6, <1>8, <2>1
  <1>12. ASSUME ~failed, Findable(k, a)' PROVE fired'[k][a] <= Cardinality(B')
    <2>1. fired[k][a] <= Cardinality(B)
      BY <1>1, <1>12 DEF Count, B
    <2>2. QED
      BY <1>1, <1>4, <1>7, <1>9, <1>12, <2>1
  <1>13. QED
    BY <1>5, <1>10, <1>11, <1>12 DEF Count, A, B

\* A poll finds what is not held by another, or is shared by both.
LEMMA CountStart ==
  ASSUME IInv, NEW p \in Polls, Start(p)
  PROVE  Counted'
  <1> SUFFICES ASSUME NEW k \in Keys, NEW a \in Arms PROVE Count(k, a)'
    BY DEF Counted
  <1>1. IType /\ Count(k, a) /\ fired[k][a] \in Nat /\ arms[k] \in Nat
    <2>1. IType /\ Count(k, a)
      BY DEF IInv, SInv, Counted
    <2>2. fired \in [Keys -> [Arms -> Nat]] /\ arms[k] \in Arms
      BY <2>1 DEF IType, TypeOK
    <2>3. fired[k][a] \in Nat
      BY <2>2
    <2>4. arms[k] \in Nat
      BY <2>2, RemindersAssumption DEF Arms
    <2>5. QED
      BY <2>1, <2>3, <2>4
  <1>2. /\ poll[p] \in Poll /\ poll[p].at = "idle" /\ poll[p].cur = NONE
        /\ poll[p].todo = {} /\ poll[p].ids = {}
    BY <1>1 DEF Start, IType, TypeOK, Stages, Shape
  <1>3. poll' \in [Polls -> Poll] /\ \A q \in Polls \ {p} : poll'[q] = poll[q]
    BY <1>1, RunMoves DEF Run
  <1>4. PICK d \in Batches :
          /\ poll' = [poll EXCEPT ![p] = [at |-> "loop", todo |-> {ItemOf(i) : i \in d},
                                          cur |-> NONE, ids |-> {}]]
          /\ shared' = [i \in Keys |-> IF i \in d /\ \E q \in Polls : Holds(q, i)
                                       THEN shared[i] \cup {row[i].arm} ELSE shared[i]]
    BY DEF Start
  <1>5. UNCHANGED <<row, arms, fired, failed>>
    BY DEF Start
  <1>6. Before(poll'[p]) = {ItemOf(i) : i \in d} /\ After(poll'[p]) = {}
    BY <1>1, <1>4 DEF Before, After, IType, TypeOK
  <1>7. Before(poll[p]) = {} /\ After(poll[p]) = {}
    BY <1>2 DEF Before, After
  <1>8. Findable(k, a)' <=> Findable(k, a)
    BY <1>5 DEF Findable
  <1>9. CASE ~In(Before(poll'[p]), k, a)
    <2>1. shared'[k] = shared[k] \/ (k \in d /\ shared'[k] = shared[k] \cup {row[k].arm})
      BY <1>4
    <2>2. ASSUME k \in d PROVE row[k].arm # a
      <3>1. ItemOf(k) \in Before(poll'[p])
        BY <1>6, <2>2
      <3>2. ItemOf(k).key = k /\ ItemOf(k).arm = row[k].arm
        BY DEF ItemOf
      <3>3. QED
        BY <1>9, <3>1, <3>2 DEF In
    <2>3. Bound(k, a)' = Bound(k, a)
      BY <2>1, <2>2 DEF Bound
    <2>4. Ahead(k, a)' = Ahead(k, a)
      <3>1. \A q \in Polls : In(Before(poll'[q]), k, a) <=> In(Before(poll[q]), k, a)
        BY <1>3, <1>7, <1>9 DEF In
      <3>2. QED
        BY <3>1 DEF Ahead, In, Before
    <2>5. Behind(k, a)' = Behind(k, a)
      <3>1. \A q \in Polls : In(After(poll'[q]), k, a) <=> In(After(poll[q]), k, a)
        BY <1>3, <1>6, <1>7
      <3>2. QED
        BY <3>1 DEF Behind, In, After
    <2>6. QED
      BY <1>1, <1>5, <1>8, <2>3, <2>4, <2>5 DEF Count
  <1>10. CASE In(Before(poll'[p]), k, a)
    <2>1. k \in d /\ row[k].arm = a /\ Due(k)
      BY <1>6, <1>10 DEF In, ItemOf, Batches
    <2>2. Findable(k, a)
      BY <2>1 DEF Findable, Due
    <2> DEFINE A == Ahead(k, a)  B == Behind(k, a)
    <2>3. /\ A \in SUBSET Polls /\ B \in SUBSET Polls
          /\ A' \in SUBSET Polls /\ B' \in SUBSET Polls
      BY DEF Ahead, Behind
    <2>4. p \notin A /\ p \notin B
      BY <1>7 DEF Ahead, Behind, In
    <2>5. A' = A \cup {p}
      BY <1>3, <1>10 DEF Ahead, In, Before
    <2>6. B' = B
      <3>1. \A q \in Polls : In(After(poll'[q]), k, a) <=> In(After(poll[q]), k, a)
        BY <1>3, <1>6, <1>7
      <3>2. QED
        BY <3>1 DEF Behind, In, After
    <2>7. A \cap B = {}
      <3> SUFFICES ASSUME NEW q \in A, q \in B PROVE FALSE
        OBVIOUS
      <3>1. q \in Polls /\ poll[q] \in Poll /\ Shape(poll[q]) /\ NONE \notin Item
        BY <1>1, <2>3, NoneAssumption DEF IType, TypeOK, Stages
      <3>2. PICK x \in Before(poll[q]) : x.key = k
        BY DEF Ahead, In
      <3>3. PICK y \in After(poll[q]) : y.key = k
        BY DEF Behind, In
      <3>4. x # NONE /\ y # NONE /\ x \in poll[q].todo \cup {poll[q].cur}
            /\ y \in poll[q].ids \cup {poll[q].cur}
        BY <3>1, <3>2, <3>3 DEF Before, After, Shape, Poll
      <3>5. x = y
        BY <3>1, <3>2, <3>3, <3>4 DEF Shape
      <3>6. QED
        BY <3>1, <3>2, <3>3, <3>5 DEF Before, After, Shape
    <2>8. \A q \in A \cup B : Holds(q, k)
      <3> SUFFICES ASSUME NEW q \in A \cup B PROVE Holds(q, k)
        OBVIOUS
      <3>1. q \in Polls /\ poll[q] \in Poll /\ Shape(poll[q]) /\ NONE \notin Item
        BY <1>1, <2>3, NoneAssumption DEF IType, TypeOK, Stages
      <3>2. PICK x \in Before(poll[q]) \cup After(poll[q]) : x.key = k
        BY DEF Ahead, Behind, In
      <3>3. x \in poll[q].todo \cup poll[q].ids \/ (x = poll[q].cur /\ x # NONE)
        BY <3>1, <3>2 DEF Before, After, Shape
      <3>4. QED
        BY <3>2, <3>3 DEF Holds
    <2> HIDE DEF A, B
    <2>9. /\ Cardinality(A) \in Nat /\ Cardinality(B) \in Nat
          /\ Cardinality(A') = Cardinality(A) + 1
      <3>1. A' \ {p} = A /\ p \in A'
        BY <2>4, <2>5
      <3>2. Cardinality(A') = Cardinality(A' \ {p}) + (IF p \in A' THEN 1 ELSE 0)
        BY <2>3, Aside
      <3>3. Cardinality(A) \in Nat /\ Cardinality(B) \in Nat
        BY <2>3, Aside
      <3>4. QED
        BY <3>1, <3>2, <3>3
    <2>10. ASSUME ~failed
           PROVE  fired[k][a] + Cardinality(A') <= Bound(k, a)'
      <3>1. fired[k][a] <= Cardinality(B)
        BY <1>1, <2>2, <2>10 DEF Count, B
      <3>2. CASE \E q \in Polls : Holds(q, k)
        <4>1. a \in shared'[k]
          BY <1>4, <2>1, <3>2
        <4>2. Cardinality(A) + Cardinality(B) + 1 <= Cardinality(Polls)
          BY <2>3, <2>4, <2>7, Room
        <4>3. Cardinality(Polls) \in Nat
          BY FS_CardinalityType, RemindersAssumption
        <4>4. QED
          BY <1>1, <2>9, <3>1, <4>1, <4>2, <4>3 DEF Bound
      <3>3. CASE ~\E q \in Polls : Holds(q, k)
        <4>1. A = {} /\ B = {}
          BY <2>3, <2>8, <3>3
        <4>2. Cardinality(A) = 0 /\ Cardinality(B) = 0
          BY <4>1, FS_EmptySet
        <4>3. 1 <= Bound(k, a)'
          <5>1. Cardinality(Polls) \in Nat /\ Cardinality(Polls) # 0
            BY FS_CardinalityType, FS_EmptySet, RemindersAssumption
          <5>2. QED
            BY <5>1 DEF Bound
        <4>4. QED
          BY <1>1, <2>9, <3>1, <4>2, <4>3 DEF Bound
      <3>4. QED
        BY <3>2, <3>3
    <2>11. QED
      BY <1>1, <1>5, <1>8, <2>6, <2>10 DEF Count, A, B
  <1>11. QED
    BY <1>9, <1>10

\* The reminder in hand is notified of, or passed over; it is not held twice.
LEMMA CountDone ==
  ASSUME IInv, NEW p \in Polls, Wants(p) \/ Notify(p)
  PROVE  Counted'
  <1> SUFFICES ASSUME NEW k \in Keys, NEW a \in Arms PROVE Count(k, a)'
    BY DEF Counted
  <1>1. /\ IType /\ poll[p] \in Poll /\ Shape(poll[p])
        /\ poll[p].at \in {"wants", "notify"} /\ poll[p].cur \in Item /\ NONE \notin Item
    BY NoneAssumption DEF IInv, SInv, IType, TypeOK, Stages, Shape, Wants, Notify
  <1>2. poll' \in [Polls -> Poll] /\ \A q \in Polls \ {p} : poll'[q] = poll[q]
    BY <1>1, RunMoves DEF Run
  <1>3. UNCHANGED <<row, arms, shared, failed>>
    BY DEF Wants, Notify
  <1>4. Findable(k, a)' => Findable(k, a)
    BY <1>3 DEF Findable
  <1>5. Before(poll[p]) = poll[p].todo \cup {poll[p].cur} /\ After(poll[p]) = poll[p].ids
    BY <1>1 DEF Before, After
  <1>6. poll[p].cur.key \in Keys /\ poll[p].cur.arm \in Arms
    BY <1>1 DEF Item
  <1>7. \A x \in poll[p].todo \cup poll[p].ids : x.key # poll[p].cur.key
    BY <1>1 DEF Shape, Poll
  <1>8. ASSUME Done(p)
        PROVE  /\ Before(poll'[p]) = poll[p].todo
               /\ After(poll'[p]) = poll[p].ids \cup {poll[p].cur}
    BY <1>1, <1>8, Fields DEF Done, Before, After
  <1>9. CASE Wants(p)
    <2>1. fired' = fired
      BY <1>9 DEF Wants
    <2>2. CASE Done(p)
      <3>1. In(Before(poll'[p]), k, a) => In(Before(poll[p]), k, a)
        BY <1>5, <1>8, <2>2 DEF In
      <3>2. In(After(poll[p]), k, a) => In(After(poll'[p]), k, a)
        BY <1>5, <1>8, <2>2 DEF In
      <3>3. QED
        BY <1>2, <1>3, <1>4, <2>1, <3>1, <3>2, CountRun
    <2>3. CASE GoTo(p, "notify")
      <3>1. Before(poll'[p]) = Before(poll[p]) /\ After(poll'[p]) = After(poll[p])
        BY <1>1, <1>5, <2>3, Fields DEF Before, After
      <3>2. QED
        BY <1>2, <1>3, <1>4, <2>1, <3>1, CountRun
    <2>4. QED
      BY <1>9, <2>2, <2>3 DEF Wants, DoneMuted
  <1>10. CASE Notify(p)
    <2>1. Done(p) /\ fired' = [fired EXCEPT ![poll[p].cur.key][poll[p].cur.arm] = @ + 1]
      BY <1>10 DEF Notify
    <2>2. fired \in [Keys -> [Arms -> Nat]]
      BY <1>1 DEF IType, TypeOK
    <2>3. CASE poll[p].cur.key = k /\ poll[p].cur.arm = a
      <3>1. fired'[k][a] = fired[k][a] + 1
        BY <2>1, <2>2, <2>3
      <3>2. Held(poll[p].cur)
        BY <1>1 DEF IInv, SInv, Helds, Items
      <3>3. a <= arms[k]
        BY <2>3, <3>2 DEF Held
      <3>4. In(Before(poll[p]), k, a) /\ ~In(Before(poll'[p]), k, a)
        BY <1>5, <1>7, <1>8, <2>1, <2>3 DEF In
      <3>5. ~In(After(poll[p]), k, a) /\ In(After(poll'[p]), k, a)
        BY <1>5, <1>7, <1>8, <2>1, <2>3 DEF In
      <3>6. QED
        BY <1>2, <1>3, <1>4, <3>1, <3>3, <3>4, <3>5, CountRun
    <2>4. CASE ~(poll[p].cur.key = k /\ poll[p].cur.arm = a)
      <3>1. fired'[k][a] = fired[k][a]
        BY <1>6, <2>1, <2>2, <2>4
      <3>2. In(Before(poll'[p]), k, a) => In(Before(poll[p]), k, a)
        BY <1>5, <1>8, <2>1 DEF In
      <3>3. In(After(poll[p]), k, a) => In(After(poll'[p]), k, a)
        BY <1>5, <1>8, <2>1 DEF In
      <3>4. QED
        BY <1>2, <1>3, <1>4, <3>1, <3>2, <3>3, CountRun
    <2>5. QED
      BY <2>3, <2>4
  <1>11. QED
    BY <1>9, <1>10

\* A run lets go of what it has marked: it is not found again.
LEMMA CountMarked ==
  ASSUME IInv, NEW p \in Polls, poll' \in [Polls -> Poll],
         \A q \in Polls \ {p} : poll'[q] = poll[q],
         NEW items, items \subseteq After(poll[p]), MarkSent(items),
         UNCHANGED <<history, failed>>,
         Before(poll'[p]) \subseteq Before(poll[p]),
         After(poll[p]) \subseteq items \cup After(poll'[p])
  PROVE  Counted'
  <1> SUFFICES ASSUME NEW k \in Keys, NEW a \in Arms PROVE Count(k, a)'
    BY DEF Counted
  <1>1. /\ IType /\ poll[p] \in Poll /\ Shape(poll[p]) /\ NONE \notin Item
    BY NoneAssumption DEF IInv, SInv, IType, TypeOK, Stages
  <1>2. UNCHANGED <<fired, arms, shared, failed>>
    BY DEF history
  <1>3. In(Before(poll'[p]), k, a) => In(Before(poll[p]), k, a)
    BY DEF In
  <1>4. row[k] # NONE => row[k] \in Row
    BY <1>1, SettingsType
  <1>5. row'[k] = IF \E x \in items : row[k] # NONE /\ x.key = k /\ x.born = row[k].born
                  THEN [row[k] EXCEPT !.sent = TRUE] ELSE row[k]
    BY DEF MarkSent
  <1>6. ASSUME Findable(k, a)' PROVE Findable(k, a) /\ ~In(items, k, a)
    <2>1. row'[k] # NONE /\ row'[k].arm = a /\ ~row'[k].sent
      BY <1>6 DEF Findable
    <2>2. CASE \E x \in items : row[k] # NONE /\ x.key = k /\ x.born = row[k].born
      BY <1>4, <1>5, <2>1, <2>2 DEF Row
    <2>3. CASE ~\E x \in items : row[k] # NONE /\ x.key = k /\ x.born = row[k].born
      <3>1. Findable(k, a)
        BY <1>5, <2>1, <2>3 DEF Findable
      <3>2. ASSUME NEW x \in items, x.key = k, x.arm = a PROVE FALSE
        <4>1. x \in Items(poll[p])
          BY <1>1 DEF After, Items, Shape, Poll
        <4>2. Held(x)
          BY <4>1 DEF IInv, SInv, Helds
        <4>3. x.born = row[k].born
          BY <3>1, <3>2, <4>2 DEF Held, Findable
        <4>4. QED
          BY <2>3, <3>1, <3>2, <4>3 DEF Findable
      <3>3. QED
        BY <3>1, <3>2 DEF In
    <2>4. QED
      BY <2>2, <2>3
  <1>7. ~In(items, k, a) /\ In(After(poll[p]), k, a) => In(After(poll'[p]), k, a)
    BY DEF In
  <1>8. QED
    BY <1>2, <1>3, <1>6, <1>7, CountRun

LEMMA CountRest ==
  ASSUME IInv, NEW p \in Polls, Take(p) \/ Mark(p) \/ End(p)
  PROVE  Counted'
  <1>1. /\ IType /\ poll[p] \in Poll /\ Shape(poll[p])
    BY DEF IInv, SInv, IType, TypeOK, Stages
  <1>2. poll' \in [Polls -> Poll] /\ \A q \in Polls \ {p} : poll'[q] = poll[q]
    BY <1>1, RunMoves DEF Run
  <1>3. CASE Take(p)
    <2> SUFFICES ASSUME NEW k \in Keys, NEW a \in Arms PROVE Count(k, a)'
      BY DEF Counted
    <2>1. UNCHANGED <<row, arms, fired, shared, failed>>
      BY <1>3 DEF Take, history
    <2>2. Findable(k, a)' => Findable(k, a)
      BY <2>1 DEF Findable
    <2>3. PICK x \in poll[p].todo :
            \/ Skip(p, x)
            \/ poll' = [poll EXCEPT ![p] = [at |-> "wants", todo |-> @.todo \ {x}, cur |-> x, ids |-> @.ids]]
      BY <1>3 DEF Take
    <2>4. poll[p].at = "loop"
      BY <1>3 DEF Take
    <2>5. Before(poll'[p]) \subseteq Before(poll[p]) /\ After(poll'[p]) = After(poll[p])
      <3>1. CASE Skip(p, x)
        BY <1>1, <2>4, <3>1, Fields DEF Before, After
      <3>2. CASE ~Skip(p, x)
        BY <1>1, <2>3, <2>4, <3>2 DEF Before, After, IType, TypeOK
      <3>3. QED
        BY <3>1, <3>2
    <2>6. In(Before(poll'[p]), k, a) => In(Before(poll[p]), k, a)
      BY <2>5 DEF In
    <2>7. QED
      BY <1>2, <2>1, <2>2, <2>5, <2>6, CountRun
  <1>4. CASE Mark(p)
    <2>1. poll[p].at = "mark" /\ MarkSent({poll[p].cur}) /\ GoBack(p) /\ UNCHANGED <<history, failed>>
      BY <1>4 DEF Mark
    <2>2. /\ Before(poll'[p]) \subseteq Before(poll[p])
          /\ {poll[p].cur} \subseteq After(poll[p])
          /\ After(poll[p]) \subseteq {poll[p].cur} \cup After(poll'[p])
      BY <1>1, <2>1, Fields DEF Before, After
    <2>3. QED
      BY <1>2, <2>1, <2>2, CountMarked
  <1>5. CASE End(p)
    <2>1. After(poll[p]) = poll[p].ids /\ UNCHANGED <<history, failed>>
      BY <1>5 DEF End, After
    <2>2. Before(poll'[p]) \subseteq Before(poll[p])
      BY <1>1, <1>5 DEF End, Before, Resting, IType, TypeOK
    <2>3. MarkSent(After(poll[p]))
      BY <1>5, <2>1 DEF End
    <2>4. After(poll[p]) \subseteq After(poll[p]) \cup After(poll'[p])
      OBVIOUS
    <2>5. QED
      BY <1>2, <2>1, <2>2, <2>3, <2>4, CountMarked
  <1>6. QED
    BY <1>3, <1>4, <1>5

LEMMA CountStep ==
  ASSUME IInv, [Next]_vars
  PROVE  IInv'
  <1>1. SInv /\ SInv' /\ IType
    BY ReportedStep DEF IInv, SInv
  <1>3. CASE \E k \in Keys :
              Set(k) \/ Drop(k) \/ Find(k) \/ Delete(k) \/ Toggle(k) \/ UpdateTask(k)
    BY <1>1, <1>3, RowsOf, CountRows DEF IInv
  <1>4. CASE \E k \in Keys : Upsert(k)
    BY <1>1, <1>4, CountUpsert DEF IInv
  <1>5. CASE \E p \in Polls : Run(p)
    BY <1>1, <1>5, CountStart, CountDone, CountRest DEF IInv, Run
  <1>6. CASE (\E p \in Polls : PollFault(p)) \/ Restart
    <2>1. UNCHANGED history /\ failed' = TRUE
      BY <1>6 DEF PollFault, Restart, Mishap
    <2>2. QED
      BY <1>1, <2>1, CountFailed DEF IInv
  <1>7. CASE (\E u \in Users : Mute(u)) \/ Clock \/ UNCHANGED vars
    <2>1. UNCHANGED <<row, poll, history, failed>>
      BY <1>7 DEF Mute, Clock, vars
    <2>2. UNCHANGED <<arms, fired, shared, poll, row, failed>>
      BY <2>1 DEF history
    <2>3. Counted'
      BY <2>2 DEF IInv, Counted, Count, Ahead, Behind, Bound, Findable
    <2>4. QED
      BY <1>1, <2>3 DEF IInv
  <1>8. QED
    BY <1>3, <1>4, <1>5, <1>6, <1>7 DEF Next, Handle

\* Without failures a setting is notified of once, or once by each run when two had
\* found it (processDueReminders, processDueMeetingReminders, processDueTaskDeadlines).
THEOREM OncePerSetting == Spec => []RemindedOnce
  <1>1. Init => IInv
    <2> SUFFICES ASSUME Init PROVE IInv
      OBVIOUS
    <2>1. SInv
      <3>1. IType /\ Helds /\ Reports
        BY TypeInit DEF Init, Helds, Reports, Items, Resting
      <3>2. SentWasReminded
        BY DEF Init, SentWasReminded
      <3>3. QED
        BY <3>1, <3>2 DEF SInv
    <2>2. ASSUME NEW k \in Keys, NEW a \in Arms PROVE Count(k, a)
      <3>1. fired[k][a] = 0 /\ ~Findable(k, a) /\ Bound(k, a) = 1
        BY DEF Init, Findable, Bound
      <3>2. Ahead(k, a) = {}
        BY DEF Init, Ahead, In, Before, Resting
      <3>3. Cardinality(Ahead(k, a)) = 0
        BY <3>2, FS_EmptySet
      <3>4. QED
        BY <3>1, <3>3 DEF Count
    <2>3. QED
      BY <2>1, <2>2 DEF IInv, Counted
  <1>2. IInv /\ [Next]_vars => IInv'
    BY CountStep
  <1>3. IInv => RemindedOnce
    <2> SUFFICES ASSUME IInv, ~failed, NEW k \in Keys, NEW a \in Arms
                 PROVE  fired[k][a] <= Bound(k, a)
      BY DEF RemindedOnce, Bound
    <2>1. fired[k][a] \in Nat /\ fired[k][a] + Cardinality(Ahead(k, a)) <= Bound(k, a)
      BY DEF IInv, Counted, Count, SInv, IType, TypeOK
    <2>2. Cardinality(Ahead(k, a)) \in Nat /\ Cardinality(Polls) \in Nat
      BY FS_Subset, FS_CardinalityType, RemindersAssumption DEF Ahead
    <2>3. QED
      BY <2>1, <2>2 DEF Bound
  <1>4. QED
    BY <1>1, <1>2, <1>3, PTL DEF Spec
=============================================================================
