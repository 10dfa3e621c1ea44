------------------------ MODULE AnnouncementsProofs ------------------------
(***************************************************************************)
(* Announcements, for every number of people, managers, announcements and  *)
(* overlapping runs of the scheduler and every bound: at most one run      *)
(* announces an announcement, nobody but managers hears of a draft, and    *)
(* what is live is never taken back.                                       *)
(***************************************************************************)
EXTENDS Announcements, TLAPS

JobStages == {"insert", "look", "write", "remove", "record", "reread",
           "tell", "live", "emit", "list", "answer"}

\* A handler past its first statement knows its announcement.
JobsKnow ==
    \A u \in Users :
        /\ job[u].op \in {"edit", "delete", "read"} => job[u].id \in Ids
        /\ job[u].op = "create" /\ job[u].at # "insert" => job[u].id \in Ids

TicksKnow == \A t \in Ticks : tick[t].at \in {"look", "tell", "emit"} => tick[t].id \in Ids

IType == TypeOK /\ JobsKnow /\ TicksKnow

\* What has once been public stays so: identifiers are not given out again, and
\* nothing makes a draft of what is live.
Public(i) == i \in used /\ (row[i] = NONE \/ row[i].published)

RowsUsed == \A i \in Ids : row[i] # NONE => i \in used
ToldPublic == \A i \in Ids : told[i] # [tick |-> 0, hand |-> 0] => Public(i)
PagesPublic == \A u \in Users \ Managers, i \in Ids : page[u][i] # NONE => Public(i)
AnswersPublic ==
    \A u \in Users, i \in Ids :
        got[u][i] # NONE /\ (u \notin Managers \/ got[u][i].published) => Public(i)
TellersPublic ==
    \A u \in Users : job[u].op \in {"create", "edit"} /\ job[u].at \in {"tell", "live"}
                    => Public(job[u].id)
RunsPublic == \A t \in Ticks : tick[t].at \in {"look", "tell", "emit"} => Public(tick[t].id)

IPublic == /\ IType /\ RowsUsed /\ ToldPublic /\ PagesPublic /\ AnswersPublic
           /\ TellersPublic /\ RunsPublic

\* A run that has published an announcement and not yet told of it.
Claims(t, i) == tick[t].at \in {"look", "tell"} /\ tick[t].id = i

OneClaim ==
    \A i \in Ids :
        /\ told[i].tick <= 1
        /\ \A t \in Ticks : Claims(t, i) => told[i].tick = 0
        /\ \A t, x \in Ticks : Claims(t, i) /\ Claims(x, i) => t = x

-----------------------------------------------------------------------------
(***************************************************************************)
(* Types.                                                                  *)
(***************************************************************************)

LEMMA TypesInit == Init => IType
  <1> SUFFICES ASSUME Init PROVE IType
    OBVIOUS
  <1>1. Idle \in Job /\ Resting \in Tick
    BY AnnouncementsAssumption DEF Idle, Job, Resting, Tick, Times
  <1>2. job \in [Users -> Job] /\ tick \in [Ticks -> Tick]
    BY <1>1 DEF Init
  <1>3. CardsOrNone(Nothing)
    BY DEF CardsOrNone, Nothing
  <1>4. \A u \in Users : CardsOrNone(got[u]) /\ CardsOrNone(page[u])
    BY <1>3 DEF Init
  <1>5. now \in 1..MaxTime /\ turns \in 0..MaxTurns
    BY AnnouncementsAssumption DEF Init
  <1>6. DOMAIN row = Ids /\ \A i \in Ids : row[i] = NONE
    BY DEF Init, Nothing
  <1>7. TypeOK
    BY <1>2, <1>4, <1>5, <1>6 DEF Init, TypeOK
  <1>8. JobsKnow /\ TicksKnow
    BY DEF Init, JobsKnow, TicksKnow, Idle, Resting
  <1>9. QED
    BY <1>7, <1>8 DEF IType

LEMMA GoOnTypes ==
  ASSUME IType, NEW u \in Users, NEW stage \in JobStages, GoOn(u, stage),
         job[u].op = "create" => job[u].at # "insert"
  PROVE  job' \in [Users -> Job] /\ JobsKnow'
  <1>1. job[u] \in Job /\ [job[u] EXCEPT !.at = stage] \in Job
    BY DEF IType, TypeOK, Job, JobStages
  <1>2. job' = [job EXCEPT ![u] = [job[u] EXCEPT !.at = stage]]
    BY DEF GoOn
  <1>3. job' \in [Users -> Job]
    BY <1>1, <1>2 DEF IType, TypeOK
  <1>4. \A v \in Users : job'[v].op = job[v].op /\ job'[v].id = job[v].id
                         /\ (v # u => job'[v] = job[v])
    BY <1>1, <1>2 DEF IType, TypeOK, Job
  <1>5. JobsKnow'
    BY <1>4 DEF IType, JobsKnow
  <1>6. QED
    BY <1>3, <1>5

LEMMA RefuseTypes ==
  ASSUME IType, NEW u \in Users, Refuse(u)
  PROVE  /\ job' \in [Users -> Job] /\ JobsKnow'
         /\ DOMAIN got' = Users /\ \A v \in Users : CardsOrNone(got'[v])
  <1>1. Idle \in Job /\ CardsOrNone(Nothing)
    BY AnnouncementsAssumption DEF Idle, Job, Times, CardsOrNone, Nothing
  <1>2. job' \in [Users -> Job] /\ job'[u] = Idle /\ \A v \in Users : v # u => job'[v] = job[v]
    BY <1>1 DEF IType, TypeOK, Refuse
  <1>3. JobsKnow'
    BY <1>2 DEF IType, JobsKnow, Idle
  <1>4. got'[u] = Nothing /\ DOMAIN got' = Users /\ \A v \in Users : v # u => got'[v] = got[v]
    BY DEF IType, TypeOK, Refuse
  <1>5. \A v \in Users : CardsOrNone(got[v])
    BY DEF IType, TypeOK
  <1>6. QED
    BY <1>1, <1>2, <1>3, <1>4, <1>5

LEMMA AskTypes ==
  ASSUME IType, NEW u \in Users, NEW op \in {"create", "edit", "delete", "read", "load"},
         NEW first \in JobStages, NEW i \in Ids \cup {NONE}, NEW when \in Times,
         Ask(u, op, first, i, when),
         op \in {"edit", "delete", "read"} => i \in Ids,
         op = "create" => first = "insert",
         turns' \in 0..MaxTurns
  PROVE  IType'
  <1> DEFINE r == [op |-> op, at |-> first, id |-> i, when |-> when, draft |-> FALSE]
  <1>1. r \in Job
    BY DEF Job, JobStages
  <1>2. job' = [job EXCEPT ![u] = r]
    BY DEF Ask
  <1>3. r.op = op /\ r.at = first /\ r.id = i
    OBVIOUS
  <1> HIDE DEF r
  <1>4. job' \in [Users -> Job] /\ job'[u] = r /\ \A v \in Users : v # u => job'[v] = job[v]
    BY <1>1, <1>2 DEF IType, TypeOK
  <1>5. JobsKnow'
    BY <1>3, <1>4 DEF IType, JobsKnow
  <1>6. QED
    BY <1>4, <1>5 DEF IType, TypeOK, TicksKnow, Ask

LEMMA CardTypes ==
  ASSUME IType, NEW u, NEW i \in Ids, row[i] # NONE
  PROVE  CardFor(u, i) \in Card /\ StatsCard(i) \in Card
  BY DEF IType, TypeOK, CardFor, StatsCard, Card, Row

LEMMA ShowTypes ==
  ASSUME IType, NEW i \in Ids, NEW card, NEW but, card = NONE \/ card \in Card,
         Show(i, card, but)
  PROVE  DOMAIN page' = Users /\ \A u \in Users : CardsOrNone(page'[u])
  <1>1. DOMAIN page' = Users
    BY DEF Show
  <1>2. ASSUME NEW u \in Users PROVE CardsOrNone(page'[u])
    <2>1. CardsOrNone(page[u])
      BY DEF IType, TypeOK
    <2>2. page'[u] = page[u] \/ page'[u] = [page[u] EXCEPT ![i] = card]
      BY DEF Show
    <2>3. QED
      BY <2>1, <2>2 DEF CardsOrNone
  <1>3. QED
    BY <1>1, <1>2

LEMMA GoBackTypes ==
  ASSUME IType, NEW t \in Ticks, GoBack(t)
  PROVE  /\ tick' \in [Ticks -> Tick] /\ TicksKnow'
         /\ DOMAIN fresh' = Ticks
         /\ \A x \in Ticks : fresh'[x] = NONE \/ fresh'[x] \in Card
  <1>1. [tick[t] EXCEPT !.at = "mark", !.id = NONE] \in Tick
    BY ZenonT(60) DEF IType, TypeOK, Tick
  <1>2. tick' = [tick EXCEPT ![t] = [tick[t] EXCEPT !.at = "mark", !.id = NONE]]
    BY DEF GoBack
  <1>3. tick' \in [Ticks -> Tick] /\ tick'[t].at = "mark"
        /\ \A x \in Ticks : x # t => tick'[x] = tick[x]
    BY <1>1, <1>2 DEF IType, TypeOK, Tick
  <1>4. TicksKnow'
    BY <1>3 DEF IType, TicksKnow
  <1>5. DOMAIN fresh' = Ticks /\ \A x \in Ticks : fresh'[x] = NONE \/ fresh'[x] \in Card
    BY DEF GoBack, IType, TypeOK
  <1>6. QED
    BY <1>3, <1>4, <1>5

LEMMA ScheduledTypes ==
  ASSUME NEW r \in Row, NEW when \in Times, NEW d \in BOOLEAN
  PROVE  Scheduled(r, when) \in Row /\ Edited(r, when, d) \in Row
  <1>1. 0 \in Times
    BY AnnouncementsAssumption DEF Times
  <1>2. [r EXCEPT !.at = when] \in Row
    BY DEF Row
  <1>3. [r EXCEPT !.at = 0, !.published = TRUE] \in Row
    BY <1>1 DEF Row
  <1>4. QED
    BY <1>2, <1>3 DEF Scheduled, Edited

LEMMA TypesAsk ==
  ASSUME IType, NEW u \in Users,
         AskCreate(u) \/ AskEdit(u) \/ AskDelete(u) \/ AskRead(u) \/ AskList(u)
  PROVE  IType'
  <1>1. Schedules \subseteq Times /\ 0 \in Times
    BY AnnouncementsAssumption DEF Schedules, Times, IType, TypeOK
  <1>2. Turn => turns' \in 0..MaxTurns
    BY AnnouncementsAssumption DEF Turn, IType, TypeOK
  <1>3. turns' = turns => turns' \in 0..MaxTurns
    BY DEF IType, TypeOK
  <1>4. CASE AskCreate(u)
    <2>1. PICK when \in Schedules : Ask(u, "create", "insert", NONE, when)
      BY <1>4 DEF AskCreate
    <2>2. QED
      BY <1>1, <1>3, <1>4, <2>1, AskTypes DEF AskCreate, JobStages
  <1>5. CASE AskEdit(u)
    <2>1. PICK i \in Ids, when \in Schedules : Ask(u, "edit", "look", i, when)
      BY <1>5 DEF AskEdit
    <2>2. QED
      BY <1>1, <1>2, <1>5, <2>1, AskTypes DEF AskEdit, JobStages
  <1>6. CASE AskDelete(u)
    <2>1. PICK i \in Ids : Ask(u, "delete", "look", i, 0)
      BY <1>6 DEF AskDelete
    <2>2. QED
      BY <1>1, <1>3, <1>6, <2>1, AskTypes DEF AskDelete, JobStages
  <1>7. CASE AskRead(u)
    <2>1. PICK i \in Ids : Ask(u, "read", "look", i, 0)
      BY <1>7 DEF AskRead
    <2>2. QED
      BY <1>1, <1>2, <1>7, <2>1, AskTypes DEF AskRead, JobStages
  <1>8. CASE AskList(u)
    BY <1>1, <1>2, <1>8, AskTypes DEF AskList, JobStages
  <1>9. QED
    BY <1>4, <1>5, <1>6, <1>7, <1>8

\* Counting one more notification keeps the type of told.
LEMMA ToldTypes ==
  ASSUME TypeOK, NEW k \in Ids
  PROVE  /\ [told EXCEPT ![k].tick = @ + 1] \in [Ids -> [tick : Nat, hand : Nat]]
         /\ [told EXCEPT ![k].hand = @ + 1] \in [Ids -> [tick : Nat, hand : Nat]]
  <1> DEFINE T == [tick : Nat, hand : Nat]
  <1>1. told \in [Ids -> T]
    BY DEF TypeOK
  <1>2. told[k] \in T
    BY <1>1
  <1>3. [told[k] EXCEPT !.tick = @ + 1] \in T /\ [told[k] EXCEPT !.hand = @ + 1] \in T
    BY <1>2
  <1> HIDE DEF T
  <1>4. \A x \in T : [told EXCEPT ![k] = x] \in [Ids -> T]
    BY <1>1
  <1>5. QED
    BY <1>3, <1>4 DEF T

LEMMA TypesHandle ==
  ASSUME IType, NEW u \in Users, Handle(u)
  PROVE  IType'
  <1> DEFINE i == job[u].id
  <1>0. job[u] \in Job
    BY DEF IType, TypeOK
  <1>1. CASE Insert(u)
    <2>1. PICK n \in Ids \ used :
            LET r == Scheduled([published |-> FALSE, at |-> 0, edits |-> 0], job[u].when)
            IN /\ used' = used \cup {n}
               /\ row' = [row EXCEPT ![n] = r]
               /\ job' = [job EXCEPT ![u].at = IF r.published THEN "tell" ELSE "reread",
                                     ![u].id = n]
      BY <1>1 DEF Insert
    <2> DEFINE r == Scheduled([published |-> FALSE, at |-> 0, edits |-> 0], job[u].when)
               stage == IF r.published THEN "tell" ELSE "reread"
    <2>2. [published |-> FALSE, at |-> 0, edits |-> 0] \in Row
      BY AnnouncementsAssumption DEF Row, Times
    <2>3. r \in Row
      BY <1>0, <2>2, ScheduledTypes DEF Job
    <2>4. stage \in {"tell", "reread"}
      OBVIOUS
    <2>5. /\ used' = used \cup {n} /\ row' = [row EXCEPT ![n] = r]
          /\ job' = [job EXCEPT ![u] = [job[u] EXCEPT !.at = stage, !.id = n]]
      BY <2>1
    <2> HIDE DEF r, stage
    <2>6. [job[u] EXCEPT !.at = stage, !.id = n] \in Job
      BY <1>0, <2>4 DEF Job
    <2>7. job' \in [Users -> Job] /\ job'[u].id = n /\ \A v \in Users : v # u => job'[v] = job[v]
      BY <1>0, <2>5, <2>6 DEF IType, TypeOK, Job
    <2>8. JobsKnow'
      BY <2>7 DEF IType, JobsKnow
    <2>9. used' \subseteq Ids /\ DOMAIN row' = Ids /\ \A k \in Ids : row'[k] = NONE \/ row'[k] \in Row
      BY <2>3, <2>5 DEF IType, TypeOK
    <2>10. QED
      BY <1>1, <2>7, <2>8, <2>9 DEF IType, TypeOK, TicksKnow, Insert, counters
  <1>2. CASE Look(u)
    <2>1. CASE Refuse(u)
      BY <1>2, <2>1, RefuseTypes DEF IType, TypeOK, TicksKnow, Look, counters
    <2>2. CASE ~Refuse(u)
      <3> DEFINE first == [edit |-> "write", delete |-> "remove", read |-> "record"]
                 stage == first[job[u].op]
                 d == ~row[i].published
      <3>1. i \in Ids /\ row[i] # NONE /\ job[u].op \in {"edit", "delete", "read"}
            /\ job' = [job EXCEPT ![u].at = stage, ![u].draft = d] /\ got' = got
        BY <1>2, <2>2 DEF Look, At, IType, JobsKnow
      <3>2. stage \in JobStages /\ d \in BOOLEAN
        BY <3>1 DEF JobStages
      <3> HIDE DEF stage, d
      <3>3. [job[u] EXCEPT !.at = stage, !.draft = d] \in Job
        BY <1>0, <3>2 DEF Job, JobStages
      <3>4. job' = [job EXCEPT ![u] = [job[u] EXCEPT !.at = stage, !.draft = d]]
        BY <3>1
      <3>5. job' \in [Users -> Job] /\ job'[u].op = job[u].op /\ job'[u].id = i
            /\ \A v \in Users : v # u => job'[v] = job[v]
        BY <1>0, <3>3, <3>4 DEF IType, TypeOK, Job
      <3>6. JobsKnow'
        BY <3>1, <3>5 DEF IType, JobsKnow
      <3>7. QED
        BY <1>2, <3>1, <3>5, <3>6 DEF IType, TypeOK, TicksKnow, Look, counters
    <2>3. QED
      BY <2>1, <2>2
  <1>3. CASE Write(u)
    <2>1. CASE row[i] = NONE
      BY <1>3, <2>1, RefuseTypes DEF IType, TypeOK, TicksKnow, Write, counters
    <2>2. CASE row[i] # NONE
      <3> DEFINE r == Edited([row[i] EXCEPT !.edits = @ + 1], job[u].when, job[u].draft)
      <3>1. i \in Ids /\ row' = [row EXCEPT ![i] = r] /\ GoOn(u, "reread") /\ got' = got
            /\ job[u].op = "edit"
        BY <1>3, <2>2 DEF Write, At, IType, JobsKnow
      <3>2. [row[i] EXCEPT !.edits = @ + 1] \in Row
        <4>1. row[i] \in Row
          BY <2>2, <3>1 DEF IType, TypeOK
        <4>2. row[i].edits + 1 \in Nat
          BY <4>1 DEF Row
        <4>3. QED
          BY <4>1, <4>2 DEF Row
      <3>3. r \in Row
        BY <1>0, <3>2, ScheduledTypes DEF Job
      <3> HIDE DEF r
      <3>4. DOMAIN row' = Ids /\ \A k \in Ids : row'[k] = NONE \/ row'[k] \in Row
        BY <3>1, <3>3 DEF IType, TypeOK
      <3>5. job' \in [Users -> Job] /\ JobsKnow'
        BY <3>1, GoOnTypes DEF JobStages
      <3>6. QED
        BY <1>3, <3>1, <3>4, <3>5 DEF IType, TypeOK, TicksKnow, Write, counters
    <2>3. QED
      BY <2>1, <2>2
  <1>4. CASE Remove(u)
    <2>1. CASE row[i] = NONE
      BY <1>4, <2>1, RefuseTypes DEF IType, TypeOK, TicksKnow, Remove, counters
    <2>2. CASE row[i] # NONE
      <3>1. i \in Ids /\ row' = [row EXCEPT ![i] = NONE] /\ reads' = [reads EXCEPT ![i] = {}]
            /\ GoOn(u, "emit") /\ got' = got /\ job[u].op = "delete"
        BY <1>4, <2>2 DEF Remove, At, IType, JobsKnow
      <3>2. DOMAIN row' = Ids /\ \A k \in Ids : row'[k] = NONE \/ row'[k] \in Row
        BY <3>1 DEF IType, TypeOK
      <3>3. reads' \in [Ids -> SUBSET Users]
        BY <3>1 DEF IType, TypeOK
      <3>4. job' \in [Users -> Job] /\ JobsKnow'
        BY <3>1, GoOnTypes DEF JobStages
      <3>5. QED
        BY <1>4, <3>1, <3>2, <3>3, <3>4 DEF IType, TypeOK, TicksKnow, Remove, counters
    <2>3. QED
      BY <2>1, <2>2
  <1>5. CASE Record(u)
    <2>1. CASE row[i] = NONE
      BY <1>5, <2>1, RefuseTypes DEF IType, TypeOK, TicksKnow, Record, counters
    <2>2. CASE row[i] # NONE
      <3>1. i \in Ids /\ reads' = [reads EXCEPT ![i] = @ \cup {u}]
            /\ GoOn(u, "reread") /\ got' = got /\ job[u].op = "read"
        BY <1>5, <2>2 DEF Record, At, IType, JobsKnow
      <3>2. reads' \in [Ids -> SUBSET Users]
        BY <3>1 DEF IType, TypeOK
      <3>3. job' \in [Users -> Job] /\ JobsKnow'
        BY <3>1, GoOnTypes DEF JobStages
      <3>4. QED
        BY <1>5, <3>1, <3>2, <3>3 DEF IType, TypeOK, TicksKnow, Record, counters
    <2>3. QED
      BY <2>1, <2>2
  <1>6. CASE Reread(u)
    <2>1. CASE ~Visible(u, i)
      BY <1>6, <2>1, RefuseTypes DEF IType, TypeOK, TicksKnow, Reread, counters
    <2>2. CASE Visible(u, i)
      <3>1. i \in Ids /\ got' = [got EXCEPT ![u][i] = CardFor(u, i)] /\ GoOn(u, AfterReread(u))
            /\ job[u].at = "reread"
        BY <1>6, <2>2 DEF Reread, At, IType, JobsKnow
      <3>2. CardFor(u, i) \in Card
        BY <2>2, <3>1, CardTypes DEF Visible
      <3>3. CardsOrNone(got[u])
        BY DEF IType, TypeOK
      <3>4. got'[u] = [got[u] EXCEPT ![i] = CardFor(u, i)] /\ DOMAIN got' = Users
            /\ \A v \in Users : v # u => got'[v] = got[v]
        BY <3>1 DEF IType, TypeOK
      <3>5. CardsOrNone(got'[u])
        BY <3>1, <3>2, <3>3, <3>4 DEF CardsOrNone
      <3>6. \A v \in Users : CardsOrNone(got'[v])
        BY <3>4, <3>5 DEF IType, TypeOK
      <3>7. AfterReread(u) \in JobStages
        BY DEF AfterReread, JobStages
      <3>8. job' \in [Users -> Job] /\ JobsKnow'
        BY <3>1, <3>7, GoOnTypes
      <3>9. QED
        BY <1>6, <3>4, <3>6, <3>8 DEF IType, TypeOK, TicksKnow, Reread, counters
    <2>3. QED
      BY <2>1, <2>2
  <1>7. CASE Tell(u)
    <2>1. i \in Ids /\ job[u].at = "tell" /\ GoOn(u, AfterTell(u))
          /\ told' \in {told, [told EXCEPT ![i].hand = @ + 1]}
      BY <1>7 DEF Tell, At, IType, JobsKnow
    <2>2. TypeOK /\ told \in [Ids -> [tick : Nat, hand : Nat]]
      BY DEF IType, TypeOK
    <2>3. told' \in [Ids -> [tick : Nat, hand : Nat]]
      BY <2>1, <2>2, ToldTypes
    <2>4. AfterTell(u) \in JobStages
      BY DEF AfterTell, JobStages
    <2>5. job' \in [Users -> Job] /\ JobsKnow'
      BY <2>1, <2>4, GoOnTypes
    <2>6. QED
      BY <1>7, <2>3, <2>5 DEF IType, TypeOK, TicksKnow, Tell, counters
  <1>8. CASE GoLive(u)
    <2> DEFINE card == IF row[i] = NONE THEN got[u][i] ELSE StatsCard(i)
    <2>1. i \in Ids /\ Show(i, card, u) /\ GoOn(u, "emit") /\ job[u].op = "edit"
      BY <1>8 DEF GoLive, At, IType, JobsKnow
    <2>2. card = NONE \/ card \in Card
      BY <2>1, CardTypes DEF IType, TypeOK, CardsOrNone
    <2> HIDE DEF card
    <2>3. DOMAIN page' = Users /\ \A v \in Users : CardsOrNone(page'[v])
      BY <2>1, <2>2, ShowTypes
    <2>4. job' \in [Users -> Job] /\ JobsKnow'
      BY <2>1, GoOnTypes DEF JobStages
    <2>5. QED
      BY <1>8, <2>3, <2>4 DEF IType, TypeOK, TicksKnow, GoLive, counters
  <1>9. CASE Emit(u)
    <2>1. i \in Ids /\ GoOn(u, "answer") /\ job[u].at = "emit"
      BY <1>9 DEF Emit, At, IType, JobsKnow
    <2>2. Show(i, NONE, u) \/ Show(i, got[u][i], u) \/ page' = page
      BY <1>9 DEF Emit
    <2>3. got[u][i] = NONE \/ got[u][i] \in Card
      BY <2>1 DEF IType, TypeOK, CardsOrNone
    <2>4. DOMAIN page' = Users /\ \A v \in Users : CardsOrNone(page'[v])
      BY <2>1, <2>2, <2>3, ShowTypes DEF IType, TypeOK
    <2>5. job' \in [Users -> Job] /\ JobsKnow'
      BY <2>1, GoOnTypes DEF JobStages
    <2>6. QED
      BY <1>9, <2>4, <2>5 DEF IType, TypeOK, TicksKnow, Emit, counters
  <1>10. CASE List(u)
    <2> DEFINE cards == [k \in Ids |-> IF Visible(u, k) THEN CardFor(u, k) ELSE NONE]
    <2>1. got' = [got EXCEPT ![u] = cards] /\ GoOn(u, "answer") /\ job[u].op = "load"
      BY <1>10 DEF List, At
    <2>2. CardsOrNone(cards)
      BY CardTypes DEF CardsOrNone, Visible
    <2> HIDE DEF cards
    <2>3. DOMAIN got' = Users /\ \A v \in Users : CardsOrNone(got'[v])
      BY <2>1, <2>2 DEF IType, TypeOK
    <2>4. job' \in [Users -> Job] /\ JobsKnow'
      BY <2>1, GoOnTypes DEF JobStages
    <2>5. QED
      BY <1>10, <2>3, <2>4 DEF IType, TypeOK, TicksKnow, List, counters
  <1>11. CASE Arrive(u)
    <2> DEFINE cards == IF job[u].op = "load" THEN got[u]
                        ELSE [page[u] EXCEPT ![job[u].id] = got[u][job[u].id]]
    <2>1. page' = [page EXCEPT ![u] = cards] /\ Refuse(u)
          /\ job[u].op \in {"create", "edit", "delete", "read", "load"} /\ job[u].at = "answer"
      BY <1>11 DEF Arrive, At
    <2>2. CardsOrNone(got[u]) /\ CardsOrNone(page[u])
      BY DEF IType, TypeOK
    <2>3. CardsOrNone(cards)
      <3>1. CASE job[u].op = "load"
        BY <2>2, <3>1
      <3>2. CASE job[u].op # "load"
        <4>1. i \in Ids
          BY <2>1, <3>2 DEF IType, JobsKnow
        <4>2. QED
          BY <2>2, <3>2, <4>1 DEF CardsOrNone
      <3>3. QED
        BY <3>1, <3>2
    <2> HIDE DEF cards
    <2>4. DOMAIN page' = Users /\ \A v \in Users : CardsOrNone(page'[v])
      BY <2>1, <2>3 DEF IType, TypeOK
    <2>5. QED
      BY <1>11, <2>1, <2>4, RefuseTypes DEF IType, TypeOK, TicksKnow, Arrive, counters
  <1>12. QED
    BY <1>1, <1>2, <1>3, <1>4, <1>5, <1>6, <1>7, <1>8, <1>9, <1>10, <1>11 DEF Handle

LEMMA TypesRun ==
  ASSUME IType, NEW t \in Ticks, Run(t)
  PROVE  IType'
  <1> DEFINE i == tick[t].id
  <1>0. tick[t] \in Tick
    BY DEF IType, TypeOK
  <1>1. CASE StartTick(t)
    <2> DEFINE r == [at |-> "mark", todo |-> {k \in Ids : Due(k)}, id |-> NONE]
    <2>1. r \in Tick /\ r.at = "mark"
      BY DEF Tick
    <2>2. tick' = [tick EXCEPT ![t] = r]
      BY <1>1 DEF StartTick
    <2> HIDE DEF r
    <2>3. tick' \in [Ticks -> Tick] /\ TicksKnow'
      BY <2>1, <2>2 DEF IType, TypeOK, TicksKnow
    <2>4. QED
      BY <1>1, <2>3 DEF IType, TypeOK, JobsKnow, StartTick, counters
  <1>2. CASE EndTick(t)
    <2>1. Resting \in Tick /\ Resting.at = "idle"
      BY DEF Resting, Tick
    <2>2. tick' \in [Ticks -> Tick] /\ TicksKnow'
      BY <1>2, <2>1 DEF IType, TypeOK, TicksKnow, EndTick
    <2>3. QED
      BY <1>2, <2>2 DEF IType, TypeOK, JobsKnow, EndTick, counters
  <1>3. CASE Mark(t)
    <2>1. PICK k \in tick[t].todo :
            IF row[k] # NONE /\ ~row[k].published
            THEN row' = [row EXCEPT ![k].published = TRUE] /\ TakeUp(t, k)
            ELSE Skip(t, k) /\ UNCHANGED row
      BY <1>3 DEF Mark
    <2>2. k \in Ids
      BY <1>0 DEF Tick
    <2>3. CASE row[k] # NONE /\ ~row[k].published
      <3> DEFINE r == [at |-> "look", todo |-> tick[t].todo \ {k}, id |-> k]
      <3>1. r \in Tick /\ r.id \in Ids
        BY <1>0, <2>2 DEF Tick
      <3>2. tick' = [tick EXCEPT ![t] = r] /\ row' = [row EXCEPT ![k] = [row[k] EXCEPT !.published = TRUE]]
        BY <2>1, <2>3 DEF TakeUp
      <3> HIDE DEF r
      <3>3. tick' \in [Ticks -> Tick] /\ TicksKnow'
        BY <3>1, <3>2 DEF IType, TypeOK, TicksKnow
      <3>4. [row[k] EXCEPT !.published = TRUE] \in Row
        BY <2>2, <2>3 DEF IType, TypeOK, Row
      <3>5. DOMAIN row' = Ids /\ \A x \in Ids : row'[x] = NONE \/ row'[x] \in Row
        BY <3>2, <3>4 DEF IType, TypeOK
      <3>6. QED
        BY <1>3, <3>3, <3>5 DEF IType, TypeOK, JobsKnow, Mark, counters
    <2>4. CASE ~(row[k] # NONE /\ ~row[k].published)
      <3>1. Skip(t, k) /\ row' = row
        BY <2>1, <2>4
      <3>2. [tick[t] EXCEPT !.todo = @ \ {k}] \in Tick
        BY <1>0 DEF Tick
      <3>3. tick' \in [Ticks -> Tick] /\ TicksKnow'
        BY <1>0, <1>3, <3>1, <3>2 DEF IType, TypeOK, TicksKnow, Skip, Mark, Tick
      <3>4. QED
        BY <1>3, <3>1, <3>3 DEF IType, TypeOK, JobsKnow, Mark, counters
    <2>5. QED
      BY <2>3, <2>4
  <1>4. CASE ReadBack(t)
    <2>1. i \in Ids /\ tick[t].at = "look"
      BY <1>4 DEF ReadBack, IType, TicksKnow
    <2>2. CASE row[i] = NONE
      <3>1. GoBack(t)
        BY <1>4, <2>2 DEF ReadBack
      <3>2. QED
        BY <1>4, <3>1, GoBackTypes DEF IType, TypeOK, JobsKnow, ReadBack, counters
    <2>3. CASE row[i] # NONE
      <3>1. tick' = [tick EXCEPT ![t] = [tick[t] EXCEPT !.at = "tell"]]
            /\ fresh' = [fresh EXCEPT ![t] = StatsCard(i)]
        BY <1>4, <2>3 DEF ReadBack
      <3>2. [tick[t] EXCEPT !.at = "tell"] \in Tick
        BY <1>0 DEF Tick
      <3>3. tick' \in [Ticks -> Tick] /\ tick'[t].id = i /\ \A x \in Ticks : x # t => tick'[x] = tick[x]
        BY <1>0, <3>1, <3>2 DEF IType, TypeOK, Tick
      <3>4. TicksKnow'
        BY <2>1, <3>3 DEF IType, TicksKnow
      <3>5. StatsCard(i) \in Card
        BY <2>1, <2>3, CardTypes
      <3>6. DOMAIN fresh' = Ticks /\ \A x \in Ticks : fresh'[x] = NONE \/ fresh'[x] \in Card
        BY <3>1, <3>5 DEF IType, TypeOK
      <3>7. QED
        BY <1>4, <3>3, <3>4, <3>6 DEF IType, TypeOK, JobsKnow, ReadBack, counters
    <2>4. QED
      BY <2>2, <2>3
  <1>5. CASE TickTell(t)
    <2>1. i \in Ids /\ told' = [told EXCEPT ![i].tick = @ + 1]
          /\ tick' = [tick EXCEPT ![t] = [tick[t] EXCEPT !.at = "emit"]]
      BY <1>5 DEF TickTell, IType, TicksKnow
    <2>2. [tick[t] EXCEPT !.at = "emit"] \in Tick
      BY <1>0 DEF Tick
    <2>3. tick' \in [Ticks -> Tick] /\ tick'[t].id = i /\ \A x \in Ticks : x # t => tick'[x] = tick[x]
      BY <1>0, <2>1, <2>2 DEF IType, TypeOK, Tick
    <2>4. TicksKnow'
      BY <2>1, <2>3 DEF IType, TicksKnow
    <2>5. TypeOK
      BY DEF IType
    <2>6. told' \in [Ids -> [tick : Nat, hand : Nat]]
      BY <2>1, <2>5, ToldTypes
    <2>7. QED
      BY <1>5, <2>3, <2>4, <2>6 DEF IType, TypeOK, JobsKnow, TickTell, counters
  <1>6. CASE TickEmit(t)
    <2>1. i \in Ids /\ Show(i, fresh[t], NONE) /\ GoBack(t)
      BY <1>6 DEF TickEmit, IType, TicksKnow
    <2>2. fresh[t] = NONE \/ fresh[t] \in Card
      BY DEF IType, TypeOK
    <2>3. DOMAIN page' = Users /\ \A v \in Users : CardsOrNone(page'[v])
      BY <2>1, <2>2, ShowTypes
    <2>4. QED
      BY <1>6, <2>1, <2>3, GoBackTypes DEF IType, TypeOK, JobsKnow, TickEmit, counters
  <1>7. QED
    BY <1>1, <1>2, <1>3, <1>4, <1>5, <1>6 DEF Run

LEMMA TypesMishap ==
  ASSUME IType,
         (\E u \in Users : Fault(u)) \/ (\E t \in Ticks : TickFault(t)) \/ Restart
  PROVE  IType'
  <1>1. Mishap => turns' \in 0..MaxTurns /\ failed' \in BOOLEAN
    BY AnnouncementsAssumption DEF Mishap, Turn, IType, TypeOK
  <1>2. ASSUME NEW u \in Users, Fault(u) PROVE IType'
    <2>1. CASE job[u].at = "tell"
      <3>1. GoOn(u, AfterTell(u)) /\ got' = got
        BY <1>2, <2>1 DEF Fault
      <3>2. AfterTell(u) \in JobStages
        BY DEF AfterTell, JobStages
      <3>3. job' \in [Users -> Job] /\ JobsKnow'
        BY <2>1, <3>1, <3>2, GoOnTypes
      <3>4. QED
        BY <1>1, <1>2, <3>1, <3>3 DEF IType, TypeOK, TicksKnow, Fault
    <2>2. CASE job[u].at # "tell"
      <3>1. Refuse(u)
        BY <1>2, <2>2 DEF Fault
      <3>2. QED
        BY <1>1, <1>2, <3>1, RefuseTypes DEF IType, TypeOK, TicksKnow, Fault
    <2>3. QED
      BY <2>1, <2>2
  <1>3. ASSUME NEW t \in Ticks, TickFault(t) PROVE IType'
    <2>0. tick[t] \in Tick
      BY DEF IType, TypeOK
    <2>1. CASE tick[t].at = "mark" /\ fresh' = fresh /\ \E k \in tick[t].todo : Skip(t, k)
      <3>1. PICK k \in tick[t].todo : Skip(t, k)
        BY <2>1
      <3>2. [tick[t] EXCEPT !.todo = @ \ {k}] \in Tick
        BY <2>0 DEF Tick
      <3>3. tick' \in [Ticks -> Tick] /\ TicksKnow'
        BY <2>0, <2>1, <3>1, <3>2 DEF IType, TypeOK, TicksKnow, Skip, Tick
      <3>4. QED
        BY <1>1, <1>3, <2>1, <3>3 DEF IType, TypeOK, JobsKnow, TickFault
    <2>2. CASE GoBack(t)
      BY <1>1, <1>3, <2>2, GoBackTypes DEF IType, TypeOK, JobsKnow, TickFault
    <2>3. CASE tick[t].at = "tell" /\ tick' = [tick EXCEPT ![t].at = "emit"] /\ fresh' = fresh
      <3>1. [tick[t] EXCEPT !.at = "emit"] \in Tick
        BY <2>0 DEF Tick
      <3>2. tick' \in [Ticks -> Tick] /\ tick'[t].id = tick[t].id
            /\ \A x \in Ticks : x # t => tick'[x] = tick[x]
        BY <2>0, <2>3, <3>1 DEF IType, TypeOK, Tick
      <3>3. TicksKnow'
        BY <2>3, <3>2 DEF IType, TicksKnow
      <3>4. QED
        BY <1>1, <1>3, <2>3, <3>2, <3>3 DEF IType, TypeOK, JobsKnow, TickFault
    <2>4. QED
      BY <1>3, <2>1, <2>2, <2>3 DEF TickFault
  <1>4. CASE Restart
    <2>1. Idle \in Job /\ CardsOrNone(Nothing) /\ Resting \in Tick
      BY AnnouncementsAssumption DEF Idle, Job, Times, CardsOrNone, Nothing, Resting, Tick
    <2>2. job' \in [Users -> Job] /\ \A u \in Users : job'[u] = job[u] \/ job'[u] = Idle
      BY <1>4, <2>1 DEF Restart, IType, TypeOK
    <2>3. JobsKnow'
      BY <2>2 DEF IType, JobsKnow, Idle
    <2>4. tick' \in [Ticks -> Tick] /\ TicksKnow'
      BY <1>4, <2>1 DEF Restart, TicksKnow, Resting
    <2>5. DOMAIN got' = Users /\ \A u \in Users : CardsOrNone(got'[u])
      BY <1>4, <2>1 DEF Restart, IType, TypeOK
    <2>6. DOMAIN fresh' = Ticks /\ \A t \in Ticks : fresh'[t] = NONE
      BY <1>4 DEF Restart
    <2>7. QED
      BY <1>1, <1>4, <2>2, <2>3, <2>4, <2>5, <2>6 DEF IType, TypeOK, Restart
  <1>5. QED
    BY <1>2, <1>3, <1>4

LEMMA TypesStep == IType /\ [Next]_vars => IType'
  <1> SUFFICES ASSUME IType, [Next]_vars PROVE IType'
    OBVIOUS
  <1>1. CASE Clock
    BY <1>1, AnnouncementsAssumption DEF Clock, IType, TypeOK, JobsKnow, TicksKnow, counters
  <1>2. CASE UNCHANGED vars
    BY <1>2 DEF vars, IType, TypeOK, JobsKnow, TicksKnow
  <1>3. QED
    BY <1>1, <1>2, TypesAsk, TypesHandle, TypesRun, TypesMishap DEF Next

\* Every table, request, run and page keeps its type in every behaviour.
THEOREM TypeCorrect == Spec => []TypeOK
  <1>1. Spec => []IType
    BY TypesInit, TypesStep, PTL DEF Spec
  <1>2. IType => TypeOK
    BY DEF IType
  <1>3. QED
    BY <1>1, <1>2, PTL

-----------------------------------------------------------------------------
(***************************************************************************)
(* What is public stays public.                                            *)
(***************************************************************************)

\* The statements that change a row.
LEMMA RowFrame ==
  ASSUME [Next]_vars
  PROVE  \/ row' = row /\ used' = used
         \/ \E u \in Users : Insert(u) \/ Write(u) \/ Remove(u)
         \/ \E t \in Ticks : Mark(t)
  BY ZenonT(60) DEF Next, vars, AskCreate, AskEdit, AskDelete, AskRead, AskList, Ask, Handle, Look, Record,
         Reread, Tell, GoLive, Emit, List, Arrive, Fault, Run, StartTick, EndTick, ReadBack,
         TickTell, TickEmit, TickFault, Restart, Clock

LEMMA PublicStays ==
  ASSUME IType, RowsUsed, [Next]_vars
  PROVE  /\ RowsUsed'
         /\ \A i \in Ids : Public(i) => Public(i)'
         /\ \A i \in Ids : Live(i) => row'[i] = NONE \/ row'[i].published
  <1>1. CASE row' = row /\ used' = used
    BY <1>1 DEF RowsUsed, Public, Live
  <1>2. ASSUME NEW u \in Users, Insert(u)
        PROVE  /\ RowsUsed'
               /\ \A i \in Ids : Public(i) => Public(i)'
               /\ \A i \in Ids : Live(i) => row'[i] = NONE \/ row'[i].published
    <2>1. PICK n \in Ids \ used :
            /\ used' = used \cup {n}
            /\ \E r : row' = [row EXCEPT ![n] = r]
      BY <1>2 DEF Insert
    <2>2. \A i \in Ids : i # n => row'[i] = row[i]
      BY <2>1 DEF IType, TypeOK
    <2>3. row[n] = NONE /\ ~Public(n)
      BY <2>1 DEF RowsUsed, Public
    <2>4. QED
      BY <2>1, <2>2, <2>3 DEF RowsUsed, Public, Live
  <1>3. ASSUME NEW u \in Users, Write(u)
        PROVE  /\ RowsUsed'
               /\ \A i \in Ids : Public(i) => Public(i)'
               /\ \A i \in Ids : Live(i) => row'[i] = NONE \/ row'[i].published
    <2> DEFINE n == job[u].id
               e == [row[n] EXCEPT !.edits = @ + 1]
               r == Edited(e, job[u].when, job[u].draft)
    <2>1. CASE row[n] = NONE
      <3>1. row' = row /\ used' = used
        BY <1>3, <2>1 DEF Write
      <3>2. QED
        BY <3>1 DEF RowsUsed, Public, Live
    <2>2. CASE row[n] # NONE
      <3>1. n \in Ids /\ row' = [row EXCEPT ![n] = r] /\ used' = used
        BY <1>3, <2>2 DEF Write, At, IType, JobsKnow
      <3>2. row[n] \in Row
        BY <2>2, <3>1 DEF IType, TypeOK
      <3>3. e \in [published : BOOLEAN, at : Times, edits : Nat] /\ e.published = row[n].published
        <4>1. row[n].edits + 1 \in Nat
          BY <3>2 DEF Row
        <4>2. QED
          BY <3>2, <4>1 DEF Row
      <3> HIDE DEF e
      <3>4. row[n].published => r.published
        BY <3>3 DEF Edited, Scheduled
      <3> HIDE DEF r
      <3>5. row'[n] = r /\ \A i \in Ids : i # n => row'[i] = row[i]
        BY <3>1 DEF IType, TypeOK
      <3>6. QED
        BY <2>2, <3>1, <3>4, <3>5 DEF RowsUsed, Public, Live
    <2>3. QED
      BY <2>1, <2>2
  <1>4. ASSUME NEW u \in Users, Remove(u)
        PROVE  /\ RowsUsed'
               /\ \A i \in Ids : Public(i) => Public(i)'
               /\ \A i \in Ids : Live(i) => row'[i] = NONE \/ row'[i].published
    <2>1. used' = used /\ \A i \in Ids : row'[i] = row[i] \/ row'[i] = NONE
      BY <1>4 DEF Remove, IType, TypeOK
    <2>2. QED
      BY <2>1 DEF RowsUsed, Public, Live
  <1>5. ASSUME NEW t \in Ticks, Mark(t)
        PROVE  /\ RowsUsed'
               /\ \A i \in Ids : Public(i) => Public(i)'
               /\ \A i \in Ids : Live(i) => row'[i] = NONE \/ row'[i].published
    <2>1. used' = used
      BY <1>5 DEF Mark
    <2>2. \/ row' = row
          \/ \E k \in Ids : row[k] # NONE /\ row' = [row EXCEPT ![k].published = TRUE]
      BY <1>5 DEF Mark, IType, TypeOK, Tick
    <2>3. ASSUME NEW k \in Ids, row[k] # NONE, row' = [row EXCEPT ![k].published = TRUE]
          PROVE  row'[k].published /\ \A i \in Ids : i # k => row'[i] = row[i]
      <3>1. row[k] \in Row
        BY <2>3 DEF IType, TypeOK
      <3>2. row'[k] = [row[k] EXCEPT !.published = TRUE]
        BY <2>3 DEF IType, TypeOK
      <3>3. QED
        BY <2>3, <3>1, <3>2 DEF IType, TypeOK, Row
    <2>4. QED
      BY <2>1, <2>2, <2>3 DEF RowsUsed, Public, Live
  <1>6. QED
    BY <1>1, <1>2, <1>3, <1>4, <1>5, RowFrame

LEMMA ToldStep ==
  ASSUME IPublic, [Next]_vars
  PROVE  ToldPublic'
  <1>1. \A i \in Ids : Public(i) => Public(i)'
    BY PublicStays DEF IPublic
  <1>2. CASE told' = told
    BY <1>1, <1>2 DEF IPublic, ToldPublic
  <1>3. ASSUME NEW u \in Users, Tell(u) PROVE ToldPublic'
    <2>1. job[u].id \in Ids /\ Public(job[u].id)
      BY <1>3 DEF Tell, At, IPublic, IType, JobsKnow, TellersPublic
    <2>2. \A i \in Ids : i # job[u].id => told'[i] = told[i]
      BY <1>3, <2>1 DEF Tell, IPublic, IType, TypeOK
    <2>3. QED
      BY <1>1, <2>1, <2>2 DEF IPublic, ToldPublic
  <1>4. ASSUME NEW t \in Ticks, TickTell(t) PROVE ToldPublic'
    <2>1. tick[t].id \in Ids /\ Public(tick[t].id)
      BY <1>4 DEF TickTell, IPublic, IType, TicksKnow, RunsPublic
    <2>2. \A i \in Ids : i # tick[t].id => told'[i] = told[i]
      BY <1>4, <2>1 DEF TickTell, IPublic, IType, TypeOK
    <2>3. QED
      BY <1>1, <2>1, <2>2 DEF IPublic, ToldPublic
  <1>5. \/ told' = told
        \/ \E u \in Users : Tell(u)
        \/ \E t \in Ticks : TickTell(t)
    BY DEF Next, vars, AskCreate, AskEdit, AskDelete, AskRead, AskList, Ask, Handle, Insert, Look,
           Write, Remove, Record, Reread, GoLive, Emit, List, Arrive, Fault, Run, StartTick,
           EndTick, Mark, ReadBack, TickEmit, TickFault, Restart, Clock
  <1>6. QED
    BY <1>2, <1>3, <1>4, <1>5

\* A card that is shown to everybody is a public one.
LEMMA ShowPublic ==
  ASSUME IPublic, [Next]_vars, NEW i \in Ids, NEW card, NEW but, Show(i, card, but),
         card = NONE \/ Public(i)
  PROVE  PagesPublic'
  <1>1. \A k \in Ids : Public(k) => Public(k)'
    BY PublicStays DEF IPublic
  <1>2. ASSUME NEW u \in Users \ Managers, NEW k \in Ids, page'[u][k] # NONE
        PROVE  Public(k)'
    <2>1. page'[u] = page[u] \/ page'[u] = [page[u] EXCEPT ![i] = card]
      BY DEF Show
    <2>2. DOMAIN page[u] = Ids
      BY DEF IPublic, IType, TypeOK, CardsOrNone
    <2>3. CASE page'[u][k] = page[u][k]
      BY <1>1, <1>2, <2>3 DEF IPublic, PagesPublic
    <2>4. CASE page'[u][k] # page[u][k]
      <3>1. k = i /\ page'[u][k] = card
        BY <2>1, <2>2, <2>4
      <3>2. QED
        BY <1>1, <1>2, <3>1
    <2>5. QED
      BY <2>3, <2>4
  <1>3. QED
    BY <1>2 DEF PagesPublic

LEMMA PagesStep ==
  ASSUME IPublic, [Next]_vars
  PROVE  PagesPublic'
  <1>1. \A i \in Ids : Public(i) => Public(i)'
    BY PublicStays DEF IPublic
  <1>2. CASE page' = page
    BY <1>1, <1>2 DEF IPublic, PagesPublic
  <1>3. ASSUME NEW u \in Users, GoLive(u) PROVE PagesPublic'
    <2>1. job[u].id \in Ids /\ Public(job[u].id)
      BY <1>3 DEF GoLive, At, IPublic, IType, JobsKnow, TellersPublic
    <2>2. \E card : Show(job[u].id, card, u)
      BY <1>3 DEF GoLive
    <2>3. QED
      BY <2>1, <2>2, ShowPublic
  <1>4. ASSUME NEW u \in Users, Emit(u) PROVE PagesPublic'
    <2> DEFINE i == job[u].id
    <2>1. i \in Ids
      BY <1>4 DEF Emit, At, IPublic, IType, JobsKnow
    <2>2. CASE Show(i, NONE, u)
      BY <2>1, <2>2, ShowPublic
    <2>3. CASE got[u][i].published /\ row[i] # NONE /\ Show(i, got[u][i], u)
      <3>1. got[u][i] = NONE \/ Public(i)
        BY <2>1, <2>3 DEF IPublic, AnswersPublic
      <3>2. QED
        BY <2>1, <2>3, <3>1, ShowPublic
    <2>4. QED
      BY <1>2, <1>4, <2>2, <2>3 DEF Emit
  <1>5. ASSUME NEW u \in Users, Arrive(u) PROVE PagesPublic'
    <2>1. ASSUME NEW v \in Users \ Managers, NEW i \in Ids, page'[v][i] # NONE
          PROVE  Public(i)'
      <3>1. CASE page'[v][i] = page[v][i]
        BY <1>1, <2>1, <3>1 DEF IPublic, PagesPublic
      <3>2. CASE v = u /\ page'[v][i] = got[u][i]
        BY <1>1, <2>1, <3>2 DEF IPublic, AnswersPublic
      <3>3. page'[v][i] = page[v][i] \/ (v = u /\ page'[v][i] = got[u][i])
        <4>1. DOMAIN page = Users /\ DOMAIN page[u] = Ids
          BY DEF IPublic, IType, TypeOK, CardsOrNone
        <4>2. v # u => page'[v] = page[v]
          BY <1>5, <4>1 DEF Arrive
        <4>3. page'[u] = got[u] \/ page'[u] = [page[u] EXCEPT ![job[u].id] = got[u][job[u].id]]
          BY <1>5, <4>1 DEF Arrive
        <4>4. QED
          BY <4>1, <4>2, <4>3
      <3>4. QED
        BY <3>1, <3>2, <3>3
    <2>2. QED
      BY <2>1 DEF PagesPublic
  <1>6. ASSUME NEW t \in Ticks, TickEmit(t) PROVE PagesPublic'
    <2>1. tick[t].id \in Ids /\ Public(tick[t].id) /\ Show(tick[t].id, fresh[t], NONE)
      BY <1>6 DEF TickEmit, IPublic, IType, TicksKnow, RunsPublic
    <2>2. QED
      BY <2>1, ShowPublic
  <1>7. \/ page' = page
        \/ \E u \in Users : GoLive(u) \/ Emit(u) \/ Arrive(u)
        \/ \E t \in Ticks : TickEmit(t)
    BY DEF Next, vars, AskCreate, AskEdit, AskDelete, AskRead, AskList, Ask, Handle, Insert, Look,
           Write, Remove, Record, Reread, Tell, List, Fault, Run, StartTick,
           EndTick, Mark, ReadBack, TickTell, TickFault, Restart, Clock
  <1>8. QED
    BY <1>2, <1>3, <1>4, <1>5, <1>6, <1>7

LEMMA AnswersStep ==
  ASSUME IPublic, [Next]_vars
  PROVE  AnswersPublic'
  <1>1. \A i \in Ids : Public(i) => Public(i)'
    BY PublicStays DEF IPublic
  <1>2. DOMAIN got = Users /\ \A u \in Users : DOMAIN got[u] = Ids
    BY DEF IPublic, IType, TypeOK, CardsOrNone
  <1>3. ASSUME NEW u \in Users, NEW i \in Ids, Visible(u, i),
               u \notin Managers \/ CardFor(u, i).published
        PROVE  Public(i)
    BY <1>3 DEF Visible, CardFor, IPublic, RowsUsed, Public
  <1>4. ASSUME NEW u \in Users, NEW i \in Ids,
               got'[u][i] # NONE, u \notin Managers \/ got'[u][i].published
        PROVE  Public(i)'
    <2>1. CASE got'[u][i] = got[u][i]
      BY <1>1, <1>4, <2>1 DEF IPublic, AnswersPublic
    <2>2. CASE got'[u][i] = CardFor(u, i) /\ Visible(u, i)
      BY <1>1, <1>3, <1>4, <2>2
    <2>3. got'[u][i] \in {got[u][i], NONE} \/ (got'[u][i] = CardFor(u, i) /\ Visible(u, i))
      <3>1. CASE got' = got
        BY <3>1
      <3>2. ASSUME NEW v \in Users, Refuse(v)
            PROVE  got'[u][i] \in {got[u][i], NONE}
        BY <1>2, <3>2 DEF Refuse, Nothing
      <3>3. ASSUME NEW v \in Users, Reread(v), ~Refuse(v)
            PROVE  got'[u][i] = got[u][i] \/ (got'[u][i] = CardFor(u, i) /\ Visible(u, i))
        <4>1. got' = [got EXCEPT ![v][job[v].id] = CardFor(v, job[v].id)] /\ Visible(v, job[v].id)
          BY <3>3 DEF Reread
        <4>2. CASE u = v /\ i = job[v].id
          BY <1>2, <4>1, <4>2
        <4>3. CASE ~(u = v /\ i = job[v].id)
          BY <1>2, <4>1, <4>3
        <4>4. QED
          BY <4>2, <4>3
      <3>4. ASSUME NEW v \in Users, List(v)
            PROVE  got'[u][i] \in {got[u][i], NONE} \/ (got'[u][i] = CardFor(u, i) /\ Visible(u, i))
        <4>1. u # v => got'[u] = got[u]
          BY <1>2, <3>4 DEF List
        <4>2. u = v => got'[u][i] = IF Visible(u, i) THEN CardFor(u, i) ELSE NONE
          BY <1>2, <3>4 DEF List
        <4>3. QED
          BY <4>1, <4>2
      <3>5. CASE Restart
        BY <3>5 DEF Restart, Nothing
      <3>6. \/ got' = got
            \/ \E v \in Users : Refuse(v) \/ Reread(v) \/ List(v)
            \/ Restart
        BY ZenonT(60) DEF Next, vars, AskCreate, AskEdit, AskDelete, AskRead, AskList, Ask, Handle, Insert,
               Look, Write, Remove, Record, Tell, GoLive, Emit, Arrive, Fault, Run, StartTick,
               EndTick, Mark, ReadBack, TickTell, TickEmit, TickFault, Clock
      <3>7. QED
        BY <3>1, <3>2, <3>3, <3>4, <3>5, <3>6
    <2>4. QED
      BY <1>4, <2>1, <2>2, <2>3
  <1>5. QED
    BY <1>4 DEF AnswersPublic

\* Public(i)', for an i that is itself primed.
PublicNext(i) == i \in used' /\ (row'[i] = NONE \/ row'[i].published)

LEMMA TellersStep ==
  ASSUME IPublic, [Next]_vars
  PROVE  TellersPublic'
  <1>1. \A i \in Ids : Public(i) => PublicNext(i)
    BY PublicStays DEF IPublic, Public, PublicNext
  <1>2. ASSUME NEW u \in Users, job'[u].op \in {"create", "edit"}, job'[u].at \in {"tell", "live"}
        PROVE  PublicNext(job'[u].id)
    <2>0. job \in [Users -> Job] /\ job[u] \in Job
      BY DEF IPublic, IType, TypeOK
    <2>1. CASE /\ job'[u].id = job[u].id /\ job'[u].op = job[u].op
               /\ job[u].at \in {"tell", "live"}
      BY <1>1, <1>2, <2>1 DEF IPublic, TellersPublic, IType, JobsKnow
    <2>2. CASE Insert(u)
      <3>1. PICK n \in Ids \ used :
              LET r == Scheduled([published |-> FALSE, at |-> 0, edits |-> 0], job[u].when)
              IN /\ used' = used \cup {n}
                 /\ row' = [row EXCEPT ![n] = r]
                 /\ job' = [job EXCEPT ![u].at = IF r.published THEN "tell" ELSE "reread",
                                       ![u].id = n]
        BY <2>2 DEF Insert
      <3> DEFINE r == Scheduled([published |-> FALSE, at |-> 0, edits |-> 0], job[u].when)
      <3>2. job'[u].id = n /\ job'[u].at = (IF r.published THEN "tell" ELSE "reread")
        BY <2>0, <3>1 DEF Job
      <3>3. row'[n] = r /\ used' = used \cup {n}
        BY <3>1 DEF IPublic, IType, TypeOK
      <3> HIDE DEF r
      <3>4. QED
        BY <1>2, <3>2, <3>3 DEF PublicNext
    <2>3. CASE Reread(u)
      <3>1. ~Refuse(u)
        BY <1>2, <2>0 DEF Refuse, Idle
      <3>2. GoOn(u, AfterReread(u)) /\ job[u].id \in Ids /\ row' = row /\ used' = used
        BY <2>3, <3>1 DEF Reread, At, IPublic, IType, JobsKnow
      <3>3. job'[u].at = AfterReread(u) /\ job'[u].id = job[u].id
        BY <2>0, <3>2 DEF GoOn, Job
      <3>4. Live(job[u].id)
        BY <1>2, <3>3 DEF AfterReread
      <3>5. QED
        BY <3>2, <3>3, <3>4 DEF Live, PublicNext, IPublic, RowsUsed
    <2> DEFINE Fine == \/ job'[u] = job[u] \/ job'[u] = Idle
                       \/ Insert(u) \/ Reread(u)
                       \/ Tell(u) \/ (Fault(u) /\ job[u].at = "tell")
                       \/ job'[u].at \notin {"tell", "live"}
    <2>4. Fine
      <3>1. ASSUME NEW v \in Users, NEW op, NEW first \in JobStages \ {"tell", "live"}, NEW i, NEW when,
                   Ask(v, op, first, i, when)
            PROVE  job'[u] = job[u] \/ job'[u].at \notin {"tell", "live"}
        BY <2>0, <3>1 DEF Ask
      <3>2. ASSUME NEW v \in Users, NEW stage \in JobStages \ {"tell", "live"}, GoOn(v, stage)
            PROVE  job'[u] = job[u] \/ job'[u].at \notin {"tell", "live"}
        BY <2>0, <3>2 DEF GoOn, Job
      <3>3. ASSUME NEW v \in Users, Refuse(v)
            PROVE  job'[u] = job[u] \/ job'[u] = Idle
        BY <2>0, <3>3 DEF Refuse
      <3>4. CASE \E v \in Users : AskCreate(v) \/ AskEdit(v) \/ AskDelete(v) \/ AskRead(v)
                                  \/ AskList(v)
        BY <3>1, <3>4 DEF AskCreate, AskEdit, AskDelete, AskRead, AskList, JobStages
      <3>5. ASSUME NEW v \in Users, Handle(v) PROVE Fine
        <4>1. CASE Insert(v)
          <5>1. v # u => job'[u] = job[u]
            BY <2>0, <4>1 DEF Insert
          <5>2. QED
            BY <4>1, <5>1
        <4>2. CASE Look(v)
          <5> DEFINE first == [edit |-> "write", delete |-> "remove", read |-> "record"]
          <5>1. CASE ~Refuse(v)
            <6>1. job[v].op \in {"edit", "delete", "read"}
                  /\ job' = [job EXCEPT ![v].at = first[job[v].op],
                                        ![v].draft = ~row[job[v].id].published]
              BY <4>2, <5>1 DEF Look, At
            <6>2. first[job[v].op] \in {"write", "remove", "record"}
              BY <6>1
            <6> HIDE DEF first
            <6>3. job'[u] = job[u] \/ job'[u].at \notin {"tell", "live"}
              BY <2>0, <6>1, <6>2 DEF Job
            <6>4. QED
              BY <6>3
          <5>2. QED
            BY <3>3, <5>1
        <4>3. CASE Write(v) \/ Remove(v) \/ Record(v)
          <5>1. Refuse(v) \/ GoOn(v, "reread") \/ GoOn(v, "emit")
            BY <4>3 DEF Write, Remove, Record
          <5>2. QED
            BY <3>2, <3>3, <5>1 DEF JobStages
        <4>4. CASE Reread(v)
          <5>1. u # v => job'[u] = job[u]
            BY <2>0, <4>4 DEF Reread, Refuse, GoOn
          <5>2. QED
            BY <4>4, <5>1
        <4>5. CASE Tell(v)
          <5>1. u # v => job'[u] = job[u]
            BY <2>0, <4>5 DEF Tell, GoOn
          <5>2. QED
            BY <4>5, <5>1
        <4>6. CASE GoLive(v) \/ Emit(v) \/ List(v)
          <5>1. GoOn(v, "emit") \/ GoOn(v, "answer")
            BY <4>6 DEF GoLive, Emit, List
          <5>2. QED
            BY <3>2, <5>1 DEF JobStages
        <4>7. CASE Arrive(v)
          BY <3>3, <4>7 DEF Arrive
        <4>8. QED
          BY <3>5, <4>1, <4>2, <4>3, <4>4, <4>5, <4>6, <4>7 DEF Handle
      <3>6. ASSUME NEW v \in Users, Fault(v) PROVE Fine
        <4>1. CASE job[v].at = "tell"
          <5>1. u # v => job'[u] = job[u]
            BY <2>0, <3>6, <4>1 DEF Fault, GoOn
          <5>2. QED
            BY <3>6, <4>1, <5>1
        <4>2. CASE job[v].at # "tell"
          BY <3>3, <3>6, <4>2 DEF Fault
        <4>3. QED
          BY <4>1, <4>2
      <3>7. CASE Restart
        BY <3>7 DEF Restart
      <3>8. CASE job' = job
        BY <3>8
      <3>9. \/ \E v \in Users : \/ AskCreate(v) \/ AskEdit(v) \/ AskDelete(v) \/ AskRead(v)
                                \/ AskList(v) \/ Handle(v) \/ Fault(v)
            \/ Restart \/ job' = job
        BY DEF Next, vars, Run, StartTick, EndTick, Mark, ReadBack, TickTell, TickEmit, TickFault,
               Clock
      <3>10. QED
        BY <3>4, <3>5, <3>6, <3>7, <3>8, <3>9
    <2>5. CASE Tell(u) \/ (Fault(u) /\ job[u].at = "tell")
      <3>1. job[u].at = "tell" /\ GoOn(u, AfterTell(u))
        BY <2>5 DEF Tell, At, Fault
      <3>2. job'[u].id = job[u].id /\ job'[u].op = job[u].op
        BY <2>0, <3>1 DEF GoOn, Job
      <3>3. QED
        BY <2>1, <3>1, <3>2
    <2>6. CASE job'[u] = job[u]
      BY <1>2, <2>1, <2>6
    <2>7. CASE job'[u] = Idle
      BY <1>2, <2>7 DEF Idle
    <2>8. QED
      BY <1>2, <2>2, <2>3, <2>4, <2>5, <2>6, <2>7
  <1>3. QED
    BY <1>2 DEF TellersPublic, Public, PublicNext

-----------------------------------------------------------------------------
(***************************************************************************)
(* The scheduler's runs.                                                   *)
(***************************************************************************)

\* A run publishes k.
Publishes(t, k) ==
    /\ row[k] # NONE /\ ~row[k].published
    /\ row' = [row EXCEPT ![k].published = TRUE]
    /\ tick' = [tick EXCEPT ![t] = [at |-> "look", todo |-> @.todo \ {k}, id |-> k]]
    /\ UNCHANGED <<used, told>>

\* One run moves at a time, unless the server restarts and all of them rest.
LEMMA TickMoves ==
  ASSUME IType, [Next]_vars
  PROVE  \/ tick' = tick
         \/ Restart
         \/ \E t \in Ticks :
              /\ \A x \in Ticks : x # t => tick'[x] = tick[x]
              /\ \/ tick'[t].at \in {"idle", "mark"} /\ told' = told
                 \/ tick'[t].at \in {"tell", "emit"} /\ tick'[t].id = tick[t].id
                    /\ tick[t].at \in {"look", "tell"} /\ told' = told
                 \/ TickTell(t) /\ tick'[t].at = "emit" /\ tick'[t].id = tick[t].id
                 \/ \E k \in Ids : Publishes(t, k)
  <1>1. tick \in [Ticks -> Tick]
    BY DEF IType, TypeOK
  <1> DEFINE Moves(t) ==
         /\ \A x \in Ticks : x # t => tick'[x] = tick[x]
         /\ \/ tick'[t].at \in {"idle", "mark"} /\ told' = told
            \/ tick'[t].at \in {"tell", "emit"} /\ tick'[t].id = tick[t].id
               /\ tick[t].at \in {"look", "tell"} /\ told' = told
            \/ TickTell(t) /\ tick'[t].at = "emit" /\ tick'[t].id = tick[t].id
            \/ \E k \in Ids : Publishes(t, k)
  <1>2. ASSUME NEW t \in Ticks, StartTick(t) \/ EndTick(t) PROVE Moves(t)
    BY <1>1, <1>2 DEF StartTick, EndTick, Resting
  <1>3. ASSUME NEW t \in Ticks, NEW k, Skip(t, k), tick[t].at = "mark", told' = told
        PROVE  Moves(t)
    <2>1. tick'[t].at = "mark" /\ \A x \in Ticks : x # t => tick'[x] = tick[x]
      BY <1>1, <1>3 DEF Skip, Tick
    <2>2. QED
      BY <1>3, <2>1
  <1>4. ASSUME NEW t \in Ticks, GoBack(t), told' = told PROVE Moves(t)
    <2>1. tick'[t].at = "mark" /\ \A x \in Ticks : x # t => tick'[x] = tick[x]
      BY <1>1, <1>4 DEF GoBack, Tick
    <2>2. QED
      BY <1>4, <2>1
  <1>5. ASSUME NEW t \in Ticks, NEW a \in {"tell", "emit"}, tick' = [tick EXCEPT ![t].at = a]
        PROVE  /\ \A x \in Ticks : x # t => tick'[x] = tick[x]
               /\ tick'[t].at = a /\ tick'[t].id = tick[t].id
    BY <1>1, <1>5 DEF Tick
  <1>6. ASSUME NEW t \in Ticks, Mark(t) PROVE Moves(t)
    <2>1. tick[t].at = "mark" /\ told' = told /\ used' = used /\ tick[t].todo \subseteq Ids
      BY <1>1, <1>6 DEF Mark, Tick
    <2>2. (\E k : Skip(t, k)) \/ \E k \in Ids : Publishes(t, k)
      BY <1>6, <2>1 DEF Mark, TakeUp, Publishes
    <2>3. ASSUME NEW k \in Ids, Publishes(t, k) PROVE \A x \in Ticks : x # t => tick'[x] = tick[x]
      BY <1>1, <2>3 DEF Publishes
    <2>4. QED
      BY <1>3, <2>1, <2>2, <2>3
  <1>7. ASSUME NEW t \in Ticks, ReadBack(t) PROVE Moves(t)
    <2>1. tick[t].at = "look" /\ told' = told
          /\ (GoBack(t) \/ tick' = [tick EXCEPT ![t].at = "tell"])
      BY <1>7 DEF ReadBack
    <2>2. CASE tick' = [tick EXCEPT ![t].at = "tell"]
      BY <1>5, <2>1, <2>2
    <2>3. QED
      BY <1>4, <2>1, <2>2
  <1>8. ASSUME NEW t \in Ticks, TickTell(t) PROVE Moves(t)
    <2>1. tick' = [tick EXCEPT ![t].at = "emit"]
      BY <1>8 DEF TickTell
    <2>2. QED
      BY <1>5, <1>8, <2>1
  <1>9. ASSUME NEW t \in Ticks, TickEmit(t) PROVE Moves(t)
    BY <1>4, <1>9 DEF TickEmit
  <1>10. ASSUME NEW t \in Ticks, TickFault(t) PROVE Moves(t)
    <2>1. told' = told
      BY <1>10 DEF TickFault
    <2>2. CASE tick[t].at = "tell" /\ tick' = [tick EXCEPT ![t].at = "emit"]
      BY <1>5, <2>1, <2>2
    <2>3. QED
      BY <1>3, <1>4, <1>10, <2>1, <2>2 DEF TickFault
  <1>11. tick' = tick \/ Restart \/ \E t \in Ticks : Run(t) \/ TickFault(t)
    BY DEF Next, vars, AskCreate, AskEdit, AskDelete, AskRead, AskList, Ask, Handle, Insert, Look,
           Write, Remove, Record, Reread, Tell, GoLive, Emit, List, Arrive, Fault, Clock
  <1>12. tick' = tick \/ Restart \/ \E t \in Ticks : Moves(t)
    BY <1>2, <1>6, <1>7, <1>8, <1>9, <1>10, <1>11 DEF Run
  <1>13. QED
    BY <1>12

LEMMA RunsStep ==
  ASSUME IPublic, [Next]_vars
  PROVE  RunsPublic'
  <1>1. \A i \in Ids : Public(i) => PublicNext(i)
    BY PublicStays DEF IPublic, Public, PublicNext
  <1>2. ASSUME NEW t \in Ticks, tick'[t].at \in {"look", "tell", "emit"}
        PROVE  PublicNext(tick'[t].id)
    <2>1. CASE tick'[t].id = tick[t].id /\ tick[t].at \in {"look", "tell", "emit"}
      BY <1>1, <2>1 DEF IPublic, IType, TicksKnow, RunsPublic
    <2>2. ASSUME NEW k \in Ids, Publishes(t, k) PROVE PublicNext(tick'[t].id)
      <3>1. tick'[t].id = k /\ k \in used'
        BY <2>2 DEF Publishes, IPublic, RowsUsed, IType, TypeOK
      <3>2. row[k] \in Row /\ row'[k] = [row[k] EXCEPT !.published = TRUE]
        BY <2>2 DEF Publishes, IPublic, IType, TypeOK
      <3>3. row'[k].published
        BY <3>2 DEF Row
      <3>4. QED
        BY <3>1, <3>3 DEF PublicNext
    <2>3. ~Restart
      BY <1>2 DEF Restart, Resting
    <2>4. TickTell(t) => tick[t].at = "tell"
      BY DEF TickTell
    <2>5. QED
      BY <1>2, <2>1, <2>2, <2>3, <2>4, TickMoves DEF IPublic
  <1>3. QED
    BY <1>2 DEF RunsPublic, Public, PublicNext

LEMMA PublicInit == Init => IPublic
  BY TypesInit DEF Init, Nothing, Idle, Resting, IPublic, RowsUsed, ToldPublic, PagesPublic,
     AnswersPublic, TellersPublic, RunsPublic

LEMMA PublicStep == IPublic /\ [Next]_vars => IPublic'
  BY TypesStep, PublicStays, ToldStep, PagesStep, AnswersStep, TellersStep, RunsStep DEF IPublic

LEMMA AlwaysPublic == Spec => []IPublic
  BY PublicInit, PublicStep, PTL DEF Spec

-----------------------------------------------------------------------------
(***************************************************************************)
(* The theorems about what is announced.                                   *)
(***************************************************************************)

LEMMA OneClaimStep ==
  ASSUME IPublic, OneClaim, [Next]_vars
  PROVE  OneClaim'
  <1>1. \A i \in Ids : told[i] \in [tick : Nat, hand : Nat]
    BY DEF IPublic, IType, TypeOK
  <1>2. \A t \in Ticks, i \in Ids : Claims(t, i) => Public(i)
    BY DEF IPublic, RunsPublic, Claims
  <1>3. CASE tick' = tick /\ \A i \in Ids : told'[i].tick = told[i].tick
    BY <1>3 DEF OneClaim, Claims
  <1>4. CASE Restart
    BY <1>4 DEF Restart, Resting, OneClaim, Claims
  <1>5. ASSUME NEW t \in Ticks, \A x \in Ticks : x # t => tick'[x] = tick[x], told' = told,
               \/ tick'[t].at \in {"idle", "mark"}
               \/ tick'[t].at \in {"tell", "emit"} /\ tick'[t].id = tick[t].id
                  /\ tick[t].at \in {"look", "tell"}
        PROVE  OneClaim'
    <2>1. \A x \in Ticks, i \in Ids : Claims(x, i)' => Claims(x, i)
      BY <1>5 DEF Claims
    <2>2. QED
      BY <1>5, <2>1 DEF OneClaim
  <1>6. ASSUME NEW t \in Ticks, \A x \in Ticks : x # t => tick'[x] = tick[x],
               TickTell(t), tick'[t].at = "emit"
        PROVE  OneClaim'
    <2> DEFINE n == tick[t].id
    <2>1. n \in Ids /\ Claims(t, n)
      BY <1>6 DEF TickTell, Claims, IPublic, IType, TicksKnow
    <2>2. told'[n].tick = 1 /\ \A i \in Ids : i # n => told'[i] = told[i]
      <3>1. told[n].tick = 0
        BY <2>1 DEF OneClaim
      <3>2. told'[n] = [told[n] EXCEPT !.tick = @ + 1] /\ \A i \in Ids : i # n => told'[i] = told[i]
        BY <1>6, <2>1 DEF TickTell, IPublic, IType, TypeOK
      <3>3. told'[n].tick = told[n].tick + 1
        BY <1>1, <2>1, <3>2
      <3>4. QED
        BY <3>1, <3>2, <3>3
    <2>3. \A x \in Ticks, i \in Ids : Claims(x, i)' => Claims(x, i) /\ x # t
      BY <1>6 DEF Claims
    <2>4. \A x \in Ticks, i \in Ids : Claims(x, i)' => i # n
      BY <2>1, <2>3 DEF OneClaim
    <2> HIDE DEF n
    <2>5. QED
      BY <2>1, <2>2, <2>3, <2>4 DEF OneClaim
  <1>7. ASSUME NEW t \in Ticks, \A x \in Ticks : x # t => tick'[x] = tick[x],
               NEW k \in Ids, Publishes(t, k)
        PROVE  OneClaim'
    <2>1. ~Public(k)
      BY <1>7 DEF Publishes, Public
    <2>2. told[k].tick = 0 /\ \A x \in Ticks : ~Claims(x, k)
      BY <1>2, <2>1 DEF IPublic, ToldPublic
    <2>3. tick'[t].at = "look" /\ tick'[t].id = k /\ told' = told
      BY <1>7 DEF Publishes, IPublic, IType, TypeOK
    <2>4. \A x \in Ticks, i \in Ids : Claims(x, i)' => Claims(x, i) \/ (x = t /\ i = k)
      BY <1>7, <2>3 DEF Claims
    <2>5. QED
      BY <2>2, <2>3, <2>4 DEF OneClaim
  <1>8. tick' = tick => \A i \in Ids : told'[i].tick = told[i].tick
    <2>1. ASSUME NEW u \in Users, Tell(u), NEW i \in Ids PROVE told'[i].tick = told[i].tick
      BY <1>1, <2>1 DEF Tell, At, IPublic, IType, TypeOK, JobsKnow
    <2>2. ASSUME NEW t \in Ticks, TickTell(t) PROVE tick' # tick
      BY <2>2 DEF TickTell, IPublic, IType, TypeOK, Tick
    <2>3. told' = told \/ (\E u \in Users : Tell(u)) \/ \E t \in Ticks : TickTell(t)
      BY ZenonT(60) DEF Next, vars, AskCreate, AskEdit, AskDelete, AskRead, AskList, Ask, Handle, Insert, Look,
             Write, Remove, Record, Reread, GoLive, Emit, List, Arrive, Fault, Run, StartTick,
             EndTick, Mark, ReadBack, TickEmit, TickFault, Restart, Clock
    <2>4. QED
      BY <2>1, <2>2, <2>3
  <1>9. QED
    BY <1>3, <1>4, <1>5, <1>6, <1>7, <1>8, TickMoves DEF IPublic

\* While an announcement is a draft no recipient has been notified of it and
\* nobody but managers has its card, for as long as it has been in the table.
THEOREM DraftsArePrivate == Spec => []DraftsStayPrivate
  <1>1. IPublic => DraftsStayPrivate
    BY DEF IPublic, ToldPublic, PagesPublic, Public, DraftsStayPrivate
  <1>2. QED
    BY <1>1, AlwaysPublic, PTL

-----------------------------------------------------------------------------
(***************************************************************************)
(* The abstract specification.                                             *)
(***************************************************************************)

\* A statement that changes the rows moves one announcement on, or none.
Moves(i) ==
    /\ \A k \in Ids : k # i => StageOf(k)' = StageOf(k)
    /\ \/ StageOf(i)' = StageOf(i)
       \/ StageOf(i) = "none" /\ StageOf(i)' \in {"draft", "live"}
       \/ StageOf(i) = "draft" /\ StageOf(i)' = "live"
       \/ StageOf(i) \in {"draft", "live"} /\ StageOf(i)' = "gone"

LEMMA OneMoves ==
  ASSUME IPublic, [Next]_vars
  PROVE  \/ Stages' = Stages
         \/ told' = told /\ \E i \in Ids : Moves(i)
  <1>1. CASE row' = row /\ used' = used
    BY <1>1 DEF Stages, StageOf
  <1>2. ASSUME NEW u \in Users, Insert(u) PROVE told' = told /\ \E i \in Ids : Moves(i)
    <2>1. PICK n \in Ids \ used :
            LET r == Scheduled([published |-> FALSE, at |-> 0, edits |-> 0], job[u].when)
            IN used' = used \cup {n} /\ row' = [row EXCEPT ![n] = r]
      BY <1>2 DEF Insert
    <2> DEFINE r == Scheduled([published |-> FALSE, at |-> 0, edits |-> 0], job[u].when)
    <2>2. r \in Row
      <3>1. job[u].when \in Times
        BY DEF IPublic, IType, TypeOK, Job
      <3>2. [published |-> FALSE, at |-> 0, edits |-> 0] \in Row
        BY AnnouncementsAssumption DEF Row, Times
      <3>3. QED
        BY <3>1, <3>2, ScheduledTypes
    <2> HIDE DEF r
    <2>3. row'[n] = r /\ used' = used \cup {n} /\ \A i \in Ids : i # n => row'[i] = row[i]
      BY <2>1 DEF IPublic, IType, TypeOK, r
    <2>4. r # NONE
      BY <2>2, AnnouncementsAssumption DEF Row, Times
    <2>5. StageOf(n) = "none" /\ StageOf(n)' \in {"draft", "live"}
      BY <2>1, <2>3, <2>4 DEF StageOf
    <2>6. \A k \in Ids : k # n => StageOf(k)' = StageOf(k)
      BY <2>3 DEF StageOf
    <2>7. Moves(n)
      BY <2>5, <2>6 DEF Moves
    <2>8. QED
      BY <1>2, <2>1, <2>7 DEF Insert
  <1>3. ASSUME NEW u \in Users, Write(u), row' # row
        PROVE  told' = told /\ \E i \in Ids : Moves(i)
    <2>0. PICK n \in Ids : n = job[u].id /\ row[n] # NONE
      BY <1>3 DEF Write, At, IPublic, IType, JobsKnow
    <2> DEFINE e == [row[n] EXCEPT !.edits = @ + 1]
               r == Edited(e, job[u].when, job[u].draft)
    <2>1. /\ row[n] # NONE /\ n \in Ids
          /\ row' = [row EXCEPT ![n] = r] /\ used' = used /\ told' = told
      BY <1>3, <2>0 DEF Write
    <2>2. row[n] \in Row
      BY <2>1 DEF IPublic, IType, TypeOK
    <2>3. e \in Row /\ e.published = row[n].published
      <3>1. row[n].edits + 1 \in Nat
        BY <2>2 DEF Row
      <3>2. QED
        BY <2>2, <3>1 DEF Row
    <2> HIDE DEF e
    <2>4. r \in Row /\ (row[n].published => r.published)
      <3>1. job[u].when \in Times /\ job[u].draft \in BOOLEAN
        BY DEF IPublic, IType, TypeOK, Job
      <3>2. r \in Row
        BY <2>3, <3>1, ScheduledTypes
      <3>3. row[n].published => r.published
        BY <2>3 DEF Edited, Scheduled, Row
      <3>4. QED
        BY <3>2, <3>3
    <2> HIDE DEF r
    <2>5. row'[n] = r /\ \A i \in Ids : i # n => row'[i] = row[i]
      BY <2>1 DEF IPublic, IType, TypeOK
    <2>6. r # NONE
      BY <2>4, AnnouncementsAssumption DEF Row, Times
    <2>7. n \in used
      BY <2>1 DEF IPublic, RowsUsed
    <2>8. \/ StageOf(n)' = StageOf(n)
          \/ StageOf(n) = "draft" /\ StageOf(n)' = "live"
      BY <2>1, <2>4, <2>5, <2>6, <2>7 DEF StageOf
    <2>9. \A k \in Ids : k # n => StageOf(k)' = StageOf(k)
      BY <2>1, <2>5 DEF StageOf
    <2>10. QED
      BY <2>1, <2>8, <2>9 DEF Moves
  <1>4. ASSUME NEW u \in Users, Remove(u), row' # row
        PROVE  told' = told /\ \E i \in Ids : Moves(i)
    <2>0. PICK n \in Ids : n = job[u].id /\ row[n] # NONE
      BY <1>4 DEF Remove, At, IPublic, IType, JobsKnow
    <2>1. /\ row[n] # NONE /\ n \in Ids
          /\ row' = [row EXCEPT ![n] = NONE] /\ used' = used /\ told' = told
      BY <1>4, <2>0 DEF Remove
    <2>2. row'[n] = NONE /\ \A i \in Ids : i # n => row'[i] = row[i]
      BY <2>1 DEF IPublic, IType, TypeOK
    <2>3. n \in used
      BY <2>1 DEF IPublic, RowsUsed
    <2>4. StageOf(n) \in {"draft", "live"} /\ StageOf(n)' = "gone"
      BY <2>1, <2>2, <2>3 DEF StageOf
    <2>5. \A k \in Ids : k # n => StageOf(k)' = StageOf(k)
      BY <2>1, <2>2 DEF StageOf
    <2>6. QED
      BY <2>1, <2>4, <2>5 DEF Moves
  <1>5. ASSUME NEW t \in Ticks, Mark(t), row' # row
        PROVE  told' = told /\ \E i \in Ids : Moves(i)
    <2>1. told' = told /\ used' = used
      BY <1>5 DEF Mark
    <2>2. PICK k \in Ids : /\ row[k] # NONE /\ ~row[k].published
                           /\ row' = [row EXCEPT ![k].published = TRUE]
      BY <1>5 DEF Mark, IPublic, IType, TypeOK, Tick
    <2>3. row[k] \in Row /\ k \in used
      BY <2>2 DEF IPublic, IType, TypeOK, RowsUsed
    <2>4. /\ row'[k] = [row[k] EXCEPT !.published = TRUE]
          /\ \A i \in Ids : i # k => row'[i] = row[i]
      BY <2>2 DEF IPublic, IType, TypeOK
    <2>5. row'[k] \in Row /\ row'[k].published
      BY <2>3, <2>4 DEF Row
    <2>6. row'[k] # NONE
      BY <2>5, AnnouncementsAssumption DEF Row, Times
    <2>7. StageOf(k) = "draft" /\ StageOf(k)' = "live"
      BY <2>1, <2>2, <2>3, <2>5, <2>6 DEF StageOf
    <2>8. \A i \in Ids : i # k => StageOf(i)' = StageOf(i)
      BY <2>1, <2>4 DEF StageOf
    <2>9. QED
      BY <2>1, <2>7, <2>8 DEF Moves
  <1>6. CASE \E u \in Users : Write(u) \/ Remove(u)
    <2>1. used' = used
      BY <1>6 DEF Write, Remove
    <2>2. QED
      BY <1>1, <1>3, <1>4, <1>6, <2>1
  <1>7. CASE \E t \in Ticks : Mark(t)
    <2>1. used' = used
      BY <1>7 DEF Mark
    <2>2. QED
      BY <1>1, <1>5, <1>7, <2>1
  <1>8. QED
    BY <1>1, <1>2, <1>6, <1>7, RowFrame

\* Who notifies: a request, or a run that is the first to do so.
LEMMA OneTells ==
  ASSUME IPublic, OneClaim, [Next]_vars
  PROVE  \/ told' = told
         \/ /\ Stages' = Stages
            /\ \E i \in Ids :
                 /\ Public(i)
                 /\ \A k \in Ids : k # i => told'[k] = told[k]
                 /\ told'[i].tick + told'[i].hand > 0
                 /\ told'[i].tick = told[i].tick \/ (told[i].tick = 0 /\ told'[i].tick = 1)
  <1>1. \A i \in Ids : told[i] \in [tick : Nat, hand : Nat]
    BY DEF IPublic, IType, TypeOK
  <1>2. ASSUME NEW u \in Users, Tell(u), told' # told
        PROVE  /\ Stages' = Stages
               /\ \E i \in Ids :
                    /\ Public(i)
                    /\ \A k \in Ids : k # i => told'[k] = told[k]
                    /\ told'[i].tick + told'[i].hand > 0
                    /\ told'[i].tick = told[i].tick
    <2> DEFINE n == job[u].id
    <2>1. n \in Ids /\ Public(n)
      BY <1>2 DEF Tell, At, IPublic, IType, JobsKnow, TellersPublic
    <2>2. /\ told'[n] = [told[n] EXCEPT !.hand = @ + 1]
          /\ \A k \in Ids : k # n => told'[k] = told[k]
      BY <1>2, <2>1 DEF Tell, IPublic, IType, TypeOK
    <2>3. told'[n].tick = told[n].tick /\ told'[n].hand = told[n].hand + 1
      BY <1>1, <2>1, <2>2
    <2>4. told'[n].tick + told'[n].hand > 0
      <3>1. told[n].tick \in Nat /\ told[n].hand \in Nat
        BY <1>1, <2>1
      <3>2. QED
        BY <2>3, <3>1
    <2>5. Stages' = Stages
      BY <1>2 DEF Tell, Stages, StageOf
    <2>6. QED
      BY <2>1, <2>2, <2>3, <2>4, <2>5
  <1>3. ASSUME NEW t \in Ticks, TickTell(t)
        PROVE  /\ Stages' = Stages
               /\ \E i \in Ids :
                    /\ Public(i)
                    /\ \A k \in Ids : k # i => told'[k] = told[k]
                    /\ told'[i].tick + told'[i].hand > 0
                    /\ told[i].tick = 0 /\ told'[i].tick = 1
    <2> DEFINE n == tick[t].id
    <2>1. n \in Ids /\ Public(n) /\ Claims(t, n)
      BY <1>3 DEF TickTell, Claims, IPublic, IType, TicksKnow, RunsPublic
    <2>2. /\ told'[n] = [told[n] EXCEPT !.tick = @ + 1]
          /\ \A k \in Ids : k # n => told'[k] = told[k]
      BY <1>3, <2>1 DEF TickTell, IPublic, IType, TypeOK
    <2>3. told[n].tick = 0
      BY <2>1 DEF OneClaim
    <2>4. told'[n].tick = told[n].tick + 1 /\ told'[n].hand = told[n].hand
      BY <1>1, <2>1, <2>2
    <2>5. told'[n].tick = 1 /\ told'[n].tick + told'[n].hand > 0
      <3>1. told[n].hand \in Nat
        BY <1>1, <2>1
      <3>2. QED
        BY <2>3, <2>4, <3>1
    <2>6. Stages' = Stages
      BY <1>3 DEF TickTell, Stages, StageOf
    <2>7. QED
      BY <2>1, <2>2, <2>3, <2>5, <2>6
  <1>4. \/ told' = told
        \/ \E u \in Users : Tell(u)
        \/ \E t \in Ticks : TickTell(t)
    BY ZenonT(60) DEF Next, vars, AskCreate, AskEdit, AskDelete, AskRead, AskList, Ask, Handle, Insert, Look,
           Write, Remove, Record, Reread, GoLive, Emit, List, Arrive, Fault, Run, StartTick,
           EndTick, Mark, ReadBack, TickEmit, TickFault, Restart, Clock
  <1>5. QED
    BY <1>2, <1>3, <1>4

LEMMA StepKeepsPromise ==
  ASSUME IPublic, OneClaim, [Next]_vars
  PROVE  [Promise!Next]_<<Stages, Heard, Runs>>
  <1>1. CASE told' = told
    <2>1. Heard' = Heard /\ Runs' = Runs
      BY <1>1 DEF Heard, Runs
    <2>2. CASE Stages' = Stages
      BY <2>1, <2>2
    <2>3. ASSUME NEW i \in Ids, Moves(i), Stages' # Stages
          PROVE  Promise!Write(i) \/ Promise!Publish(i) \/ Promise!Remove(i)
      <3>1. Stages' = [Stages EXCEPT ![i] = StageOf(i)']
        BY <2>3 DEF Moves, Stages
      <3>2. Stages[i] = StageOf(i)
        BY DEF Stages
      <3>3. StageOf(i)' # StageOf(i)
        BY <2>3 DEF Moves, Stages
      <3>4. Promise!Become(i, StageOf(i)')
        BY <2>1, <3>1 DEF Promise!Become
      <3>5. QED
        BY <2>3, <3>2, <3>3, <3>4 DEF Moves, Promise!Write, Promise!Publish, Promise!Remove
    <2>4. QED
      BY <2>2, <2>3, OneMoves DEF Promise!Next
  <1>2. CASE told' # told
    <2>1. PICK i \in Ids :
            /\ Public(i)
            /\ \A k \in Ids : k # i => told'[k] = told[k]
            /\ told'[i].tick + told'[i].hand > 0
            /\ told'[i].tick = told[i].tick \/ (told[i].tick = 0 /\ told'[i].tick = 1)
      BY <1>2, OneTells
    <2>2. Stages' = Stages
      BY <1>2, OneTells
    <2>3. Promise!Public(i)
      BY <2>1 DEF Public, Promise!Public, Stages, StageOf
    <2>4. Heard' = Heard \cup {i}
      BY <2>1 DEF Heard
    <2>5. CASE told'[i].tick = told[i].tick
      <3>1. Runs' = Runs
        BY <2>1, <2>5 DEF Runs
      <3>2. QED
        BY <2>2, <2>3, <2>4, <3>1 DEF Promise!Next, Promise!Tell
    <2>6. CASE told[i].tick = 0 /\ told'[i].tick = 1
      <3>1. Runs[i] = 0 /\ Runs' = [Runs EXCEPT ![i] = 1]
        BY <2>1, <2>6 DEF Runs
      <3>2. QED
        BY <2>2, <2>3, <2>4, <3>1 DEF Promise!Next, Promise!TellFromRun
    <2>7. QED
      BY <2>1, <2>5, <2>6
  <1>3. QED
    BY <1>1, <1>2

\* Requests, overlapping runs, failures and restarts implement the publication of
\* module Publication: nothing takes back what is live, nothing returns from its
\* removal, and only what has gone live is announced, by one run at most.
THEOREM PromiseIsKept == Spec => KeepsPromise
  <1>1. Init => Promise!Init
    <2> SUFFICES ASSUME Init PROVE Promise!Init
      OBVIOUS
    <2>1. Stages = [i \in Ids |-> "none"] /\ Runs = [i \in Ids |-> 0]
      BY DEF Init, Stages, StageOf, Runs
    <2>2. Heard = {}
      BY DEF Init, Heard
    <2>3. QED
      BY <2>1, <2>2 DEF Promise!Init
  <1>2. Init => OneClaim
    BY DEF Init, OneClaim, Claims, Resting
  <1>3. IPublic /\ OneClaim /\ [Next]_vars => OneClaim'
    BY OneClaimStep
  <1>4. IPublic /\ OneClaim /\ [Next]_vars => [Promise!Next]_<<Stages, Heard, Runs>>
    BY StepKeepsPromise
  <1>5. QED
    BY <1>1, <1>2, <1>3, <1>4, AlwaysPublic, PTL DEF Spec, KeepsPromise, Promise!Spec

-----------------------------------------------------------------------------
(***************************************************************************)
(* Nothing is forgotten: between the moment an announcement goes live and  *)
(* the one it is told of, somebody has it in hand and keeps it.            *)
(***************************************************************************)

\* A request that has made i live and not told of it yet, or may be about to see
\* that somebody has.
Owes(u, i) ==
    /\ job[u].id = i
    /\ \/ job[u].op = "create" /\ job[u].at = "tell"
       \/ job[u].op = "edit" /\ job[u].draft /\ job[u].at \in {"reread", "tell"}

Told(i) == told[i].tick + told[i].hand > 0

LEMMA AnnouncerIs ==
  ASSUME NEW i
  PROVE  Announcer(i) <=> (\E t \in Ticks : Claims(t, i)) \/ \E u \in Users : Owes(u, i)
  BY DEF Announcer, Claims, Owes

\* A notification more is one told.
LEMMA TellingTells ==
  ASSUME IType, NEW i \in Ids,
         \/ told' = [told EXCEPT ![i].tick = @ + 1]
         \/ told' = [told EXCEPT ![i].hand = @ + 1]
  PROVE  Told(i)'
  <1>1. told[i].tick \in Nat /\ told[i].hand \in Nat
    BY DEF IType, TypeOK
  <1>2. /\ told'[i].tick \in {told[i].tick, told[i].tick + 1}
        /\ told'[i].hand \in {told[i].hand, told[i].hand + 1}
        /\ told'[i].tick = told[i].tick + 1 \/ told'[i].hand = told[i].hand + 1
    BY DEF IType, TypeOK
  <1>3. QED
    BY <1>1, <1>2 DEF Told

\* A run keeps what it has published until it tells of it.
LEMMA ClaimKept ==
  ASSUME IType, [Next]_vars, ~failed', NEW t \in Ticks, NEW i \in Ids, Claims(t, i), Live(i)
  PROVE  Claims(t, i)' \/ Told(i)'
  <1>1. tick \in [Ticks -> Tick] /\ tick[t] \in Tick
    BY DEF IType, TypeOK
  <1>2. CASE tick' = tick
    BY <1>2 DEF Claims
  <1>3. ASSUME NEW x \in Ticks, x # t, Run(x) PROVE tick'[t] = tick[t]
    BY <1>1, <1>3 DEF Run, StartTick, EndTick, Mark, TakeUp, Skip, ReadBack, GoBack, TickTell,
       TickEmit
  <1>4. CASE ReadBack(t)
    <2>1. row[tick[t].id] # NONE
      BY DEF Claims, Live
    <2>2. tick' = [tick EXCEPT ![t].at = "tell"]
      BY <1>4, <2>1 DEF ReadBack
    <2>3. tick'[t].at = "tell" /\ tick'[t].id = tick[t].id
      BY <1>1, <2>2 DEF Tick
    <2>4. QED
      BY <2>3 DEF Claims
  <1>5. CASE TickTell(t)
    <2>1. told' = [told EXCEPT ![i].tick = @ + 1]
      BY <1>5 DEF TickTell, Claims
    <2>2. QED
      BY <2>1, TellingTells
  <1>6. ~StartTick(t) /\ ~EndTick(t) /\ ~Mark(t) /\ ~TickEmit(t)
    BY DEF Claims, StartTick, EndTick, Mark, TickEmit
  <1>7. tick' = tick \/ \E x \in Ticks : Run(x)
    BY ZenonT(60) DEF Next, vars, AskCreate, AskEdit, AskDelete, AskRead, AskList, Ask, Handle, Insert, Look,
           Write, Remove, Record, Reread, Tell, GoLive, Emit, List, Arrive, Fault, TickFault,
           Restart, Mishap, Clock
  <1>8. QED
    BY <1>2, <1>3, <1>4, <1>5, <1>6, <1>7 DEF Run, Claims

\* A request keeps what it has made live, or has seen live, until it tells of it.
LEMMA OwesKept ==
  ASSUME IType, [Next]_vars, ~failed', NEW u \in Users, NEW i \in Ids, Owes(u, i), Live(i)
  PROVE  Owes(u, i)' \/ Told(i)'
  <1>1. job \in [Users -> Job] /\ job[u] \in Job
    BY DEF IType, TypeOK
  <1>2. CASE job'[u] = job[u]
    BY <1>2 DEF Owes
  <1>3. ASSUME NEW v \in Users,
               AskCreate(v) \/ AskEdit(v) \/ AskDelete(v) \/ AskRead(v) \/ AskList(v)
        PROVE  job'[u] = job[u]
    <2>1. job[v].op = "idle" /\ \A x \in Users : x # v => job'[x] = job[x]
      BY <1>1, <1>3 DEF AskCreate, AskEdit, AskDelete, AskRead, AskList, Ask
    <2>2. QED
      BY <2>1 DEF Owes
  <1>4. ASSUME NEW v \in Users, v # u, Handle(v) PROVE job'[u] = job[u]
    BY <1>1, <1>4 DEF Handle, Insert, Look, Write, Remove, Record, Reread, Tell, GoLive, Emit,
       List, Arrive, GoOn, Refuse
  <1>5. CASE Reread(u)
    <2>1. Visible(u, i) /\ job[u].op = "edit" /\ job[u].draft /\ job[u].id = i
      BY <1>5 DEF Reread, At, Owes, Visible, Live
    <2>2. AfterReread(u) = "tell"
      BY <2>1 DEF AfterReread
    <2>3. GoOn(u, "tell")
      BY <1>5, <2>1, <2>2 DEF Reread
    <2>4. job'[u] = [job[u] EXCEPT !.at = "tell"]
      BY <1>1, <2>3 DEF GoOn
    <2>5. QED
      BY <1>1, <2>1, <2>4 DEF Owes, Job
  <1>6. CASE Tell(u)
    <2>1. told' = [told EXCEPT ![i].hand = @ + 1]
      BY <1>6 DEF Tell, Owes, Live
    <2>2. QED
      BY <2>1, TellingTells
  <1>7. /\ ~Insert(u) /\ ~Look(u) /\ ~Write(u) /\ ~Remove(u) /\ ~Record(u) /\ ~GoLive(u)
        /\ ~Emit(u) /\ ~List(u) /\ ~Arrive(u)
    BY DEF Owes, At, Insert, Look, Write, Remove, Record, GoLive, Emit, List, Arrive
  <1>8. \/ job' = job
        \/ \E v \in Users : \/ AskCreate(v) \/ AskEdit(v) \/ AskDelete(v) \/ AskRead(v)
                            \/ AskList(v) \/ Handle(v)
    BY ZenonT(60) DEF Next, vars, Run, StartTick, EndTick, Mark, ReadBack, TickTell, TickEmit,
       Fault, TickFault, Restart, Mishap, Clock
  <1>9. QED
    BY <1>2, <1>3, <1>4, <1>5, <1>6, <1>7, <1>8 DEF Handle

\* Whoever makes an announcement live has it in hand.
LEMMA LiveInHand ==
  ASSUME IType, [Next]_vars, NEW i \in Ids, ~Live(i), Live(i)'
  PROVE  Announcer(i)'
  <1>1. ~(row' = row /\ used' = used)
    BY DEF Live
  <1>2. ASSUME NEW u \in Users, Insert(u) PROVE Owes(u, i)'
    <2>0. job[u] \in Job /\ job \in [Users -> Job] /\ DOMAIN row = Ids
      BY DEF IType, TypeOK
    <2>1. PICK n \in Ids \ used :
            LET r == Scheduled([published |-> FALSE, at |-> 0, edits |-> 0], job[u].when)
            IN /\ used' = used \cup {n}
               /\ row' = [row EXCEPT ![n] = r]
               /\ job' = [job EXCEPT ![u].at = IF r.published THEN "tell" ELSE "reread",
                                     ![u].id = n]
      BY <1>2 DEF Insert
    <2> DEFINE r == Scheduled([published |-> FALSE, at |-> 0, edits |-> 0], job[u].when)
               stage == IF r.published THEN "tell" ELSE "reread"
    <2>2. /\ row' = [row EXCEPT ![n] = r]
          /\ job' = [job EXCEPT ![u] = [job[u] EXCEPT !.at = stage, !.id = n]]
      BY <2>1
    <2>3. stage = "tell" <=> r.published
      OBVIOUS
    <2>4. job[u].op = "create"
      BY <1>2 DEF Insert, At
    <2> HIDE DEF r, stage
    <2>5. i = n /\ r.published
      BY <2>0, <2>2 DEF Live
    <2>6. job'[u].op = "create" /\ job'[u].at = stage /\ job'[u].id = n
      BY <2>0, <2>2, <2>4 DEF Job
    <2>7. QED
      BY <2>3, <2>5, <2>6 DEF Owes
  <1>3. ASSUME NEW u \in Users, Write(u) PROVE Owes(u, i)'
    <2>0. job[u] \in Job /\ job \in [Users -> Job] /\ DOMAIN row = Ids
      BY DEF IType, TypeOK
    <2> DEFINE n == job[u].id
               e == [row[n] EXCEPT !.edits = @ + 1]
    <2>1. row[n] # NONE /\ job[u].op = "edit" /\ n \in Ids
      BY <1>1, <1>3 DEF Write, At, IType, JobsKnow
    <2>2. row' = [row EXCEPT ![n] = Edited(e, job[u].when, job[u].draft)] /\ GoOn(u, "reread")
      BY <1>3, <2>1 DEF Write
    <2>3. i = n
      BY <2>2 DEF Live
    <2>4. row[n] \in Row
      BY <2>1 DEF IType, TypeOK
    <2>5. ~row[n].published /\ e.published = row[n].published
      BY <2>1, <2>3, <2>4 DEF Live, Row
    <2>6. job[u].draft
      <3>1. row'[n].published /\ row'[n] = Edited(e, job[u].when, job[u].draft)
        BY <2>0, <2>1, <2>2, <2>3 DEF Live
      <3> HIDE DEF e
      <3>2. ~job[u].draft => ~row'[n].published
        BY <2>5, <3>1 DEF Edited
      <3>3. QED
        BY <3>1, <3>2
    <2>7. job'[u] = [job[u] EXCEPT !.at = "reread"]
      BY <2>0, <2>2 DEF GoOn
    <2>8. QED
      BY <2>0, <2>1, <2>3, <2>6, <2>7 DEF Owes, Job
  <1>4. ASSUME NEW u \in Users, Remove(u) PROVE FALSE
    BY <1>4 DEF Remove, Live, IType, TypeOK
  <1>5. ASSUME NEW t \in Ticks, Mark(t) PROVE Claims(t, i)'
    <2>1. PICK k \in tick[t].todo : row' = [row EXCEPT ![k].published = TRUE] /\ TakeUp(t, k)
      BY <1>1, <1>5 DEF Mark
    <2>2. i = k
      BY <2>1 DEF Live, IType, TypeOK
    <2>3. tick'[t].at = "look" /\ tick'[t].id = k
      BY <2>1 DEF TakeUp, IType, TypeOK
    <2>4. QED
      BY <2>2, <2>3 DEF Claims
  <1>6. (\E t \in Ticks : Claims(t, i)') \/ \E u \in Users : Owes(u, i)'
    BY <1>1, <1>2, <1>3, <1>4, <1>5, RowFrame
  <1>7. QED
    BY <1>6 DEF Announcer, Claims, Owes

\* What has been told of stays so.
LEMMA ToldStays ==
  ASSUME IPublic, OneClaim, [Next]_vars, NEW i \in Ids, Told(i)
  PROVE  Told(i)'
  BY OneTells DEF Told

LEMMA ForgottenStep ==
  ASSUME IPublic, OneClaim, NothingForgotten, [Next]_vars
  PROVE  NothingForgotten'
  <1> SUFFICES ASSUME ~failed', NEW i \in Ids, Live(i)', ~(told[i].tick + told[i].hand > 0)'
               PROVE  Announcer(i)'
    <2>1. \A i \in Ids : told'[i].tick \in Nat /\ told'[i].hand \in Nat
      BY TypesStep DEF IPublic, IType, TypeOK
    <2>2. \A i \in Ids : told'[i].tick + told'[i].hand = 0 => ~(told'[i].tick + told'[i].hand > 0)
      BY <2>1
    <2>3. QED
      BY <2>2 DEF NothingForgotten
  <1>1. ~failed
    <2>1. failed' = failed \/ failed' = TRUE
      BY ZenonT(60) DEF Next, vars, counters, AskCreate, AskEdit, AskDelete, AskRead, AskList, Ask, Handle,
         Insert, Look, Write, Remove, Record, Reread, Tell, GoLive, Emit, List, Arrive, Fault,
         Run, StartTick, EndTick, Mark, ReadBack, TickTell, TickEmit, TickFault, Restart,
         Mishap, Clock
    <2>2. QED
      BY <2>1
  <1>2. CASE ~Live(i)
    BY <1>2, LiveInHand DEF IPublic
  <1>3. CASE Live(i)
    <2>1. ~Told(i)'
      BY DEF Told
    <2>2. told[i].tick + told[i].hand = 0
      <3>1. told[i].tick \in Nat /\ told[i].hand \in Nat
        BY DEF IPublic, IType, TypeOK
      <3>2. ~(told[i].tick + told[i].hand > 0)
        BY <2>1, ToldStays DEF Told
      <3>3. QED
        BY <3>1, <3>2
    <2>3. Announcer(i)
      BY <1>1, <1>3, <2>2 DEF NothingForgotten
    <2>4. (\E t \in Ticks : Claims(t, i)') \/ \E u \in Users : Owes(u, i)'
      BY <1>3, <2>1, <2>3, AnnouncerIs, ClaimKept, OwesKept DEF IPublic
    <2>5. QED
      BY <2>4 DEF Announcer, Claims, Owes
  <1>4. QED
    BY <1>2, <1>3

\* While nothing fails, what is live and has not been announced is in the hands of
\* a run or a request that will tell of it: whichever handlers and runs overlap,
\* neither leaves it to the other (markPublished's claim, updateAnnouncement's
\* comparison of the row before and after).
THEOREM NobodyForgets == Spec => []NothingForgotten
  <1>1. Init => OneClaim /\ NothingForgotten
    BY DEF Init, OneClaim, Claims, Resting, NothingForgotten, Live, Nothing
  <1>2. IPublic /\ OneClaim /\ [Next]_vars => OneClaim'
    BY OneClaimStep
  <1>3. IPublic /\ OneClaim /\ NothingForgotten /\ [Next]_vars => NothingForgotten'
    BY ForgottenStep
  <1>4. QED
    BY <1>1, <1>2, <1>3, AlwaysPublic, PTL DEF Spec
=============================================================================
