-------------------------- MODULE AttendanceProofs --------------------------
(***************************************************************************)
(* Attendance, for every number of employees, managers, handlers, dashboards *)
(* under way and every bound: leave blocks clock-ins, the cached dashboard *)
(* and the managers' pages tell the truth but for the exceptions they name, *)
(* and the chains of statements implement the indivisible day of WorkDay for *)
(* every employee whose clock and break requests have not overlapped.      *)
(***************************************************************************)
EXTENDS Attendance, TLAPS

\* What every handler knows of its request.
JobInv ==
    \A t \in Handlers :
        /\ job[t].n <= reqs
        /\ job[t].op # "idle" => job[t].n >= 1
        /\ job[t].op \in ClockOps \cup {"leave", "overtime"} => UserOf[t] \in Employees
        /\ job[t].op = "decide" => job[t].target \in DOMAIN forms

\* A clock-in that has passed the check is older than the leave that was approved since.
PassedBefore ==
    \A t \in Handlers :
        /\ job[t].op = "in" /\ job[t].at \in {"record", "insert", "update"}
        /\ OnLeave(UserOf[t])
        => job[t].n <= leaveSince[UserOf[t]]

RecordsInPast == \A e \in Employees : record[e].in <= reqs

\* Until two clock or break requests of an employee overlap, a handler finds the day as
\* it left it.
DayInv ==
    \A e \in Employees : ~raced[e] =>
        /\ record[e].in = 0 => record[e].out = 0
        /\ record[e].in = 0 \/ record[e].out # 0 => Running(e) = {}
        /\ \A b, c \in Running(e) : b = c

Knows(t) ==
    LET j == job[t]
        e == UserOf[t]
    IN
    /\ j.op = "in" /\ j.at \in {"insert", "update"} => record[e].in = 0
    /\ j.op \in {"out", "pause", "resume"} => record[e].in <= j.n
    /\ j.op \in {"out", "pause", "resume"} /\ j.at \in {"running", "insert", "update"}
          => record[e].in # 0 /\ record[e].out = 0
    /\ j.op = "out" /\ j.at = "update" => Running(e) = {}
    /\ j.op = "pause" /\ j.at = "insert" => Running(e) = {}
    /\ j.op = "resume" /\ j.at = "update"
          => Running(e) # {} /\ \A b \in Running(e) : b.start = j.target

Alone(t) == UserOf[t] \in Employees /\ ~raced[UserOf[t]]

HandlerInv == \A t \in Handlers : Alone(t) => Knows(t)

\* raced misses no overlap.
OverlapIsRaced ==
    \A t, u \in Handlers :
        /\ t # u /\ UserOf[t] = UserOf[u] /\ UserOf[t] \in Employees
        /\ job[t].op \in ClockOps /\ job[u].op \in ClockOps
        => raced[UserOf[t]]

\* A dashboard that no change has overlapped is right as far as it has been counted.
RightFill(r) ==
    /\ r.at = "read" => \A e \in Employees :
          /\ ~r.board[e].pause
          /\ IF "absences" \in r.todo THEN r.board[e].off = "no" ELSE r.board[e].off = Absence(e)
          /\ "records" \notin r.todo => r.board[e].clock = ClockOf(record[e])
    /\ r.at = "count" => \A e \in Employees :
          /\ e \in r.left => ~holiday /\ r.board[e] = [off |-> Absence(e), pause |-> FALSE,
                                                       clock |-> ClockOf(record[e])]
          /\ e \notin r.left => RightLine(r.board[e], e)
    /\ r.at = "answer" => \A e \in Employees :
          r.board[e].off = "no" => r.board[e].clock = ClockOf(record[e])

FillInv == \A f \in Fills : ~fill[f].stale => RightFill(fill[f])

\* A page that is behind will be told, or is about to be answered.
ShownInv ==
    \A m \in Managers :
        shown[m] # NONE /\ ~shown[m].stale =>
            \A e \in Employees : shown[m].board[e].off = "no" =>
                \/ shown[m].board[e].clock = ClockOf(record[e])
                \/ \E t \in Handlers : UserOf[t] = e /\ job[t].at = "publish"
                                  /\ job[t].op \in {"in", "out"}
                \/ due[m] > 0
                \/ \E f \in Fills : fill[f].for = m /\ fill[f].at # "idle"

\* What holds of a day whatever overlaps: who has come stays, and only who has come rests
\* or leaves.
Open == {"running", "insert", "update"}

CameFirst ==
    /\ \A e \in Employees : record[e].in = 0 => Running(e) = {}
    /\ \A t \in Handlers :
          UserOf[t] \in Employees /\ job[t].op \in {"out", "pause", "resume"} /\ job[t].at \in Open
          => record[UserOf[t]].in # 0

----------------------------------------------------------------------------
(***************************************************************************)
(* Types, and what every handler knows of its request.                     *)
(***************************************************************************)
ITypes == TypeOK /\ JobInv /\ RecordsInPast

LEMMA TypesInit == Init => ITypes
  <1> SUFFICES ASSUME Init PROVE ITypes
    OBVIOUS
  <1>1. Idle \in Job
    BY AttendanceAssumption DEF Idle, Job, Times
  <1>2. BlankBoard \in Board
    BY DEF BlankBoard, Board, BlankLine, Line
  <1>3. \A m \in Managers : IdleFill(m) \in Fill
    BY <1>2 DEF IdleFill, Fill
  <1>4. TypeOK
    <2>1. record \in [Employees -> Record] /\ leaveSince \in [Employees -> Times]
      BY AttendanceAssumption DEF Init, Record, Times
    <2>2. fill \in [Fills -> Fill]
      <3>1. {IdleFill(m) : m \in Managers} \subseteq Fill
        BY <1>3
      <3>2. QED
        BY <3>1 DEF Init
    <2>3. forms \in Seq(Form)
      BY DEF Init
    <2>4. reqs \in 0..MaxReq /\ mishaps \in 0..MaxMishaps
      BY AttendanceAssumption DEF Init
    <2>5. /\ breaks \in [Employees -> SUBSET Break] /\ holiday \in BOOLEAN
          /\ workday \in [Employees -> BOOLEAN] /\ cache = NONE
          /\ raced \in [Employees -> BOOLEAN]
          /\ due \in [Managers -> Nat] /\ DOMAIN shown = Managers
          /\ \A m \in Managers : shown[m] = NONE
      BY DEF Init
    <2>6. job \in [Handlers -> Job]
      BY <1>1 DEF Init
    <2>7. QED
      BY <2>1, <2>2, <2>3, <2>4, <2>5, <2>6 DEF TypeOK
  <1>5. JobInv /\ RecordsInPast
    BY DEF Init, JobInv, RecordsInPast, ClockOps, Idle
  <1>6. QED
    BY <1>4, <1>5 DEF ITypes

\* A handler that goes on keeps its request, one that ends forgets it.
LEMMA TypesJob ==
  ASSUME ITypes, NEW t \in Handlers, NEW r \in Job, Step(t, r), reqs' = reqs,
         DOMAIN forms \subseteq DOMAIN forms',
         \/ r = Idle
         \/ r.n = job[t].n /\ r.op = job[t].op
            /\ (r.op = "decide" => r.target = job[t].target)
  PROVE  job' \in [Handlers -> Job] /\ JobInv'
  <1>1. job' = [job EXCEPT ![t] = r] /\ job \in [Handlers -> Job]
    BY DEF Step, ITypes, TypeOK
  <1>2. job' \in [Handlers -> Job] /\ job'[t] = r /\ \A u \in Handlers : u # t => job'[u] = job[u]
    BY <1>1
  <1>3. ASSUME NEW u \in Handlers
        PROVE  /\ job'[u].n <= reqs'
               /\ job'[u].op # "idle" => job'[u].n >= 1
               /\ job'[u].op \in ClockOps \cup {"leave", "overtime"} => UserOf[u] \in Employees
               /\ job'[u].op = "decide" => job'[u].target \in DOMAIN forms'
    <2>1. /\ job[u].n <= reqs
          /\ job[u].op # "idle" => job[u].n >= 1
          /\ job[u].op \in ClockOps \cup {"leave", "overtime"} => UserOf[u] \in Employees
          /\ job[u].op = "decide" => job[u].target \in DOMAIN forms
      BY DEF ITypes, JobInv
    <2>2. CASE u # t
      BY <1>2, <2>1, <2>2
    <2>3. CASE u = t /\ r = Idle
      BY <1>2, <2>3 DEF Idle, ClockOps, ITypes, TypeOK
    <2>4. CASE u = t /\ r # Idle
      BY <1>2, <2>1, <2>4
    <2>5. QED
      BY <2>2, <2>3, <2>4
  <1>4. QED
    BY <1>2, <1>3 DEF JobInv

LEMMA TypesSpoil ==
  ASSUME ITypes, Spoil PROVE fill' \in [Fills -> Fill]
  <1>1. \A f \in Fills : fill[f] \in Fill /\ [fill[f] EXCEPT !.stale = TRUE] \in Fill
    BY DEF ITypes, TypeOK, Fill
  <1>2. QED
    BY <1>1 DEF Spoil

\* What is outdated keeps its type, and says so.
LEMMA OutdatedTypes ==
  ASSUME ITypes
  PROVE  /\ \/ Outdated(cache) = NONE
            \/ Outdated(cache) \in CacheEntry /\ Outdated(cache).stale
         /\ \A m \in Managers : \/ Outdated(shown[m]) = NONE
                                \/ Outdated(shown[m]) \in Shown /\ Outdated(shown[m]).stale
  <1>1. \A r \in CacheEntry : /\ [r EXCEPT !.stale = TRUE] \in CacheEntry
                              /\ [r EXCEPT !.stale = TRUE].stale
    BY DEF CacheEntry
  <1>2. \A r \in Shown : [r EXCEPT !.stale = TRUE] \in Shown /\ [r EXCEPT !.stale = TRUE].stale
    BY DEF Shown
  <1>3. cache = NONE \/ cache \in CacheEntry
    BY DEF ITypes, TypeOK
  <1>4. \A m \in Managers : shown[m] = NONE \/ shown[m] \in Shown
    BY DEF ITypes, TypeOK
  <1>5. \/ Outdated(cache) = NONE
        \/ Outdated(cache) \in CacheEntry /\ Outdated(cache).stale
    <2>1. CASE cache = NONE
      BY <2>1 DEF Outdated
    <2>2. CASE cache # NONE
      <3>1. Outdated(cache) = [cache EXCEPT !.stale = TRUE]
        BY <2>2 DEF Outdated
      <3>2. QED
        BY <1>1, <1>3, <2>2, <3>1
    <2>3. QED
      BY <2>1, <2>2
  <1>6. ASSUME NEW m \in Managers
        PROVE  \/ Outdated(shown[m]) = NONE
               \/ Outdated(shown[m]) \in Shown /\ Outdated(shown[m]).stale
    <2>1. CASE shown[m] = NONE
      BY <2>1 DEF Outdated
    <2>2. CASE shown[m] # NONE
      <3>1. Outdated(shown[m]) = [shown[m] EXCEPT !.stale = TRUE]
        BY <2>2 DEF Outdated
      <3>2. QED
        BY <1>2, <1>4, <2>2, <3>1
    <2>3. QED
      BY <2>1, <2>2
  <1>7. QED
    BY <1>5, <1>6

\* The pages that are behind say so, the others show what they showed.
LEMMA BehindTypes ==
  ASSUME ITypes
  PROVE  \A pages : Behind(pages) =>
            /\ DOMAIN shown' = Managers
            /\ \A m \in Managers : shown'[m] = NONE \/ shown'[m] \in Shown
            /\ \A m \in Managers : m \in pages => shown'[m] = NONE \/ shown'[m].stale
            /\ \A m \in Managers : m \notin pages => shown'[m] = shown[m]
  <1> SUFFICES ASSUME NEW pages, Behind(pages)
               PROVE  /\ DOMAIN shown' = Managers
                      /\ \A m \in Managers : shown'[m] = NONE \/ shown'[m] \in Shown
                      /\ \A m \in Managers : m \in pages => shown'[m] = NONE \/ shown'[m].stale
                      /\ \A m \in Managers : m \notin pages => shown'[m] = shown[m]
    OBVIOUS
  <1>1. shown' = [m \in Managers |-> IF m \in pages THEN Outdated(shown[m]) ELSE shown[m]]
    BY DEF Behind
  <1>2. DOMAIN shown' = Managers
    BY <1>1
  <1>3. \A m \in Managers : shown'[m] = IF m \in pages THEN Outdated(shown[m]) ELSE shown[m]
    BY <1>1
  <1>4. \A m \in Managers : shown[m] = NONE \/ shown[m] \in Shown
    BY DEF ITypes, TypeOK
  <1>5. \A m \in Managers : \/ Outdated(shown[m]) = NONE
                            \/ Outdated(shown[m]) \in Shown /\ Outdated(shown[m]).stale
    BY OutdatedTypes
  <1>6. QED
    BY <1>2, <1>3, <1>4, <1>5

LEMMA TypesSpoilAll ==
  ASSUME ITypes, SpoilAll
  PROVE  /\ fill' \in [Fills -> Fill]
         /\ cache' = NONE \/ cache' \in CacheEntry
         /\ DOMAIN shown' = Managers
         /\ \A m \in Managers : shown'[m] = NONE \/ shown'[m] \in Shown
  BY TypesSpoil, OutdatedTypes, BehindTypes DEF SpoilAll

\* A request begins at the first statement of its handler.
LEMMA AskStep ==
  ASSUME ITypes, NEW t \in Handlers, Ask(t)
  PROVE  \E r \in Job : /\ Begin(t, r) /\ [r EXCEPT !.n = reqs + 1] \in Job
                        /\ r.op \in ClockOps \cup {"leave", "overtime"} => UserOf[t] \in Employees
                        /\ r.op = "decide" => r.target \in DOMAIN forms
                        /\ r.op = "in" => r.at = "schedule"
                        /\ r.op \in {"out", "pause", "resume"} => r.at = "record"
                        /\ r.at # "publish"
  <1>1. ASSUME NEW r \in Job, Begin(t, r)
        PROVE  [r EXCEPT !.n = reqs + 1] \in Job
    <2>1. reqs + 1 \in Times
      BY <1>1, AttendanceAssumption DEF Begin, ITypes, TypeOK, Times
    <2>2. QED
      BY <2>1 DEF Job
  <1> Idle \in Job
    BY AttendanceAssumption DEF Idle, Job, Times
  <1>2. DOMAIN forms \subseteq Nat
    BY DEF ITypes, TypeOK
  <1>3. CASE RequestClock(t)
    <2>1. PICK r : /\ Begin(t, r) /\ UserOf[t] \in Employees
                   /\ \/ r = [Idle EXCEPT !.op = "in", !.at = "schedule"]
                      \/ \E op \in {"out", "pause", "resume"} : r = [Idle EXCEPT !.op = op]
      BY <1>3 DEF RequestClock
    <2>2. /\ r \in Job /\ r.op \in ClockOps /\ r.op # "decide" /\ r.at # "publish"
          /\ r.op = "in" => r.at = "schedule"
          /\ r.op \in {"out", "pause", "resume"} => r.at = "record"
      BY <2>1 DEF Job, ClockOps, Idle
    <2>3. [r EXCEPT !.n = reqs + 1] \in Job
      BY <1>1, <2>1, <2>2
    <2>4. QED
      BY <2>1, <2>2, <2>3
  <1>4. CASE RequestForm(t)
    <2>1. PICK kind \in {"leave", "overtime"} :
              Begin(t, [Idle EXCEPT !.op = kind, !.at = "check"])
      BY <1>4 DEF RequestForm
    <2> DEFINE r == [Idle EXCEPT !.op = kind, !.at = "check"]
    <2>2. /\ r \in Job /\ r.op = kind /\ r.at = "check" /\ UserOf[t] \in Employees
      BY <1>4, <2>1 DEF Job, RequestForm, Idle
    <2>3. Begin(t, r)
      BY <2>1
    <2> HIDE DEF r
    <2>4. [r EXCEPT !.n = reqs + 1] \in Job
      BY <1>1, <2>2, <2>3
    <2>5. QED
      BY <2>2, <2>3, <2>4
  <1>5. CASE RequestDecision(t)
    <2>1. PICK i \in DOMAIN forms, v \in {"approved", "rejected"} :
              Begin(t, [Idle EXCEPT !.op = "decide", !.at = "check", !.target = i,
                                    !.verdict = v])
      BY <1>5 DEF RequestDecision
    <2> DEFINE r == [Idle EXCEPT !.op = "decide", !.at = "check", !.target = i,
                                 !.verdict = v]
    <2>2. r \in Job /\ r.op = "decide" /\ r.target = i /\ r.at = "check"
      BY <1>2, <2>1 DEF Job, Idle
    <2>3. Begin(t, r)
      BY <2>1
    <2> HIDE DEF r
    <2>4. [r EXCEPT !.n = reqs + 1] \in Job
      BY <1>1, <2>2, <2>3
    <2>5. QED
      BY <2>1, <2>2, <2>3, <2>4 DEF ClockOps
  <1>6. QED
    BY <1>3, <1>4, <1>5 DEF Ask

LEMMA TypesAsk ==
  ASSUME ITypes, NEW t \in Handlers, Ask(t) PROVE ITypes'
  <1>1. PICK r \in Job : /\ Begin(t, r) /\ [r EXCEPT !.n = reqs + 1] \in Job
                         /\ r.op \in ClockOps \cup {"leave", "overtime"} => UserOf[t] \in Employees
                         /\ r.op = "decide" => r.target \in DOMAIN forms
    BY AskStep
  <1> DEFINE q == [r EXCEPT !.n = reqs + 1]
  <1>2. /\ job' = [job EXCEPT ![t] = q] /\ reqs' = reqs + 1 /\ reqs < MaxReq
        /\ UNCHANGED <<dayState, forms, holiday, workday, leaveSince, boards, mishaps>>
        /\ raced' = [e \in Employees |-> raced[e] \/ (e = UserOf[t] /\ r.op \in ClockOps
                                                       /\ Clocking(e))]
    BY <1>1 DEF Begin
  <1>3. q \in Job /\ q.n = reqs + 1 /\ q.op = r.op /\ q.target = r.target
    BY <1>1, <1>2 DEF Job
  <1> HIDE DEF q
  <1>4. /\ UNCHANGED <<record, breaks, forms, holiday, workday, leaveSince, cache, fill,
                       due, shown>>
    BY <1>2 DEF dayState, boards
  <1>5. TypeOK'
    <2>1. \A e \in Employees : (raced[e] \/ (e = UserOf[t] /\ r.op \in ClockOps
                                              /\ Clocking(e))) \in BOOLEAN
      OBVIOUS
    <2>2. raced' \in [Employees -> BOOLEAN]
      BY <1>2, <2>1
    <2>3. QED
      BY <1>2, <1>3, <1>4, <2>2, AttendanceAssumption DEF ITypes, TypeOK
  <1>6. JobInv'
    <2> SUFFICES ASSUME NEW u \in Handlers
                 PROVE  /\ job'[u].n <= reqs'
                        /\ job'[u].op # "idle" => job'[u].n >= 1
                        /\ job'[u].op \in ClockOps \cup {"leave", "overtime"}
                               => UserOf[u] \in Employees
                        /\ job'[u].op = "decide" => job'[u].target \in DOMAIN forms'
      BY DEF JobInv
    <2>1. reqs \in Nat /\ job \in [Handlers -> Job]
      BY AttendanceAssumption DEF ITypes, TypeOK
    <2>2. CASE u = t
      BY <1>1, <1>2, <1>3, <1>4, <2>1, <2>2
    <2>3. CASE u # t
      <3>1. job'[u] = job[u] /\ job[u].n <= reqs /\ job[u].n \in Nat
        BY <1>2, <2>1, <2>3, AttendanceAssumption DEF ITypes, JobInv, Job, Times
      <3>2. QED
        BY <1>2, <1>4, <2>1, <3>1 DEF ITypes, JobInv
    <2>4. QED
      BY <2>2, <2>3
  <1>7. RecordsInPast'
    BY <1>2, <1>4, AttendanceAssumption DEF ITypes, TypeOK, RecordsInPast, Record, Times
  <1>8. QED
    BY <1>5, <1>6, <1>7 DEF ITypes

\* The statements that only read.
Read(t) == \/ CheckCalendar(t) \/ FindRow(t) \/ FindOpenDay(t) \/ FindRunning(t)
           \/ CheckForm(t) \/ CheckPending(t)

LEMMA ReadStep ==
  ASSUME ITypes, NEW t \in Handlers, Read(t)
  PROVE  /\ \E r \in Job : /\ Step(t, r)
                           /\ \/ r = Idle
                              \/ r.n = job[t].n /\ r.op = job[t].op
                                 /\ (r.op = "decide" => r.target = job[t].target)
         /\ UNCHANGED <<dayState, calendar, boards, reqs, mishaps>>
  <1>1. job[t] \in Job /\ Idle \in Job
    BY AttendanceAssumption DEF ITypes, TypeOK, Idle, Job, Times
  <1>2. CASE CheckCalendar(t)
    <2>1. UserOf[t] \in Employees
      BY <1>2 DEF CheckCalendar, ITypes, JobInv, ClockOps
    <2>2. workday[UserOf[t]] \in BOOLEAN
      BY <2>1 DEF ITypes, TypeOK
    <2>3. [job[t] EXCEPT !.at = "holiday", !.works = workday[UserOf[t]]] \in Job
      BY <1>1, <2>2 DEF Job
    <2>4. [job[t] EXCEPT !.at = "leave"] \in Job /\ [job[t] EXCEPT !.at = "record"] \in Job
      BY <1>1 DEF Job
    <2>5. QED
      BY ZenonT(60), <1>1, <1>2, <2>3, <2>4 DEF CheckCalendar, Reject, Job
  <1>3. CASE FindRow(t)
    <2>1. [job[t] EXCEPT !.at = "update"] \in Job /\ [job[t] EXCEPT !.at = "insert"] \in Job
      BY <1>1 DEF Job
    <2>2. QED
      BY <1>1, <1>3, <2>1 DEF FindRow, Reject, Job
  <1>4. CASE FindOpenDay(t)
    <2>1. [job[t] EXCEPT !.at = "running"] \in Job
      BY <1>1 DEF Job
    <2>2. QED
      BY <1>1, <1>4, <2>1 DEF FindOpenDay, Reject, Job
  <1>5. CASE FindRunning(t)
    <2>1. [job[t] EXCEPT !.at = "update"] \in Job /\ [job[t] EXCEPT !.at = "insert"] \in Job
      BY <1>1 DEF Job
    <2>2. UserOf[t] \in Employees
      BY <1>5 DEF FindRunning, ITypes, JobInv, ClockOps
    <2>3. \A b \in Running(UserOf[t]) : b.start \in Nat
      BY <2>2, AttendanceAssumption DEF Running, ITypes, TypeOK, Break
    <2>4. \A b \in Running(UserOf[t]) :
             [job[t] EXCEPT !.at = "update", !.target = b.start] \in Job
      BY <1>1, <2>3 DEF Job
    <2>5. CASE job[t].op = "resume"
      BY <1>1, <1>5, <2>4, <2>5 DEF FindRunning, Reject, Job
    <2>6. CASE job[t].op # "resume"
      BY <1>1, <1>5, <2>1, <2>6 DEF FindRunning, Reject, Job
    <2>7. QED
      BY <2>5, <2>6
  <1>6. CASE CheckForm(t)
    <2>1. [job[t] EXCEPT !.at = "insert"] \in Job
      BY <1>1 DEF Job
    <2>2. QED
      BY <1>1, <1>6, <2>1 DEF CheckForm, Reject, Job
  <1>7. CASE CheckPending(t)
    <2>1. [job[t] EXCEPT !.at = "update"] \in Job
      BY <1>1 DEF Job
    <2>2. QED
      BY <1>1, <1>7, <2>1 DEF CheckPending, Reject, Job
  <1>8. QED
    BY <1>2, <1>3, <1>4, <1>5, <1>6, <1>7 DEF Read

LEMMA TypesRead == ASSUME ITypes, NEW t \in Handlers, Read(t) PROVE ITypes'
  <1>1. PICK r \in Job : /\ Step(t, r)
                         /\ \/ r = Idle
                            \/ r.n = job[t].n /\ r.op = job[t].op
                               /\ (r.op = "decide" => r.target = job[t].target)
    BY ReadStep
  <1>2. /\ UNCHANGED <<record, breaks, forms, holiday, workday, leaveSince, raced, cache,
                       fill, due, shown, reqs, mishaps>>
    BY ReadStep DEF dayState, calendar, boards
  <1>3. job' \in [Handlers -> Job] /\ JobInv'
    BY <1>1, <1>2, TypesJob
  <1>4. TypeOK' /\ RecordsInPast'
    BY <1>2, <1>3 DEF ITypes, TypeOK, RecordsInPast
  <1>5. QED
    BY <1>3, <1>4 DEF ITypes

\* The statements that write the day of one employee.
Write(t) == InsertRow(t) \/ WriteIn(t) \/ InsertBreak(t) \/ EndBreak(t) \/ WriteOut(t)

LEMMA WriteStep ==
  ASSUME ITypes, NEW t \in Handlers, Write(t)
  PROVE  /\ UserOf[t] \in Employees
         /\ \E r \in Job : /\ Step(t, r)
                           /\ r = Idle \/ (r.n = job[t].n /\ r.op = job[t].op /\ r.op # "decide")
         /\ UNCHANGED <<calendar, cache, due, shown, reqs, mishaps>>
         /\ job[t].n \in 1..reqs
  <1>1. job[t] \in Job /\ Idle \in Job
    BY AttendanceAssumption DEF ITypes, TypeOK, Idle, Job, Times
  <1>2. [job[t] EXCEPT !.at = "publish"] \in Job /\ [job[t] EXCEPT !.at = "update"] \in Job
    BY <1>1 DEF Job
  <1>3. job[t].op \in ClockOps
    BY DEF Write, InsertRow, WriteIn, InsertBreak, EndBreak, WriteOut, ClockOps
  <1>4. UserOf[t] \in Employees /\ job[t].n <= reqs /\ job[t].n >= 1
    BY <1>3 DEF ITypes, JobInv, ClockOps
  <1>5. job[t].n \in 1..reqs
    BY <1>1, <1>4, AttendanceAssumption DEF Job, Times, ITypes, TypeOK
  <1>6. \E r \in Job : /\ Step(t, r)
                       /\ r = Idle \/ (r.n = job[t].n /\ r.op = job[t].op /\ r.op # "decide")
    BY <1>1, <1>2, <1>3 DEF Write, InsertRow, WriteIn, InsertBreak, EndBreak, WriteOut,
                            ClockOps, Job, Reject
  <1>7. UNCHANGED <<calendar, cache, due, shown, reqs, mishaps>>
    BY DEF Write, InsertRow, WriteIn, InsertBreak, EndBreak, WriteOut, boards
  <1>8. QED
    BY <1>4, <1>5, <1>6, <1>7

LEMMA TypesWrite == ASSUME ITypes, NEW t \in Handlers, Write(t) PROVE ITypes'
  <1> DEFINE e == UserOf[t]
  <1>1. PICK r \in Job : /\ Step(t, r)
                         /\ r = Idle \/ (r.n = job[t].n /\ r.op = job[t].op /\ r.op # "decide")
    BY WriteStep
  <1>2. /\ UNCHANGED <<forms, holiday, workday, leaveSince, raced, cache, due, shown, reqs,
                       mishaps>>
        /\ e \in Employees /\ job[t].n \in 1..reqs
    BY WriteStep DEF calendar
  <1>3. job' \in [Handlers -> Job] /\ JobInv'
    BY <1>1, <1>2, TypesJob
  <1>4. fill' \in [Fills -> Fill]
    <2>1. Spoil \/ UNCHANGED fill
      BY DEF Write, InsertRow, WriteIn, InsertBreak, EndBreak, WriteOut, boards
    <2>2. QED
      BY <2>1, TypesSpoil DEF ITypes, TypeOK
  <1>5. job[t].n \in Times /\ job[t].n \in 1..MaxReq /\ 0 \in Times
    BY <1>2, AttendanceAssumption DEF Times, ITypes, TypeOK
  <1>6. record' \in [Employees -> Record] /\ \A x \in Employees : record'[x].in <= reqs
    <2>1. record \in [Employees -> Record] /\ \A x \in Employees : record[x].in <= reqs
      BY DEF ITypes, TypeOK, RecordsInPast
    <2>2. [record[e] EXCEPT !.row = TRUE] \in Record /\ [record[e] EXCEPT !.out = job[t].n] \in Record
          /\ [record[e] EXCEPT !.in = job[t].n] \in Record
      BY <1>2, <1>5, <2>1 DEF Record
    <2>3. \/ UNCHANGED record
          \/ record' = [record EXCEPT ![e] = [@ EXCEPT !.row = TRUE]]
          \/ record' = [record EXCEPT ![e] = [@ EXCEPT !.out = job[t].n]]
          \/ record' = [record EXCEPT ![e] = [@ EXCEPT !.in = job[t].n]]
      BY DEF Write, InsertRow, WriteIn, InsertBreak, EndBreak, WriteOut
    <2>4. QED
      BY <1>2, <2>1, <2>2, <2>3 DEF Record
  <1>7. breaks' \in [Employees -> SUBSET Break]
    <2>1. breaks \in [Employees -> SUBSET Break]
      BY DEF ITypes, TypeOK
    <2>2. CASE InsertBreak(t)
      <3>1. [start |-> job[t].n, end |-> 0] \in Break
        BY <1>5 DEF Break
      <3>2. QED
        BY <1>2, <2>1, <2>2, <3>1 DEF InsertBreak
    <2>3. CASE EndBreak(t)
      <3> DEFINE Ended(b) == IF b.start = job[t].target THEN [b EXCEPT !.end = job[t].n] ELSE b
      <3>1. \A b \in breaks[e] : Ended(b) \in Break
        BY <1>2, <1>5, <2>1 DEF Break
      <3>2. breaks' = [breaks EXCEPT ![e] = {Ended(b) : b \in breaks[e]}]
        BY <2>3 DEF EndBreak
      <3> HIDE DEF Ended
      <3>3. {Ended(b) : b \in breaks[e]} \subseteq Break
        BY <3>1
      <3>4. QED
        BY <2>1, <3>2, <3>3
    <2>4. CASE ~InsertBreak(t) /\ ~EndBreak(t)
      BY <2>1, <2>4 DEF Write, InsertRow, WriteIn, WriteOut
    <2>5. QED
      BY <2>2, <2>3, <2>4
  <1>8. TypeOK' /\ RecordsInPast'
    BY <1>2, <1>3, <1>4, <1>6, <1>7 DEF ITypes, TypeOK, RecordsInPast
  <1>9. QED
    BY <1>3, <1>8 DEF ITypes

\* The three ways in which a change is published.
LEMMA PublishStep ==
  ASSUME NEW t \in Handlers, Publish(t)
  PROVE  \E told \in SUBSET Managers :
            /\ Reach(t, told)
            /\ cache' = NONE \/ cache' = Outdated(cache)
            /\ UNCHANGED mishaps \/ Mishap
  BY DEF Publish

LEMMA TypesPublish == ASSUME ITypes, NEW t \in Handlers, Publish(t) PROVE ITypes'
  <1>1. Idle \in Job
    BY AttendanceAssumption DEF Idle, Job, Times
  <1>2. /\ UNCHANGED <<record, breaks, forms, holiday, workday, leaveSince, raced, fill, reqs>>
        /\ Step(t, Idle)
    BY DEF Publish, dayState, calendar
  <1>3. job' \in [Handlers -> Job] /\ JobInv'
    BY <1>1, <1>2, TypesJob
  <1>4. PICK told \in SUBSET Managers : /\ Reach(t, told)
                                        /\ cache' = NONE \/ cache' = Outdated(cache)
                                        /\ UNCHANGED mishaps \/ Mishap
    BY PublishStep
  <1>5. due' \in [Managers -> Nat]
    BY <1>4 DEF Reach, ITypes, TypeOK
  <1>6. DOMAIN shown' = Managers /\ \A m \in Managers : shown'[m] = NONE \/ shown'[m] \in Shown
    <2>1. UNCHANGED shown \/ Behind(Managers \ told)
      BY <1>4 DEF Reach
    <2>2. QED
      BY <2>1, BehindTypes DEF ITypes, TypeOK
  <1>7. cache' = NONE \/ cache' \in CacheEntry
    BY <1>4, OutdatedTypes
  <1>8. mishaps' \in 0..MaxMishaps
    BY <1>4, AttendanceAssumption DEF Mishap, ITypes, TypeOK
  <1>9. TypeOK' /\ RecordsInPast'
    BY <1>2, <1>3, <1>5, <1>6, <1>7, <1>8 DEF ITypes, TypeOK, RecordsInPast
  <1>10. QED
    BY <1>3, <1>9 DEF ITypes

LEMMA TypesForms ==
  ASSUME ITypes, NEW t \in Handlers, InsertForm(t) \/ WriteDecision(t) PROVE ITypes'
  <1>1. Idle \in Job /\ Step(t, Idle)
    BY AttendanceAssumption DEF Idle, Job, Times, InsertForm, WriteDecision
  <1>2. /\ UNCHANGED <<record, breaks, holiday, workday, raced, due, reqs, mishaps>>
    BY DEF InsertForm, WriteDecision, dayState, boards
  <1>3. forms \in Seq(Form)
    BY DEF ITypes, TypeOK
  <1>4. forms' \in Seq(Form) /\ DOMAIN forms \subseteq DOMAIN forms'
    <2>1. CASE InsertForm(t)
      <3>1. UserOf[t] \in Employees
        BY <2>1 DEF InsertForm, ITypes, JobInv
      <3> DEFINE r == [kind |-> job[t].op, by |-> UserOf[t], status |-> "pending"]
      <3>2. r \in Form /\ forms' = Append(forms, r)
        BY <2>1, <3>1 DEF InsertForm, Form
      <3> HIDE DEF r
      <3>3. QED
        BY <1>3, <3>2
    <2>2. CASE WriteDecision(t)
      <3>1. job[t].target \in DOMAIN forms /\ job[t] \in Job
        BY <2>2 DEF WriteDecision, ITypes, JobInv, TypeOK
      <3>2. [forms[job[t].target] EXCEPT !.status = job[t].verdict] \in Form
        <4>1. forms[job[t].target] \in Form /\ job[t].verdict \in {"approved", "rejected"}
          BY <1>3, <3>1 DEF Job
        <4>2. QED
          BY <4>1 DEF Form
      <3>3. forms' = [forms EXCEPT ![job[t].target] =
                         [forms[job[t].target] EXCEPT !.status = job[t].verdict]]
        BY <2>2 DEF WriteDecision
      <3>4. QED
        BY <1>3, <3>1, <3>2, <3>3
    <2>3. QED
      BY <2>1, <2>2
  <1>5. job' \in [Handlers -> Job] /\ JobInv'
    BY <1>1, <1>2, <1>4, TypesJob
  <1>6. /\ fill' \in [Fills -> Fill]
        /\ cache' = NONE \/ cache' \in CacheEntry
        /\ DOMAIN shown' = Managers
        /\ \A m \in Managers : shown'[m] = NONE \/ shown'[m] \in Shown
    <2>1. CASE InsertForm(t)
      BY <2>1 DEF InsertForm, boards, ITypes, TypeOK
    <2>2. CASE WriteDecision(t)
      BY <2>2, TypesSpoilAll DEF WriteDecision
    <2>3. QED
      BY <2>1, <2>2
  <1>7. leaveSince' \in [Employees -> Times]
    <2>1. reqs \in Times
      BY DEF ITypes, TypeOK, Times
    <2>2. QED
      BY <2>1 DEF InsertForm, WriteDecision, ITypes, TypeOK
  <1>8. TypeOK' /\ RecordsInPast'
    BY <1>2, <1>4, <1>5, <1>6, <1>7 DEF ITypes, TypeOK, RecordsInPast
  <1>9. QED
    BY <1>5, <1>8 DEF ITypes

LEMMA TypesFail == ASSUME ITypes, NEW t \in Handlers, Fail(t) PROVE ITypes'
  <1>1. Idle \in Job /\ Step(t, Idle)
    BY AttendanceAssumption DEF Idle, Job, Times, Fail
  <1>2. /\ UNCHANGED <<record, breaks, forms, holiday, workday, leaveSince, raced, due, reqs>>
        /\ mishaps < MaxMishaps /\ mishaps' = mishaps + 1
        /\ SpoilAll \/ UNCHANGED <<fill, cache, shown>>
    BY DEF Fail, Mishap, dayState, calendar
  <1>3. job' \in [Handlers -> Job] /\ JobInv'
    BY <1>1, <1>2, TypesJob
  <1>4. /\ fill' \in [Fills -> Fill]
        /\ cache' = NONE \/ cache' \in CacheEntry
        /\ DOMAIN shown' = Managers
        /\ \A m \in Managers : shown'[m] = NONE \/ shown'[m] \in Shown
    BY <1>2, TypesSpoilAll DEF ITypes, TypeOK
  <1>5. mishaps' \in 0..MaxMishaps
    BY <1>2, AttendanceAssumption DEF ITypes, TypeOK
  <1>6. TypeOK' /\ RecordsInPast'
    BY <1>2, <1>3, <1>4, <1>5 DEF ITypes, TypeOK, RecordsInPast
  <1>7. QED
    BY <1>3, <1>6 DEF ITypes

LEMMA TypesMishap ==
  ASSUME ITypes, \/ SetHoliday \/ (\E e \in Employees : SetSchedule(e))
                 \/ Restart \/ Expire
  PROVE  ITypes'
  <1>1. /\ UNCHANGED <<record, breaks, forms, leaveSince, raced, reqs>>
        /\ mishaps < MaxMishaps /\ mishaps' = mishaps + 1
    BY DEF SetHoliday, SetSchedule, Restart, Expire, Mishap, dayState, calendar
  <1>2. mishaps' \in 0..MaxMishaps
    BY <1>1, AttendanceAssumption DEF ITypes, TypeOK
  <1>3. Idle \in Job
    BY AttendanceAssumption DEF Idle, Job, Times
  <1>4. job' \in [Handlers -> Job] /\ JobInv'
    <2>1. CASE Restart
      <3>1. job' = [t \in Handlers |-> Idle] /\ reqs \in Nat
        BY <2>1, AttendanceAssumption DEF Restart, ITypes, TypeOK
      <3>2. QED
        BY <1>1, <1>3, <3>1 DEF JobInv, Idle, ClockOps
    <2>2. CASE ~Restart
      BY <1>1, <2>2 DEF SetHoliday, SetSchedule, Expire, ITypes, TypeOK, JobInv
    <2>3. QED
      BY <2>1, <2>2
  <1>5. /\ holiday' \in BOOLEAN /\ workday' \in [Employees -> BOOLEAN]
        /\ due' \in [Managers -> Nat]
    <2>1. holiday \in BOOLEAN /\ workday \in [Employees -> BOOLEAN]
          /\ due \in [Managers -> Nat]
      BY DEF ITypes, TypeOK
    <2>2. holiday' \in BOOLEAN
      BY <2>1 DEF SetHoliday, SetSchedule, Restart, Expire, calendar
    <2>3. due' \in [Managers -> Nat]
      BY <2>1 DEF SetHoliday, SetSchedule, Restart, Expire
    <2>4. UNCHANGED workday \/ \E e \in Employees : workday' = [workday EXCEPT ![e] = ~@]
      BY DEF SetHoliday, SetSchedule, Restart, Expire, calendar
    <2>5. QED
      BY <2>1, <2>2, <2>3, <2>4
  <1>6. /\ fill' \in [Fills -> Fill]
        /\ cache' = NONE \/ cache' \in CacheEntry
        /\ DOMAIN shown' = Managers
        /\ \A m \in Managers : shown'[m] = NONE \/ shown'[m] \in Shown
    <2>1. CASE Restart
      <3>1. BlankBoard \in Board
        BY DEF BlankBoard, Board, BlankLine, Line
      <3>2. \A f \in Fills : IdleFill(fill[f].for) \in Fill
        BY <3>1 DEF IdleFill, Fill, ITypes, TypeOK
      <3>3. fill' \in [Fills -> Fill]
        BY <2>1, <3>2 DEF Restart
      <3>4. cache' = NONE \/ cache' = cache \/ cache' = Outdated(cache)
        BY <2>1 DEF Restart
      <3>5. cache' = NONE \/ cache' \in CacheEntry
        BY <3>4, OutdatedTypes DEF ITypes, TypeOK
      <3>6. Behind(Managers)
        BY <2>1 DEF Restart
      <3>7. QED
        BY <3>3, <3>5, <3>6, BehindTypes
    <2>2. CASE Expire
      BY <2>2 DEF Expire, ITypes, TypeOK
    <2>3. CASE SpoilAll
      BY <2>3, TypesSpoilAll
    <2>4. QED
      BY <2>1, <2>2, <2>3 DEF SetHoliday, SetSchedule
  <1>7. TypeOK' /\ RecordsInPast'
    BY <1>1, <1>2, <1>4, <1>5, <1>6 DEF ITypes, TypeOK, RecordsInPast
  <1>8. QED
    BY <1>4, <1>7 DEF ITypes

\* Every step of a dashboard leaves the day, the calendar and the handlers alone.
LEMMA LookLeaves ==
  ASSUME NEW f \in Fills, Look(f)
  PROVE  /\ UNCHANGED <<record, breaks, forms, holiday, workday, leaveSince, raced, job, reqs>>
         /\ UNCHANGED mishaps \/ Mishap
  BY DEF Look, AskBoard, GetCached, ReadRecords, ReadAbsences, StartCount, Count, SetCache,
         BoardArrives, BoardFails, dayState, calendar

LEMMA TypesLook == ASSUME ITypes, NEW f \in Fills, Look(f) PROVE ITypes'
  <1>1. /\ UNCHANGED <<record, breaks, forms, holiday, workday, leaveSince, raced, job, reqs>>
        /\ mishaps' \in 0..MaxMishaps
    BY LookLeaves, AttendanceAssumption DEF Mishap, ITypes, TypeOK
  <1>2. fill \in [Fills -> Fill] /\ fill[f] \in Fill
    BY DEF ITypes, TypeOK
  <1>3. \A m \in Managers : IdleFill(m) \in Fill
    <2>1. BlankBoard \in Board
      BY DEF BlankBoard, Board, BlankLine, Line
    <2>2. QED
      BY <2>1 DEF IdleFill, Fill
  <1>4. \A r \in Fill : Refill(f, r) => fill' \in [Fills -> Fill]
    BY <1>2 DEF Refill
  <1>5. UNCHANGED <<cache, due, shown>> /\ (\E r \in Fill : Refill(f, r)) => ITypes'
    BY <1>1, <1>4 DEF ITypes, TypeOK, JobInv, RecordsInPast
  <1>6. CASE \E m \in Managers : AskBoard(f, m)
    <2>1. PICK m \in Managers : AskBoard(f, m)
      BY <1>6
    <2>2. [IdleFill(m) EXCEPT !.at = "get"] \in Fill
      BY <1>3 DEF Fill
    <2>3. fill' \in [Fills -> Fill]
      BY <1>4, <2>1, <2>2 DEF AskBoard
    <2>4. due' \in [Managers -> Nat]
      BY <2>1 DEF AskBoard, ITypes, TypeOK
    <2>5. UNCHANGED <<cache, shown>>
      BY <2>1 DEF AskBoard
    <2>6. QED
      BY <1>1, <2>3, <2>4, <2>5 DEF ITypes, TypeOK, JobInv, RecordsInPast
  <1>7. CASE GetCached(f)
    <2>1. [IdleFill(fill[f].for) EXCEPT !.at = "read", !.todo = {"records", "absences"}] \in Fill
      BY <1>2, <1>3 DEF Fill
    <2>2. CASE cache = NONE
      BY <1>5, <1>7, <2>1, <2>2 DEF GetCached
    <2>3. CASE cache # NONE
      <3>1. cache.board \in Board /\ cache.stale \in BOOLEAN /\ AboutToInvalidate \in BOOLEAN
        BY <2>3 DEF ITypes, TypeOK, CacheEntry, AboutToInvalidate
      <3>2. (cache.stale \/ AboutToInvalidate) \in BOOLEAN
        OBVIOUS
      <3> DEFINE b == cache.stale \/ AboutToInvalidate
      <3>3. b \in BOOLEAN
        BY <3>2
      <3>4. Refill(f, [fill[f] EXCEPT !.at = "answer", !.board = cache.board, !.stale = b])
        BY <1>7, <2>3 DEF GetCached
      <3> HIDE DEF b
      <3>5. [fill[f] EXCEPT !.at = "answer", !.board = cache.board, !.stale = b] \in Fill
        BY <1>2, <3>1, <3>3 DEF Fill
      <3>6. UNCHANGED <<cache, due, shown>>
        BY <1>7 DEF GetCached
      <3>7. QED
        BY <1>5, <3>4, <3>5, <3>6
    <2>4. QED
      BY <2>2, <2>3
  <1>8. CASE ReadRecords(f)
    <2> DEFINE b == [e \in Employees |-> [fill[f].board[e] EXCEPT !.clock = ClockOf(record[e])]]
    <2>1. b \in Board
      <3>1. ASSUME NEW e \in Employees
            PROVE  [fill[f].board[e] EXCEPT !.clock = ClockOf(record[e])] \in Line
        <4>1. fill[f].board[e] \in Line
          BY <1>2 DEF Fill, Board
        <4>2. PICK x \in {"new", "working", "done"} : x = ClockOf(record[e])
          BY DEF ClockOf
        <4>3. [fill[f].board[e] EXCEPT !.clock = x] \in Line
          BY <4>1 DEF Line
        <4>4. QED
          BY <4>2, <4>3
      <3>2. QED
        BY <3>1 DEF Board
    <2>2. /\ Refill(f, [fill[f] EXCEPT !.todo = @ \ {"records"}, !.board = b])
          /\ UNCHANGED <<cache, due, shown>>
      BY <1>8 DEF ReadRecords
    <2> HIDE DEF b
    <2>3. [fill[f] EXCEPT !.todo = @ \ {"records"}, !.board = b] \in Fill
      BY <1>2, <2>1 DEF Fill
    <2>4. QED
      BY <1>5, <2>2, <2>3
  <1>9. CASE ReadAbsences(f)
    <2> DEFINE b == [e \in Employees |-> [fill[f].board[e] EXCEPT !.off = Absence(e)]]
    <2>1. b \in Board
      <3>1. \A e \in Employees : Absence(e) \in {"no", "holiday", "leave", "day_off"}
        BY DEF Absence
      <3>2. ASSUME NEW e \in Employees
            PROVE  [fill[f].board[e] EXCEPT !.off = Absence(e)] \in Line
        <4>1. fill[f].board[e] \in Line
          BY <1>2 DEF Fill, Board
        <4>2. PICK x \in {"no", "holiday", "leave", "day_off"} : x = Absence(e)
          BY <3>1
        <4>3. [fill[f].board[e] EXCEPT !.off = x] \in Line
          BY <4>1 DEF Line
        <4>4. QED
          BY <4>2, <4>3
      <3>3. QED
        BY <3>2 DEF Board
    <2>2. /\ Refill(f, [fill[f] EXCEPT !.todo = @ \ {"absences"}, !.board = b])
          /\ UNCHANGED <<cache, due, shown>>
      BY <1>9 DEF ReadAbsences
    <2> HIDE DEF b
    <2>3. [fill[f] EXCEPT !.todo = @ \ {"absences"}, !.board = b] \in Fill
      BY <1>2, <2>1 DEF Fill
    <2>4. QED
      BY <1>5, <2>2, <2>3
  <1>10. CASE StartCount(f)
    <2>1. /\ [fill[f] EXCEPT !.at = "answer"] \in Fill
          /\ [fill[f] EXCEPT !.at = "count", !.left = Employees] \in Fill
      BY <1>2 DEF Fill
    <2>2. QED
      BY <1>5, <1>10, <2>1 DEF StartCount
  <1>11. CASE \E e \in Employees : Count(f, e)
    <2>1. PICK e \in Employees : Count(f, e)
      BY <1>11
    <2> DEFINE line == fill[f].board[e]
    <2>2. line \in Line /\ fill[f].board \in Board
      BY <1>2 DEF Fill, Board
    <2>3. PICK new \in Line : /\ Refill(f, [fill[f] EXCEPT !.left = @ \ {e}, !.board[e] = new])
                              /\ UNCHANGED <<cache, due, shown>>
      <3> DEFINE p == line.clock = "working" /\ Running(e) # {}
      <3>1. p \in BOOLEAN
        OBVIOUS
      <3>2. \/ Refill(f, [fill[f] EXCEPT !.left = @ \ {e}, !.board[e] = line])
            \/ Refill(f, [fill[f] EXCEPT !.left = @ \ {e},
                                         !.board[e] = [line EXCEPT !.off = "day_off"]])
            \/ Refill(f, [fill[f] EXCEPT !.left = @ \ {e},
                                         !.board[e] = [line EXCEPT !.pause = p]])
        BY <2>1 DEF Count
      <3> HIDE DEF p
      <3>3. [line EXCEPT !.off = "day_off"] \in Line /\ [line EXCEPT !.pause = p] \in Line
        BY <2>2, <3>1 DEF Line
      <3>4. UNCHANGED <<cache, due, shown>>
        BY <2>1 DEF Count
      <3>5. QED
        BY <2>2, <3>2, <3>3, <3>4
    <2>4. [fill[f] EXCEPT !.left = @ \ {e}, !.board[e] = new] \in Fill
      BY <1>2, <2>2, <2>3 DEF Fill, Board
    <2>5. QED
      BY <1>5, <2>3, <2>4
  <1>12. CASE SetCache(f)
    <2>1. [board |-> fill[f].board, stale |-> fill[f].stale] \in CacheEntry
          /\ [fill[f] EXCEPT !.at = "answer"] \in Fill
      BY <1>2 DEF Fill, CacheEntry
    <2>2. fill' \in [Fills -> Fill] /\ cache' \in CacheEntry /\ UNCHANGED <<due, shown>>
      BY <1>4, <1>12, <2>1 DEF SetCache
    <2>3. QED
      BY <1>1, <2>2 DEF ITypes, TypeOK, JobInv, RecordsInPast
  <1>13. CASE BoardArrives(f)
    <2> DEFINE b == [board |-> fill[f].board, stale |-> fill[f].stale]
    <2>1. b \in Shown /\ IdleFill(fill[f].for) \in Fill
      BY <1>2, <1>3 DEF Fill, Shown
    <2>2. fill' \in [Fills -> Fill] /\ UNCHANGED <<cache, due>>
          /\ shown' = [shown EXCEPT ![fill[f].for] = b]
      BY <1>4, <1>13, <2>1 DEF BoardArrives
    <2> HIDE DEF b
    <2>3. DOMAIN shown' = Managers /\ \A m \in Managers : shown'[m] = NONE \/ shown'[m] \in Shown
      BY <2>1, <2>2 DEF ITypes, TypeOK
    <2>4. QED
      BY <1>1, <2>2, <2>3 DEF ITypes, TypeOK, JobInv, RecordsInPast
  <1>14. CASE BoardFails(f)
    <2>1. IdleFill(fill[f].for) \in Fill
      BY <1>2, <1>3 DEF Fill
    <2>2. fill' \in [Fills -> Fill] /\ UNCHANGED <<cache, due>>
      BY <1>4, <1>14, <2>1 DEF BoardFails
    <2>3. PICK pages : Behind(pages)
      BY <1>14 DEF BoardFails
    <2>4. DOMAIN shown' = Managers /\ \A m \in Managers : shown'[m] = NONE \/ shown'[m] \in Shown
      BY <2>3, BehindTypes
    <2>5. QED
      BY <1>1, <2>2, <2>4 DEF ITypes, TypeOK, JobInv, RecordsInPast
  <1>15. QED
    BY <1>6, <1>7, <1>8, <1>9, <1>10, <1>11, <1>12, <1>13, <1>14 DEF Look

LEMMA HandleCases ==
  ASSUME NEW t \in Handlers, Handle(t)
  PROVE  \/ Read(t) \/ Write(t) \/ Publish(t) \/ InsertForm(t) \/ WriteDecision(t) \/ Fail(t)
  BY DEF Handle, Read, Write

LEMMA TypesStep == ITypes /\ [Next]_vars => ITypes'
  <1> SUFFICES ASSUME ITypes, [Next]_vars PROVE ITypes'
    OBVIOUS
  <1>1. ASSUME NEW t \in Handlers, Ask(t) \/ Handle(t) PROVE ITypes'
    BY <1>1, HandleCases, TypesAsk, TypesRead, TypesWrite, TypesPublish, TypesForms, TypesFail
  <1>2. ASSUME NEW f \in Fills, Look(f) PROVE ITypes'
    BY <1>2, TypesLook
  <1>3. CASE UNCHANGED vars
    BY <1>3 DEF vars, ITypes, TypeOK, JobInv, RecordsInPast
  <1>4. QED
    BY <1>1, <1>2, <1>3, TypesMishap DEF Next

\* Every variable keeps its type: no request is numbered past the last, no break
\* belongs to nobody.
THEOREM TypeCorrect == Spec => []TypeOK
  <1>1. ITypes => TypeOK
    BY DEF ITypes
  <1>2. QED
    BY TypesInit, TypesStep, <1>1, PTL DEF Spec

----------------------------------------------------------------------------
(***************************************************************************)
(* Leave blocks clock-ins.                                                 *)
(***************************************************************************)
Checked == {"record", "insert", "update"}

ILeave == PassedBefore /\ LeaveBlocks

\* What happens to the clock-ins that have passed the check, while no leave is approved.
LEMMA LeaveKept ==
  ASSUME ITypes, ILeave, UNCHANGED <<forms, leaveSince>>,
         \A u \in Handlers : job'[u].op = "in" /\ job'[u].at \in Checked =>
            \/ job[u].op = "in" /\ job[u].at \in Checked /\ job'[u].n = job[u].n
            \/ ~OnLeave(UserOf[u]),
         \A e \in Employees :
            \/ record'[e].in = record[e].in
            \/ \E u \in Handlers : /\ UserOf[u] = e /\ record'[e].in = job[u].n
                              /\ job[u].op = "in" /\ job[u].at \in Checked
  PROVE  ILeave'
  <1>1. \A e : OnLeave(e)' <=> OnLeave(e)
    BY DEF OnLeave
  <1>2. PassedBefore'
    BY <1>1 DEF PassedBefore, Checked, ILeave
  <1>3. ASSUME NEW e \in Employees, OnLeave(e)' PROVE record'[e].in <= leaveSince'[e]
    <2>1. OnLeave(e) /\ leaveSince' = leaveSince
      BY <1>1, <1>3
    <2>2. CASE record'[e].in = record[e].in
      BY <2>1, <2>2 DEF ILeave, LeaveBlocks
    <2>3. CASE \E u \in Handlers : /\ UserOf[u] = e /\ record'[e].in = job[u].n
                              /\ job[u].op = "in" /\ job[u].at \in Checked
      BY <2>1, <2>3 DEF ILeave, PassedBefore, Checked
    <2>4. QED
      BY <2>2, <2>3
  <1>4. QED
    BY <1>2, <1>3 DEF ILeave, LeaveBlocks

LEMMA LeaveDecision ==
  ASSUME ITypes, ILeave, NEW t \in Handlers, WriteDecision(t) PROVE ILeave'
  <1> DEFINE i == job[t].target
             a == forms[i].by
  <1>1. /\ job' = [job EXCEPT ![t] = Idle] /\ UNCHANGED <<record, reqs>>
        /\ forms' = [forms EXCEPT ![i].status = job[t].verdict]
        /\ i \in DOMAIN forms /\ forms \in Seq(Form) /\ job \in [Handlers -> Job]
    BY DEF WriteDecision, Step, dayState, ITypes, JobInv, TypeOK
  <1>2. a \in Employees /\ forms[i] \in Form
    <2>1. forms[i] \in Form
      BY <1>1
    <2>2. QED
      BY <2>1 DEF Form
  <1>3. ASSUME NEW e \in Employees, OnLeave(e)'
        PROVE  \/ OnLeave(e) /\ leaveSince'[e] = leaveSince[e]
               \/ leaveSince'[e] = reqs
    <2>1. leaveSince \in [Employees -> Times]
      BY DEF ITypes, TypeOK
    <2>2. /\ leaveSince'[e] = leaveSince[e] \/ leaveSince'[e] = reqs
      BY <2>1 DEF WriteDecision
    <2>3. CASE OnLeave(e)
      BY <2>2, <2>3
    <2>4. CASE ~OnLeave(e)
      <3>1. PICK k \in DOMAIN forms' : forms'[k] = [kind |-> "leave", by |-> e,
                                                    status |-> "approved"]
        BY <1>3 DEF OnLeave
      <3>2. DOMAIN forms' = DOMAIN forms
        BY <1>1
      <3>3. k = i
        BY <1>1, <2>4, <3>1, <3>2 DEF OnLeave
      <3>4. forms'[i] = [forms[i] EXCEPT !.status = job[t].verdict]
        BY <1>1
      <3>5. forms[i].by = e /\ forms[i].kind = "leave" /\ job[t].verdict = "approved"
        BY <1>2, <3>1, <3>3, <3>4 DEF Form
      <3>6. leaveSince' = [leaveSince EXCEPT ![e] = reqs]
        BY <2>4, <3>5 DEF WriteDecision
      <3>7. QED
        BY <2>1, <3>6
    <2>5. QED
      BY <2>3, <2>4
  <1>4. ASSUME NEW e \in Employees, OnLeave(e)' PROVE record'[e].in <= leaveSince'[e]
    BY <1>1, <1>3, <1>4 DEF ILeave, LeaveBlocks, ITypes, RecordsInPast
  <1>5. ASSUME NEW u \in Handlers, job'[u].op = "in", job'[u].at \in Checked, OnLeave(UserOf[u])'
        PROVE  job'[u].n <= leaveSince'[UserOf[u]]
    <2>1. u # t /\ job'[u] = job[u]
      BY <1>1, <1>5 DEF Idle
    <2>2. UserOf[u] \in Employees /\ job[u].n <= reqs
      BY <1>5, <2>1 DEF ITypes, JobInv, ClockOps
    <2>3. \/ OnLeave(UserOf[u]) /\ leaveSince'[UserOf[u]] = leaveSince[UserOf[u]]
          \/ leaveSince'[UserOf[u]] = reqs
      BY <1>3, <1>5, <2>2
    <2>4. QED
      BY <1>5, <2>1, <2>2, <2>3 DEF ILeave, PassedBefore, Checked
  <1>6. QED
    BY <1>4, <1>5 DEF ILeave, LeaveBlocks, PassedBefore, Checked

LEMMA LeaveStep == ITypes /\ ILeave /\ [Next]_vars => ILeave'
  <1> SUFFICES ASSUME ITypes, ILeave, [Next]_vars PROVE ILeave'
    OBVIOUS
  <1> USE DEF Checked
  <1>0. job \in [Handlers -> Job] /\ record \in [Employees -> Record]
    BY DEF ITypes, TypeOK
  <1>1. ASSUME NEW t \in Handlers, Ask(t) PROVE ILeave'
    <2>1. UNCHANGED <<forms, leaveSince, record>>
      BY <1>1 DEF Ask, RequestClock, RequestForm, RequestDecision, Begin, dayState
    <2>2. PICK r \in Job : Begin(t, r) /\ (r.op = "in" => r.at = "schedule")
      BY <1>1, AskStep
    <2>3. job' = [job EXCEPT ![t] = [r EXCEPT !.n = reqs + 1]]
      BY <2>2 DEF Begin
    <2>4. [r EXCEPT !.n = reqs + 1].op = "in" => [r EXCEPT !.n = reqs + 1].at = "schedule"
      BY <2>2 DEF Job
    <2>5. \A u \in Handlers : job'[u].op = "in" /\ job'[u].at \in Checked =>
             job[u].op = "in" /\ job[u].at \in Checked /\ job'[u].n = job[u].n
      BY <1>0, <2>3, <2>4
    <2>6. QED
      BY <2>1, <2>5, LeaveKept
  <1>2. ASSUME NEW t \in Handlers, Read(t) PROVE ILeave'
    <2>1. UNCHANGED <<forms, leaveSince, record>>
      BY <1>2, ReadStep DEF dayState, calendar
    <2>2. ASSUME NEW u \in Handlers, job'[u].op = "in" /\ job'[u].at \in Checked
          PROVE  \/ job[u].op = "in" /\ job[u].at \in Checked /\ job'[u].n = job[u].n
                 \/ ~OnLeave(UserOf[u])
      <3>1. CASE u # t
        BY <1>0, <1>2, <2>2, <3>1, ReadStep DEF Step
      <3>2. CASE u = t
        <4>1. PICK r \in Job : Step(t, r) /\ (r = Idle \/ (r.n = job[t].n /\ r.op = job[t].op))
          BY <1>2, ReadStep
        <4>2. job'[t] = r /\ r.op = "in" /\ r # Idle
          BY <1>0, <2>2, <3>2, <4>1 DEF Step, Idle
        <4>3. CheckCalendar(t) \/ FindRow(t)
          BY <1>2, <4>1, <4>2 DEF Read, FindOpenDay, FindRunning, CheckForm, CheckPending
        <4>4. CASE FindRow(t)
          BY <3>2, <4>1, <4>2, <4>4 DEF FindRow
        <4>5. CASE CheckCalendar(t)
          <5>1. \/ job'[t].at \in {"holiday", "leave"}
                \/ ~OnLeave(UserOf[t])
            <6>1. job'[t] # Idle /\ job[t] \in Job
              BY <1>0, <2>2, <3>2 DEF Idle
            <6>2. CASE job[t].at = "schedule"
              <7>1. Step(t, [job[t] EXCEPT !.at = "holiday", !.works = workday[UserOf[t]]])
                BY <4>5, <6>2 DEF CheckCalendar
              <7>2. [job[t] EXCEPT !.at = "holiday", !.works = workday[UserOf[t]]].at = "holiday"
                BY <6>1 DEF Job
              <7>3. QED
                BY <1>0, <7>1, <7>2 DEF Step
            <6>3. CASE job[t].at = "holiday"
              BY <1>0, <4>5, <6>1, <6>3 DEF CheckCalendar, Step, Reject, Job
            <6>4. CASE job[t].at = "leave"
              BY <1>0, <4>5, <6>1, <6>4 DEF CheckCalendar, Step, Reject, Job
            <6>5. QED
              BY <4>5, <6>2, <6>3, <6>4 DEF CheckCalendar
          <5>2. QED
            BY <2>2, <3>2, <5>1
        <4>6. QED
          BY <4>3, <4>4, <4>5
      <3>3. QED
        BY <3>1, <3>2
    <2>3. QED
      BY <2>1, <2>2, LeaveKept
  <1>3. ASSUME NEW t \in Handlers, Write(t) PROVE ILeave'
    <2>1. UNCHANGED <<forms, leaveSince>> /\ UserOf[t] \in Employees
      BY <1>3, WriteStep DEF calendar
    <2>2. ASSUME NEW u \in Handlers, job'[u].op = "in" /\ job'[u].at \in Checked
          PROVE  job[u].op = "in" /\ job[u].at \in Checked /\ job'[u].n = job[u].n
      <3>1. CASE u # t
        BY <1>0, <1>3, <2>2, <3>1, WriteStep DEF Step
      <3>2. CASE u = t
        BY <1>0, <1>3, <2>2, <3>2 DEF Write, InsertRow, WriteIn, InsertBreak, EndBreak, WriteOut,
                                      Step, Reject, Idle, Job
      <3>3. QED
        BY <3>1, <3>2
    <2>3. ASSUME NEW e \in Employees
          PROVE  \/ record'[e].in = record[e].in
                 \/ \E u \in Handlers : /\ UserOf[u] = e /\ record'[e].in = job[u].n
                                   /\ job[u].op = "in" /\ job[u].at \in Checked
      <3>1. record[e] \in Record
        BY <1>0
      <3>2. CASE WriteIn(t)
        BY <1>0, <2>1, <3>1, <3>2 DEF WriteIn, Record
      <3>3. CASE ~WriteIn(t)
        BY <1>0, <1>3, <2>1, <3>1, <3>3 DEF Write, InsertRow, InsertBreak, EndBreak, WriteOut, Record
      <3>4. QED
        BY <3>2, <3>3
    <2>4. QED
      BY <2>1, <2>2, <2>3, LeaveKept
  <1>4. ASSUME NEW t \in Handlers, Publish(t) \/ Fail(t) PROVE ILeave'
    <2>1. UNCHANGED <<forms, leaveSince, record>> /\ job' = [job EXCEPT ![t] = Idle]
      BY <1>4 DEF Publish, Fail, Step, dayState, calendar
    <2>2. QED
      BY <1>0, <2>1, LeaveKept DEF Idle
  <1>5. ASSUME NEW t \in Handlers, InsertForm(t) PROVE ILeave'
    <2>1. /\ UNCHANGED <<leaveSince, record>> /\ job' = [job EXCEPT ![t] = Idle]
          /\ forms' = Append(forms, [kind |-> job[t].op, by |-> UserOf[t], status |-> "pending"])
          /\ forms \in Seq(Form)
      BY <1>5 DEF InsertForm, Step, dayState, ITypes, TypeOK
    <2>2. ASSUME NEW e, OnLeave(e)' PROVE OnLeave(e)
      <3>1. PICK k \in DOMAIN forms' : forms'[k] = [kind |-> "leave", by |-> e,
                                                    status |-> "approved"]
        BY <2>2 DEF OnLeave
      <3>2. k \in DOMAIN forms /\ forms'[k] = forms[k]
        BY <2>1, <3>1
      <3>3. QED
        BY <3>1, <3>2 DEF OnLeave
    <2>3. PassedBefore' /\ LeaveBlocks'
      BY <1>0, <2>1, <2>2 DEF ILeave, PassedBefore, LeaveBlocks, Idle
    <2>4. QED
      BY <2>3 DEF ILeave
  <1>6. ASSUME NEW f \in Fills, Look(f) PROVE ILeave'
    BY <1>6, LookLeaves, LeaveKept
  <1>7. ASSUME \/ SetHoliday \/ (\E e \in Employees : SetSchedule(e)) \/ Restart \/ Expire
               \/ UNCHANGED vars
        PROVE  ILeave'
    <2>1. /\ UNCHANGED <<forms, leaveSince, record>>
          /\ UNCHANGED job \/ job' = [t \in Handlers |-> Idle]
      BY <1>7 DEF SetHoliday, SetSchedule, Restart, Expire, dayState, calendar, vars
    <2>2. QED
      BY <2>1, LeaveKept DEF Idle
  <1>8. ASSUME NEW t \in Handlers, Handle(t) PROVE ILeave'
    BY <1>2, <1>3, <1>4, <1>5, <1>8, HandleCases, LeaveDecision
  <1>9. QED
    BY <1>1, <1>6, <1>7, <1>8 DEF Next

\* Leave that was approved blocks every clock-in that is asked for after the approval,
\* whatever the other handlers of the employee and of the managers do in between
\* (Attendance.service.ts:10, Leave.service.ts setStatus).
THEOREM LeaveBlocksClockIns == Spec => []LeaveBlocks
  <1>1. Init => ILeave
    BY DEF Init, ILeave, PassedBefore, LeaveBlocks, OnLeave, Idle
  <1>2. ILeave => LeaveBlocks
    BY DEF ILeave
  <1>3. QED
    BY TypesInit, TypesStep, LeaveStep, <1>1, <1>2, PTL DEF Spec

----------------------------------------------------------------------------
(***************************************************************************)
(* The handlers implement the indivisible day.                             *)
(***************************************************************************)
IDay == DayInv /\ HandlerInv /\ OverlapIsRaced /\ CameFirst

SameDay(e) == /\ record'[e].in = record[e].in /\ record'[e].out = record[e].out
              /\ breaks'[e] = breaks[e]

\* Where nothing is written nothing is known less.
LEMMA SameKnowledge ==
  ASSUME NEW u \in Handlers, Knows(u), job'[u] = job[u], SameDay(UserOf[u])
  PROVE  Knows(u)'
  <1>1. Running(UserOf[u])' = Running(UserOf[u])
    BY DEF SameDay, Running
  <1>2. QED
    BY <1>1 DEF Knows, SameDay

\* A step that writes no day, or only the day of the one handler of an employee that may,
\* leaves the others what they know.
LEMMA OthersKnow ==
  ASSUME ITypes, HandlerInv, OverlapIsRaced, NEW t \in Handlers,
         \A u \in Handlers : u # t => job'[u] = job[u],
         \A e \in Employees : ~raced'[e] => ~raced[e],
         \A e \in Employees : SameDay(e) \/ (e = UserOf[t] /\ job[t].op \in ClockOps)
  PROVE  \A u \in Handlers : u # t /\ Alone(u)' => Knows(u)'
  <1>1. ASSUME NEW u \in Handlers, u # t, Alone(u)' PROVE Knows(u)'
    <2>1. UserOf[u] \in Employees /\ ~raced[UserOf[u]] /\ Alone(u)
      BY <1>1 DEF Alone
    <2>2. CASE job[u].op \in ClockOps
      <3>1. ~(UserOf[u] = UserOf[t] /\ job[t].op \in ClockOps)
        BY <1>1, <2>1, <2>2 DEF OverlapIsRaced
      <3>2. SameDay(UserOf[u])
        BY <2>1, <3>1
      <3>3. QED
        BY <1>1, <2>1, <3>2, SameKnowledge DEF HandlerInv
    <2>3. CASE job[u].op \notin ClockOps
      <3>1. job'[u].op \notin ClockOps
        BY <1>1, <2>3
      <3>2. QED
        BY <3>1 DEF Knows, ClockOps
    <2>4. QED
      BY <2>2, <2>3
  <1>2. QED
    BY <1>1

\* Only a request that begins can overlap another.
LEMMA OverlapKept ==
  ASSUME OverlapIsRaced, UNCHANGED raced,
         \A u \in Handlers : job'[u].op = job[u].op \/ job'[u].op = "idle"
  PROVE  OverlapIsRaced'
  <1>1. \A u \in Handlers : job'[u].op \in ClockOps => job[u].op \in ClockOps
    BY DEF ClockOps
  <1>2. QED
    BY <1>1 DEF OverlapIsRaced

LEMMA SamePhase ==
  ASSUME NEW e, SameDay(e) PROVE PhaseOf(e)' = PhaseOf(e)
  <1>1. Running(e)' = Running(e)
    BY DEF SameDay, Running
  <1>2. QED
    BY <1>1 DEF PhaseOf, SameDay

\* Steps that leave every day as it is stutter.
LEMMA Stutters ==
  ASSUME DayInv, \A e \in Employees : SameDay(e),
         \A e \in Employees : ~raced'[e] => ~raced[e]
  PROVE  DayInv' /\ UNCHANGED Day!dayVars
  <1>1. \A e \in Employees : /\ Running(e)' = Running(e) /\ PhaseOf(e)' = PhaseOf(e)
                            /\ record'[e].in = record[e].in /\ record'[e].out = record[e].out
    BY SamePhase DEF SameDay, Running
  <1>2. DayInv'
    BY <1>1 DEF DayInv
  <1>3. UNCHANGED <<[e \in Employees |-> PhaseOf(e)], [e \in Employees |-> record[e].in],
                    [e \in Employees |-> record[e].out]>>
    BY <1>1
  <1>4. QED
    BY <1>2, <1>3 DEF Day!dayVars

LEMMA DayInitial == ITypes /\ Init => IDay /\ Day!DayInit
  <1> SUFFICES ASSUME ITypes, Init PROVE IDay /\ Day!DayInit
    OBVIOUS
  <1>1. \A e \in Employees : record[e].in = 0 /\ record[e].out = 0 /\ Running(e) = {}
    BY DEF Init, Running
  <1>2. \A e \in Employees : PhaseOf(e) = "new"
    BY <1>1 DEF PhaseOf
  <1>3. DayInv
    BY <1>1 DEF DayInv
  <1>4. HandlerInv /\ OverlapIsRaced /\ CameFirst
    BY <1>1 DEF Init, HandlerInv, OverlapIsRaced, CameFirst, Knows, Idle, ClockOps
  <1>5. QED
    BY <1>1, <1>2, <1>3, <1>4 DEF IDay, Day!DayInit

\* Who has come stays as long as nothing is written; what a handler has read before it
\* goes on is still so.
LEMMA CameKept ==
  ASSUME CameFirst, \A e \in Employees : SameDay(e),
         \A u \in Handlers :
            job'[u].op \in {"out", "pause", "resume"} /\ job'[u].at \in Open
            => \/ job[u].op \in {"out", "pause", "resume"} /\ job[u].at \in Open
               \/ record[UserOf[u]].in # 0
  PROVE  CameFirst'
  <1>1. \A e \in Employees : Running(e)' = Running(e) /\ record'[e].in = record[e].in
    BY DEF SameDay, Running
  <1>2. QED
    BY <1>1 DEF CameFirst

\* A write finds that its employee has come, or is the clock-in.
LEMMA CameWrite ==
  ASSUME ITypes, CameFirst, NEW t \in Handlers, Write(t)
  PROVE  /\ CameFirst'
         /\ PhaseOf(UserOf[t]) = "new" => PhaseOf(UserOf[t])' \in {"new", "working"}
         /\ PhaseOf(UserOf[t]) # "new" => PhaseOf(UserOf[t])' # "new"
         /\ PhaseOf(UserOf[t]) = "done" => PhaseOf(UserOf[t])' = "done"
  <1> DEFINE e == UserOf[t]
  <1>1. /\ e \in Employees /\ job[t].n \in 1..reqs /\ job[t].n # 0
        /\ record \in [Employees -> Record] /\ breaks \in [Employees -> SUBSET Break]
        /\ job \in [Handlers -> Job]
    BY WriteStep, AttendanceAssumption DEF ITypes, TypeOK
  <1>2. \A x \in Employees : record[x] \in Record
    BY <1>1
  <1>3. /\ \A x \in Employees : x # e => record'[x] = record[x] /\ breaks'[x] = breaks[x]
        /\ \A u \in Handlers : u # t => job'[u] = job[u]
    BY <1>1 DEF Write, InsertRow, WriteIn, InsertBreak, EndBreak, WriteOut, Step, Reject
  <1>4. job'[t].op \in {"out", "pause", "resume"} => job'[t].at = "publish"
    BY <1>1 DEF Write, InsertRow, WriteIn, InsertBreak, EndBreak, WriteOut, Step, Reject, Idle, Job
  <1>5. record[e].in # 0 => record'[e].in # 0
    BY <1>1, <1>2 DEF Write, InsertRow, WriteIn, InsertBreak, EndBreak, WriteOut, Record
  <1>6. record[e].out # 0 => record'[e].out # 0
    BY <1>1, <1>2 DEF Write, InsertRow, WriteIn, InsertBreak, EndBreak, WriteOut, Record
  <1>7. InsertBreak(t) \/ EndBreak(t) \/ WriteOut(t) => record[e].in # 0
    BY <1>1 DEF InsertBreak, EndBreak, WriteOut, CameFirst, Open
  <1>8. InsertRow(t) \/ WriteIn(t) => /\ Running(e)' = Running(e)
                                      /\ record'[e].out = record[e].out
    BY <1>1, <1>2 DEF InsertRow, WriteIn, Running, Record
  <1>9. \A x \in Employees : x # e => Running(x)' = Running(x)
    BY <1>3 DEF Running
  <1>10. CameFirst'
    <2>1. ASSUME NEW x \in Employees, record'[x].in = 0 PROVE Running(x)' = {}
      <3>1. CASE x # e
        BY <1>3, <1>9, <2>1, <3>1 DEF CameFirst
      <3>2. CASE x = e
        <4>1. record[e].in = 0 /\ (InsertRow(t) \/ WriteIn(t))
          BY <1>5, <1>7, <2>1, <3>2 DEF Write
        <4>2. QED
          BY <1>1, <1>8, <3>2, <4>1 DEF CameFirst
      <3>3. QED
        BY <3>1, <3>2
    <2>2. ASSUME NEW u \in Handlers, UserOf[u] \in Employees,
                 job'[u].op \in {"out", "pause", "resume"}, job'[u].at \in Open
          PROVE  record'[UserOf[u]].in # 0
      <3>1. u # t /\ job'[u] = job[u]
        BY <1>3, <1>4, <2>2 DEF Open
      <3>2. record[UserOf[u]].in # 0
        BY <2>2, <3>1 DEF CameFirst
      <3>3. QED
        BY <1>3, <1>5, <2>2, <3>2
    <2>3. QED
      BY <2>1, <2>2 DEF CameFirst
  <1>11. CASE InsertBreak(t) \/ EndBreak(t) \/ WriteOut(t)
    BY <1>5, <1>6, <1>7, <1>10, <1>11 DEF PhaseOf
  <1>12. CASE InsertRow(t) \/ WriteIn(t)
    <2>1. PhaseOf(e) = "new" => Running(e)' = {} /\ record'[e].out = 0
      BY <1>1, <1>8, <1>12 DEF PhaseOf, CameFirst
    <2>2. QED
      BY <1>5, <1>6, <1>10, <2>1 DEF PhaseOf
  <1>13. QED
    BY <1>11, <1>12 DEF Write

\* A request, a statement that only reads, and everything else that is not a write.
LEMMA DayAsk ==
  ASSUME ITypes, IDay, NEW t \in Handlers, Ask(t)
  PROVE  IDay' /\ UNCHANGED Day!dayVars
  <1>1. PICK r \in Job : /\ Begin(t, r) /\ [r EXCEPT !.n = reqs + 1] \in Job
                         /\ r.op \in ClockOps \cup {"leave", "overtime"} => UserOf[t] \in Employees
                         /\ r.op = "in" => r.at = "schedule"
                         /\ r.op \in {"out", "pause", "resume"} => r.at = "record"
    BY AskStep
  <1> DEFINE q == [r EXCEPT !.n = reqs + 1]
  <1>2. /\ job' = [job EXCEPT ![t] = q] /\ job \in [Handlers -> Job] /\ UNCHANGED <<record, breaks>>
    BY <1>1 DEF Begin, dayState, ITypes, TypeOK
  <1>3. q.op = r.op /\ q.at = r.at /\ q.n = reqs + 1
    BY <1>1 DEF Job
  <1> HIDE DEF q
  <1>4. \A e : SameDay(e)
    BY <1>2 DEF SameDay
  <1>5. \A e \in Employees : ~raced'[e] => ~raced[e]
    BY <1>1 DEF Begin
  <1>6. \A u \in Handlers : u # t /\ Alone(u)' => Knows(u)'
    BY <1>2, <1>4, <1>5, OthersKnow DEF IDay
  <1>7. Knows(t)'
    <2>1. job'[t] = q
      BY <1>2
    <2>2. q.op \in {"out", "pause", "resume"} => record'[UserOf[t]].in <= q.n
      <3> SUFFICES ASSUME q.op \in {"out", "pause", "resume"}
                   PROVE  record[UserOf[t]].in <= reqs + 1
        BY <1>2, <1>3
      <3>1. UserOf[t] \in Employees
        BY <1>1, <1>3 DEF ClockOps
      <3>2. record[UserOf[t]].in <= reqs /\ record[UserOf[t]].in \in Nat /\ reqs \in Nat
        BY <3>1, AttendanceAssumption DEF ITypes, TypeOK, RecordsInPast, Record, Times
      <3>3. QED
        BY <3>2
    <2>3. QED
      BY <1>1, <1>3, <2>1, <2>2 DEF Knows
  <1>8. OverlapIsRaced'
    <2> SUFFICES ASSUME NEW u \in Handlers, NEW v \in Handlers, u # v, UserOf[u] = UserOf[v],
                        UserOf[u] \in Employees, job'[u].op \in ClockOps,
                        job'[v].op \in ClockOps
                 PROVE  raced'[UserOf[u]]
      BY DEF OverlapIsRaced
    <2>1. job'[t] = q /\ \A w \in Handlers : w # t => job'[w] = job[w]
      BY <1>2
    <2>2. CASE u # t /\ v # t
      BY <1>5, <2>1, <2>2 DEF IDay, OverlapIsRaced
    <2>3. CASE u = t \/ v = t
      <3>1. r.op \in ClockOps /\ UserOf[t] = UserOf[u]
        BY <1>3, <2>1, <2>3
      <3>2. Clocking(UserOf[u])
        BY <2>1, <2>3 DEF Clocking
      <3>3. QED
        BY <1>1, <3>1, <3>2 DEF Begin
    <2>4. QED
      BY <2>2, <2>3
  <1>9. CameFirst'
    <2>1. \A u \in Handlers : job'[u] = IF u = t THEN q ELSE job[u]
      BY <1>2
    <2>2. q.op \in {"out", "pause", "resume"} => q.at \notin Open
      BY <1>1, <1>3 DEF Open
    <2>3. QED
      BY <1>4, <2>1, <2>2, CameKept DEF IDay
  <1>10. QED
    BY <1>4, <1>5, <1>6, <1>7, <1>8, <1>9, Stutters DEF IDay, HandlerInv

LEMMA DayRead ==
  ASSUME ITypes, IDay, NEW t \in Handlers, Read(t)
  PROVE  IDay' /\ UNCHANGED Day!dayVars
  <1> DEFINE e == UserOf[t]
  <1>1. PICK r \in Job : Step(t, r) /\ (r = Idle \/ (r.n = job[t].n /\ r.op = job[t].op))
    BY ReadStep
  <1>2. UNCHANGED <<record, breaks, raced>> /\ job \in [Handlers -> Job]
    BY ReadStep DEF dayState, calendar, ITypes, TypeOK
  <1>3. \A x : SameDay(x) /\ Running(x)' = Running(x)
    BY <1>2 DEF SameDay, Running
  <1>4. job'[t] = r /\ job[t] \in Job /\ \A u \in Handlers : u # t => job'[u] = job[u]
    BY <1>1, <1>2 DEF Step
  <1>5. \A u \in Handlers : u # t /\ Alone(u)' => Knows(u)'
    BY <1>2, <1>3, <1>4, OthersKnow DEF IDay
  <1>6. ASSUME Alone(t)' PROVE Knows(t)'
    <2>0. Knows(t) /\ UserOf[t] \in Employees /\ ~raced[UserOf[t]]
      BY <1>2, <1>6 DEF Alone, IDay, HandlerInv
    <2>1. CASE r = Idle
      BY <1>4, <2>1 DEF Knows, Idle
    <2>2. CASE r # Idle /\ job[t].op = "in"
      <3>1. r.at \in {"insert", "update"} => record[e].in = 0
        <4>1. CASE FindRow(t)
          BY <1>2, <1>4, <2>2, <4>1 DEF FindRow, Reject, Step
        <4>2. CASE CheckCalendar(t)
          <5>1. r.at \in {"holiday", "leave", "record"}
            <6>1. CASE job[t].at = "schedule"
              <7>1. Step(t, [job[t] EXCEPT !.at = "holiday", !.works = workday[e]])
                BY <4>2, <6>1 DEF CheckCalendar
              <7>2. job'[t].at = "holiday"
                BY <1>2, <1>4, <7>1 DEF Step, Job
              <7>3. QED
                BY <1>4, <7>2
            <6>2. CASE job[t].at \in {"holiday", "leave"}
              BY <1>2, <1>4, <2>2, <4>2, <6>2 DEF CheckCalendar, Step, Reject, Job
            <6>3. QED
              BY <4>2, <6>1, <6>2 DEF CheckCalendar
          <5>2. QED
            BY <5>1
        <4>3. QED
          BY <2>2, <4>1, <4>2 DEF Read, FindOpenDay, FindRunning, CheckForm, CheckPending
      <3>2. r.op = "in"
        BY <1>1, <2>2
      <3>3. QED
        BY <1>2, <1>4, <3>1, <3>2 DEF Knows
    <2>3. CASE r # Idle /\ job[t].op \in {"out", "pause", "resume"}
      <3>1. r.op = job[t].op /\ r.n = job[t].n /\ record[e].in <= job[t].n /\ e \in Employees
        BY <1>1, <2>0, <2>3 DEF Knows, ITypes, JobInv, ClockOps
      <3>2. CASE FindOpenDay(t)
        <4>1. record[e].in # 0 /\ record[e].out = 0 /\ r = [job[t] EXCEPT !.at = "running"]
          BY <1>2, <1>4, <2>3, <3>2 DEF FindOpenDay, Reject, Step
        <4>2. r.at = "running"
          BY <1>4, <4>1 DEF Job
        <4>3. QED
          BY <1>2, <1>4, <2>3, <3>1, <4>1, <4>2 DEF Knows
      <3>3. CASE FindRunning(t)
        <4>1. record[e].in # 0 /\ record[e].out = 0
          BY <2>0, <2>3, <3>3 DEF Knows, FindRunning
        <4>2. CASE job[t].op = "resume"
          <5>1. PICK b \in Running(e) : Step(t, [job[t] EXCEPT !.at = "update", !.target = b.start])
            BY <1>2, <1>4, <2>3, <3>3, <4>2 DEF FindRunning, Reject, Step
          <5>2. r.at = "update" /\ r.target = b.start
            BY <1>2, <1>4, <5>1 DEF Step, Job
          <5>3. Running(e) # {} /\ \A c \in Running(e) : c.start = r.target
            BY <2>0, <5>1, <5>2 DEF IDay, DayInv
          <5>4. QED
            BY <1>2, <1>3, <1>4, <3>1, <4>1, <4>2, <5>2, <5>3 DEF Knows
        <4>3. CASE job[t].op # "resume"
          <5>1. Running(e) = {}
            BY <1>2, <1>4, <2>3, <3>3, <4>3 DEF FindRunning, Reject, Step
          <5>2. Running(e)' = {} /\ record' = record
            BY <1>2, <1>3, <5>1
          <5>3. r.op # "resume" /\ r.op # "in"
            BY <2>3, <3>1, <4>3
          <5>4. QED
            BY <1>4, <3>1, <4>1, <5>2, <5>3 DEF Knows
        <4>4. QED
          BY <4>2, <4>3
      <3>4. QED
        BY <2>3, <3>2, <3>3 DEF Read, CheckCalendar, FindRow, CheckForm, CheckPending
    <2>4. CASE r # Idle /\ job[t].op \notin ClockOps
      BY <1>1, <1>4, <2>4 DEF Knows, ClockOps
    <2>5. QED
      BY <2>1, <2>2, <2>3, <2>4 DEF ClockOps
  <1>7. OverlapIsRaced'
    BY <1>1, <1>2, <1>4, OverlapKept DEF IDay, Idle
  <1>8. CameFirst'
    <2>1. ASSUME r.op \in {"out", "pause", "resume"}
          PROVE  \/ job[t].op \in {"out", "pause", "resume"} /\ job[t].at \in Open
                 \/ record[UserOf[t]].in # 0
      <3>1. job[t].op = r.op /\ r # Idle
        BY <1>1, <2>1 DEF Idle
      <3>2. CASE FindOpenDay(t)
        BY <1>1, <1>2, <1>4, <3>1, <3>2 DEF FindOpenDay, Reject, Step
      <3>3. CASE FindRunning(t)
        BY <3>1, <3>3 DEF FindRunning, Open
      <3>4. QED
        BY <2>1, <3>1, <3>2, <3>3 DEF Read, CheckCalendar, FindRow, CheckForm, CheckPending
    <2>2. \A u \in Handlers :
             job'[u].op \in {"out", "pause", "resume"} /\ job'[u].at \in Open
             => \/ job[u].op \in {"out", "pause", "resume"} /\ job[u].at \in Open
                \/ record[UserOf[u]].in # 0
      BY <1>4, <2>1
    <2>3. QED
      BY <1>3, <2>2, CameKept DEF IDay
  <1>9. QED
    BY <1>2, <1>3, <1>5, <1>6, <1>7, <1>8, Stutters DEF IDay, HandlerInv

\* A handler that ends, in whatever way: it writes nothing more.
LEMMA DayEnds ==
  ASSUME ITypes, IDay, UNCHANGED <<record, breaks, raced>>,
         \A u \in Handlers : job'[u] = job[u] \/ job'[u] = Idle
  PROVE  IDay' /\ UNCHANGED Day!dayVars
  <1>1. \A x : SameDay(x)
    BY DEF SameDay
  <1>2. ASSUME NEW u \in Handlers, Alone(u)' PROVE Knows(u)'
    <2>1. CASE job'[u] = job[u]
      <3>1. Knows(u)
        BY <1>2 DEF IDay, HandlerInv, Alone
      <3>2. QED
        BY <1>1, <2>1, <3>1, SameKnowledge
    <2>2. CASE job'[u] = Idle
      BY <2>2 DEF Knows, Idle
    <2>3. QED
      BY <2>1, <2>2
  <1>3. OverlapIsRaced'
    BY OverlapKept DEF IDay, Idle
  <1>4. CameFirst'
    <2>1. \A u \in Handlers :
             job'[u].op \in {"out", "pause", "resume"} /\ job'[u].at \in Open
             => job[u].op \in {"out", "pause", "resume"} /\ job[u].at \in Open
      BY DEF Idle
    <2>2. QED
      BY <1>1, <2>1, CameKept DEF IDay
  <1>5. QED
    BY <1>1, <1>2, <1>3, <1>4, Stutters DEF IDay, HandlerInv

\* What a write leaves alone, and what the phases of the others are afterwards.
LEMMA WriteFrame ==
  ASSUME ITypes, IDay, NEW t \in Handlers, Write(t)
  PROVE  /\ \A x \in Employees : x # UserOf[t] =>
               SameDay(x) /\ PhaseOf(x)' = PhaseOf(x) /\ record'[x] = record[x]
         /\ \A u \in Handlers : u # t /\ Alone(u)' => Knows(u)'
         /\ UNCHANGED raced /\ OverlapIsRaced' /\ CameFirst'
         /\ \A x \in Employees : x # UserOf[t] /\ ~raced'[x] =>
               /\ record'[x].in = 0 => record'[x].out = 0
               /\ record'[x].in = 0 \/ record'[x].out # 0 => Running(x)' = {}
               /\ \A b, c \in Running(x)' : b = c
  <1>1. \A x \in Employees : x # UserOf[t] => SameDay(x) /\ record'[x] = record[x]
    BY DEF Write, InsertRow, WriteIn, InsertBreak, EndBreak, WriteOut, SameDay, ITypes, TypeOK
  <1>2. \A x \in Employees : x # UserOf[t] => PhaseOf(x)' = PhaseOf(x) /\ Running(x)' = Running(x)
    BY <1>1, SamePhase DEF SameDay, Running
  <1>3. UNCHANGED raced
    BY WriteStep DEF calendar
  <1>4. PICK r \in Job : Step(t, r) /\ (r = Idle \/ r.op = job[t].op)
    BY WriteStep
  <1>5. job'[t] = r /\ \A u \in Handlers : u # t => job'[u] = job[u]
    BY <1>4 DEF Step, ITypes, TypeOK
  <1>6. job[t].op \in ClockOps
    BY DEF Write, InsertRow, WriteIn, InsertBreak, EndBreak, WriteOut, ClockOps
  <1>7. \A u \in Handlers : u # t /\ Alone(u)' => Knows(u)'
    BY <1>1, <1>3, <1>5, <1>6, OthersKnow DEF IDay
  <1>8. OverlapIsRaced'
    BY <1>3, <1>4, <1>5, OverlapKept DEF IDay, Idle
  <1>9. CameFirst'
    BY CameWrite DEF IDay
  <1>10. QED
    BY <1>1, <1>2, <1>3, <1>7, <1>8, <1>9 DEF IDay, DayInv, SameDay

\* The state of one employee's day after a write decides for all of them.
LEMMA WriteDay ==
  ASSUME ITypes, IDay, NEW t \in Handlers, Write(t), Knows(t)',
         record'[UserOf[t]].in = 0 => record'[UserOf[t]].out = 0,
         record'[UserOf[t]].in = 0 \/ record'[UserOf[t]].out # 0 => Running(UserOf[t])' = {},
         \A b, c \in Running(UserOf[t])' : b = c
  PROVE  IDay'
  BY WriteFrame DEF IDay, DayInv, HandlerInv

\* After an overlap a write may record again on the day of its employee, and does nothing
\* to the others.
LEMMA DayRaced ==
  ASSUME ITypes, IDay, NEW t \in Handlers, Write(t), raced[UserOf[t]]
  PROVE  IDay' /\ OnlyRaced
  <1>1. UserOf[t] \in Employees
    BY WriteStep
  <1>2. ~Alone(t)'
    BY WriteFrame DEF Alone
  <1>3. IDay'
    BY <1>2, WriteFrame DEF IDay, DayInv, HandlerInv
  <1>4. OnlyRaced
    BY <1>1, WriteFrame, CameWrite DEF OnlyRaced, IDay
  <1>5. QED
    BY <1>3, <1>4

LEMMA DayWriteIn ==
  ASSUME ITypes, IDay, NEW t \in Handlers, WriteIn(t), ~raced[UserOf[t]]
  PROVE  IDay' /\ Day!Arrive(UserOf[t])
  <1> DEFINE e == UserOf[t]
  <1>0. Knows(t)
    BY WriteStep DEF IDay, HandlerInv, Alone, Write
  <1>1. Write(t) /\ e \in Employees /\ job[t].n \in 1..reqs
    BY WriteStep DEF Write
  <1>2. /\ record \in [Employees -> Record] /\ job[t] \in Job /\ UNCHANGED breaks
        /\ job' = [job EXCEPT ![t].at = "publish"]
        /\ record' = [record EXCEPT ![e].in = job[t].n]
    BY DEF WriteIn, Step, ITypes, TypeOK
  <1>3. record[e].in = 0 /\ record[e].out = 0 /\ Running(e) = {} /\ Running(e)' = {}
    <2>1. record[e].in = 0
      BY <1>0 DEF WriteIn, Knows
    <2>2. QED
      BY <1>1, <1>2, <2>1 DEF IDay, DayInv, Running
  <1>4. /\ record[e] \in Record /\ record'[e] = [record[e] EXCEPT !.in = job[t].n]
        /\ job[t].n \in 1..MaxReq
    <2>1. job[t].n \in 1..MaxReq
      BY <1>1, AttendanceAssumption DEF ITypes, TypeOK
    <2>2. QED
      BY <1>1, <1>2, <2>1
  <1>5. record'[e].in = job[t].n /\ record'[e].out = 0 /\ job[t].n # 0
    BY <1>1, <1>3, <1>4, AttendanceAssumption DEF Record
  <1>6. PhaseOf(e) = "new" /\ PhaseOf(e)' = "working"
    BY <1>3, <1>5 DEF PhaseOf
  <1>7. Knows(t)'
    <2>1. job'[t].at = "publish" /\ job'[t].op = "in"
      BY <1>2 DEF WriteIn, Job, ITypes, TypeOK
    <2>2. QED
      BY <2>1 DEF Knows
  <1>8. IDay'
    BY <1>1, <1>3, <1>5, <1>7, WriteDay
  <1>9. \A x \in Employees : x # e => /\ PhaseOf(x)' = PhaseOf(x) /\ record'[x].in = record[x].in
                                     /\ record'[x].out = record[x].out
    BY <1>1, WriteFrame DEF SameDay
  <1> DEFINE phase == [x \in Employees |-> PhaseOf(x)]
             ins == [x \in Employees |-> record[x].in]
             outs == [x \in Employees |-> record[x].out]
  <1>10. /\ phase[e] = "new" /\ phase' = [phase EXCEPT ![e] = "working"]
         /\ ins' = [ins EXCEPT ![e] = job[t].n] /\ outs' = outs
    BY <1>1, <1>3, <1>5, <1>6, <1>9
  <1>11. QED
    BY <1>4, <1>8, <1>10 DEF Day!Arrive

LEMMA DayWriteOut ==
  ASSUME ITypes, IDay, NEW t \in Handlers, WriteOut(t), ~raced[UserOf[t]]
  PROVE  IDay' /\ Day!Leave(UserOf[t])
  <1> DEFINE e == UserOf[t]
  <1>0. Knows(t)
    BY WriteStep DEF IDay, HandlerInv, Alone, Write
  <1>1. Write(t) /\ e \in Employees /\ job[t].n \in 1..reqs
    BY WriteStep DEF Write
  <1>2. /\ record \in [Employees -> Record] /\ job[t] \in Job /\ UNCHANGED breaks
        /\ job' = [job EXCEPT ![t].at = "publish"]
        /\ record' = [record EXCEPT ![e].out = job[t].n]
        /\ job[t].op = "out"
    BY DEF WriteOut, Step, ITypes, TypeOK
  <1>3. /\ record[e].in # 0 /\ record[e].out = 0 /\ record[e].in <= job[t].n
        /\ Running(e) = {} /\ Running(e)' = {}
    <2>1. record[e].in # 0 /\ record[e].out = 0 /\ record[e].in <= job[t].n /\ Running(e) = {}
      BY <1>0 DEF WriteOut, Knows
    <2>2. QED
      BY <1>2, <2>1 DEF Running
  <1>4. /\ record[e] \in Record /\ record'[e] = [record[e] EXCEPT !.out = job[t].n]
        /\ job[t].n \in 1..MaxReq
    <2>1. job[t].n \in 1..MaxReq
      BY <1>1, AttendanceAssumption DEF ITypes, TypeOK
    <2>2. QED
      BY <1>1, <1>2, <2>1
  <1>5. record'[e].out = job[t].n /\ record'[e].in = record[e].in /\ job[t].n # 0
    BY <1>1, <1>3, <1>4, AttendanceAssumption DEF Record
  <1>6. PhaseOf(e) = "working" /\ PhaseOf(e)' = "done"
    BY <1>3, <1>5 DEF PhaseOf
  <1>7. Knows(t)'
    <2>1. job'[t].at = "publish" /\ job'[t].op = "out" /\ job'[t].n = job[t].n
      BY <1>2 DEF Job, ITypes, TypeOK
    <2>2. QED
      BY <1>3, <1>5, <2>1 DEF Knows
  <1>8. IDay'
    BY <1>1, <1>3, <1>5, <1>7, WriteDay
  <1>9. \A x \in Employees : x # e => /\ PhaseOf(x)' = PhaseOf(x) /\ record'[x].in = record[x].in
                                     /\ record'[x].out = record[x].out
    BY <1>1, WriteFrame DEF SameDay
  <1> DEFINE phase == [x \in Employees |-> PhaseOf(x)]
             ins == [x \in Employees |-> record[x].in]
             outs == [x \in Employees |-> record[x].out]
  <1>10. /\ phase[e] = "working" /\ phase' = [phase EXCEPT ![e] = "done"]
         /\ ins' = ins /\ outs' = [outs EXCEPT ![e] = job[t].n] /\ job[t].n >= ins[e]
    BY <1>1, <1>3, <1>4, <1>5, <1>6, <1>9 DEF Record, Times
  <1>11. QED
    BY <1>4, <1>8, <1>10 DEF Day!Leave

LEMMA DayInsertBreak ==
  ASSUME ITypes, IDay, NEW t \in Handlers, InsertBreak(t), ~raced[UserOf[t]]
  PROVE  IDay' /\ Day!Pause(UserOf[t])
  <1> DEFINE e == UserOf[t]
             new == [start |-> job[t].n, end |-> 0]
  <1>0. Knows(t)
    BY WriteStep DEF IDay, HandlerInv, Alone, Write
  <1>1. Write(t) /\ e \in Employees
    BY WriteStep DEF Write
  <1>2. /\ breaks \in [Employees -> SUBSET Break] /\ job[t] \in Job /\ UNCHANGED record
        /\ job' = [job EXCEPT ![t].at = "publish"]
        /\ breaks' = [breaks EXCEPT ![e] = @ \cup {new}]
        /\ job[t].op = "pause"
    BY DEF InsertBreak, Step, ITypes, TypeOK
  <1>3. /\ record[e].in # 0 /\ record[e].out = 0 /\ record[e].in <= job[t].n
        /\ Running(e) = {}
    BY <1>0 DEF InsertBreak, Knows
  <1>4. Running(e)' = {new}
    BY <1>1, <1>2, <1>3 DEF Running
  <1>5. PhaseOf(e) = "working" /\ PhaseOf(e)' = "break"
    BY <1>2, <1>3, <1>4 DEF PhaseOf
  <1>6. Knows(t)'
    <2>1. job'[t].at = "publish" /\ job'[t].op = "pause" /\ job'[t].n = job[t].n
      BY <1>2 DEF Job, ITypes, TypeOK
    <2>2. QED
      BY <1>2, <1>3, <2>1 DEF Knows
  <1> HIDE DEF new
  <1>7. IDay'
    BY <1>1, <1>2, <1>3, <1>4, <1>6, WriteDay
  <1>8. \A x \in Employees : x # e => PhaseOf(x)' = PhaseOf(x)
    BY <1>1, WriteFrame
  <1> DEFINE phase == [x \in Employees |-> PhaseOf(x)]
  <1>9. phase[e] = "working" /\ phase' = [phase EXCEPT ![e] = "break"]
    BY <1>1, <1>5, <1>8
  <1>10. QED
    BY <1>2, <1>7, <1>9 DEF Day!Pause

LEMMA DayEndBreak ==
  ASSUME ITypes, IDay, NEW t \in Handlers, EndBreak(t), ~raced[UserOf[t]]
  PROVE  IDay' /\ Day!Resume(UserOf[t])
  <1> DEFINE e == UserOf[t]
             Ended(b) == IF b.start = job[t].target THEN [b EXCEPT !.end = job[t].n] ELSE b
  <1>0. Knows(t)
    BY WriteStep DEF IDay, HandlerInv, Alone, Write
  <1>1. Write(t) /\ e \in Employees /\ job[t].n \in 1..reqs /\ reqs \in Nat
    BY WriteStep, AttendanceAssumption DEF Write, ITypes, TypeOK
  <1>2. /\ breaks \in [Employees -> SUBSET Break] /\ job[t] \in Job /\ UNCHANGED record
        /\ job' = [job EXCEPT ![t].at = "publish"]
        /\ breaks' = [breaks EXCEPT ![e] = {Ended(b) : b \in breaks[e]}]
        /\ job[t].op = "resume"
    BY DEF EndBreak, Step, ITypes, TypeOK
  <1>3. /\ record[e].in # 0 /\ record[e].out = 0 /\ record[e].in <= job[t].n
        /\ Running(e) # {} /\ \A b \in Running(e) : b.start = job[t].target
    BY <1>0 DEF EndBreak, Knows
  <1>4. Running(e)' = {}
    <2>1. ASSUME NEW b \in breaks[e] PROVE Ended(b).end # 0
      <3>1. b \in Break
        BY <1>1, <1>2
      <3>2. CASE b.end = 0
        <4>1. b.start = job[t].target
          BY <1>3, <2>1, <3>2 DEF Running
        <4>2. QED
          BY <1>1, <3>1, <4>1 DEF Break
      <3>3. CASE b.end # 0
        BY <1>1, <3>1, <3>3 DEF Break
      <3>4. QED
        BY <3>2, <3>3
    <2> HIDE DEF Ended
    <2>2. breaks'[e] = {Ended(b) : b \in breaks[e]}
      BY <1>1, <1>2
    <2>3. QED
      BY <2>1, <2>2 DEF Running
  <1>5. PhaseOf(e) = "break" /\ PhaseOf(e)' = "working"
    BY <1>2, <1>3, <1>4 DEF PhaseOf
  <1>6. Knows(t)'
    <2>1. job'[t].at = "publish" /\ job'[t].op = "resume" /\ job'[t].n = job[t].n
      BY <1>2 DEF Job, ITypes, TypeOK
    <2>2. QED
      BY <1>2, <1>3, <2>1 DEF Knows
  <1>7. IDay'
    BY <1>1, <1>2, <1>3, <1>4, <1>6, WriteDay
  <1>8. \A x \in Employees : x # e => PhaseOf(x)' = PhaseOf(x)
    BY <1>1, WriteFrame
  <1> DEFINE phase == [x \in Employees |-> PhaseOf(x)]
  <1>9. phase[e] = "break" /\ phase' = [phase EXCEPT ![e] = "working"]
    BY <1>1, <1>5, <1>8
  <1>10. QED
    BY <1>2, <1>7, <1>9 DEF Day!Resume

LEMMA DayInsertRow ==
  ASSUME ITypes, IDay, NEW t \in Handlers, InsertRow(t), ~raced[UserOf[t]]
  PROVE  IDay' /\ UNCHANGED Day!dayVars
  <1> DEFINE e == UserOf[t]
  <1>0. Knows(t)
    BY WriteStep DEF IDay, HandlerInv, Alone, Write
  <1>1. Write(t) /\ e \in Employees
    BY WriteStep DEF Write
  <1>2. record \in [Employees -> Record] /\ record[e] \in Record /\ job[t] \in Job
    BY <1>1 DEF ITypes, TypeOK
  <1>3. UNCHANGED breaks /\ (UNCHANGED record \/ record' = [record EXCEPT ![e].row = TRUE])
    BY DEF InsertRow
  <1>4. \A x \in Employees : SameDay(x)
    BY <1>2, <1>3 DEF SameDay, Record
  <1>5. record[e].in = 0
    BY <1>0 DEF InsertRow, Knows
  <1>6. Knows(t)'
    <2>1. record'[e].in = 0
      BY <1>1, <1>4, <1>5 DEF SameDay
    <2>2. job'[t] = Idle \/ job'[t].op = "in"
      BY <1>2 DEF InsertRow, Reject, Step, Job, ITypes, TypeOK
    <2>3. QED
      BY <2>1, <2>2 DEF Knows, Idle
  <1>7. /\ \A u \in Handlers : u # t /\ Alone(u)' => Knows(u)'
        /\ UNCHANGED raced /\ OverlapIsRaced' /\ CameFirst'
    BY <1>1, WriteFrame
  <1>8. QED
    BY <1>4, <1>6, <1>7, Stutters DEF IDay, HandlerInv

LEMMA DayStep ==
  ASSUME ITypes, IDay, [Next]_vars PROVE IDay' /\ [Day!DayNext \/ OnlyRaced]_(Day!dayVars)
  <1>1. ASSUME NEW t \in Handlers, Handle(t)
        PROVE  IDay' /\ [Day!DayNext \/ OnlyRaced]_(Day!dayVars)
    <2>1. CASE Write(t) /\ ~raced[UserOf[t]]
      <3>1. UserOf[t] \in Employees
        BY <2>1, WriteStep
      <3>2. QED
        BY <2>1, <3>1, DayInsertRow, DayWriteIn, DayInsertBreak, DayEndBreak, DayWriteOut
        DEF Write, Day!DayNext
    <2>2. CASE Write(t) /\ raced[UserOf[t]]
      BY <2>2, DayRaced
    <2>3. CASE Publish(t) \/ InsertForm(t) \/ WriteDecision(t) \/ Fail(t)
      <3>1. UNCHANGED <<record, breaks, raced>> /\ job' = [job EXCEPT ![t] = Idle]
        BY <2>3 DEF Publish, InsertForm, WriteDecision, Fail, Step, dayState, calendar
      <3>2. QED
        BY <3>1, DayEnds DEF ITypes, TypeOK
    <2>4. QED
      BY <1>1, <2>1, <2>2, <2>3, DayRead, HandleCases
  <1>2. ASSUME NEW f \in Fills, Look(f) PROVE IDay' /\ UNCHANGED Day!dayVars
    BY <1>2, LookLeaves, DayEnds
  <1>3. ASSUME \/ SetHoliday \/ (\E e \in Employees : SetSchedule(e)) \/ Restart \/ Expire
               \/ UNCHANGED vars
        PROVE  IDay' /\ UNCHANGED Day!dayVars
    <2>1. /\ UNCHANGED <<record, breaks, raced>>
          /\ UNCHANGED job \/ job' = [t \in Handlers |-> Idle]
      BY <1>3 DEF SetHoliday, SetSchedule, Restart, Expire, dayState, calendar, vars
    <2>2. QED
      BY <2>1, DayEnds
  <1>4. QED
    BY <1>1, <1>2, <1>3, DayAsk DEF Next

\* The chains of statements of Attendance.service.ts implement the indivisible day of
\* WorkDay for every employee whose clock and break requests have not overlapped,
\* however the handlers interleave and whatever fails or restarts between two
\* statements; what an overlap does, it does to the day of that employee alone, who has
\* still come before a break and before leaving.
THEOREM ImplementsWorkDay == Spec => DayIsOrderly
  <1>1. Init => ITypes /\ IDay /\ Day!DayInit
    BY TypesInit, DayInitial
  <1>2. ITypes /\ IDay /\ [Next]_vars =>
           ITypes' /\ IDay' /\ [Day!DayNext \/ OnlyRaced]_(Day!dayVars)
    BY TypesStep, DayStep
  <1>3. QED
    BY <1>1, <1>2, PTL DEF Spec, DayIsOrderly

----------------------------------------------------------------------------
(***************************************************************************)
(* The cached dashboard and the managers' pages.                           *)
(***************************************************************************)
IBoard == FillInv /\ CacheIsTrue /\ ShownInv

\* What a dashboard says of an employee is what it was.
SameFacts(e) == /\ ClockOf(record[e])' = ClockOf(record[e])
                /\ Truth(e)' = Truth(e) /\ Absence(e)' = Absence(e)

\* Steps that change nothing of what is read and shown.
LEMMA BoardSame ==
  ASSUME ITypes, IBoard, UNCHANGED <<fill, cache, shown, due, holiday>>,
         \A e \in Employees : SameFacts(e),
         \A t \in Handlers : job[t].at = "publish" =>
            job'[t].at = "publish" /\ job'[t].op = job[t].op
  PROVE  IBoard'
  <1>1. FillInv'
    BY DEF IBoard, FillInv, RightFill, RightLine, SameFacts
  <1>2. CacheIsTrue'
    BY DEF IBoard, CacheIsTrue, RightLine, Unpublished, SameFacts
  <1>3. ShownInv'
    BY DEF IBoard, ShownInv, SameFacts
  <1>4. QED
    BY <1>1, <1>2, <1>3 DEF IBoard

LEMMA FactsRead ==
  ASSUME UNCHANGED <<record, breaks, forms, holiday, workday>>
  PROVE  \A e : SameFacts(e)
  <1>1. \A e : OnLeave(e)' = OnLeave(e) /\ Running(e)' = Running(e)
    BY DEF OnLeave, Running
  <1>2. QED
    BY <1>1 DEF SameFacts, Truth, Absence, ClockOf

\* After a change that is told to nobody everything that was read is marked.
LEMMA BoardSpoiled ==
  ASSUME ITypes, SpoilAll PROVE IBoard'
  <1>1. \A f \in Fills : fill'[f].stale \/ fill'[f].at \in {"idle", "get"}
    BY DEF SpoilAll, Spoil, ITypes, TypeOK, Fill
  <1>2. cache' = NONE \/ cache'.stale
    BY OutdatedTypes DEF SpoilAll
  <1>3. \A m \in Managers : shown'[m] = NONE \/ shown'[m].stale
    BY BehindTypes DEF SpoilAll
  <1>4. FillInv'
    BY <1>1 DEF FillInv, RightFill
  <1>5. CacheIsTrue'
    BY <1>2 DEF CacheIsTrue
  <1>6. ShownInv'
    BY <1>3 DEF ShownInv
  <1>7. QED
    BY <1>4, <1>5, <1>6 DEF IBoard

\* A write marks the dashboards under way; what is cached or shown is taken back by
\* its handler's next statement.
LEMMA BoardWrite ==
  ASSUME ITypes, IBoard, NEW t \in Handlers, Write(t), ~InsertRow(t) PROVE IBoard'
  <1> DEFINE e == UserOf[t]
  <1>1. /\ e \in Employees
        /\ UNCHANGED <<forms, holiday, workday, cache, due, shown>>
    BY WriteStep DEF calendar
  <1>2. /\ job' = [job EXCEPT ![t].at = "publish"] /\ Spoil /\ job[t].at # "publish"
        /\ job \in [Handlers -> Job]
    BY DEF Write, WriteIn, InsertBreak, EndBreak, WriteOut, Step, ITypes, TypeOK
  <1>3. /\ job'[t].at = "publish" /\ job'[t].op = job[t].op
        /\ \A u \in Handlers : job[u].at = "publish" => job'[u] = job[u]
    BY <1>2 DEF Job
  <1>4. \A x \in Employees : x # e => SameFacts(x)
    <2> SUFFICES ASSUME NEW x \in Employees, x # e PROVE SameFacts(x)
      OBVIOUS
    <2>1. record'[x] = record[x] /\ breaks'[x] = breaks[x]
      BY DEF Write, WriteIn, InsertBreak, EndBreak, WriteOut, ITypes, TypeOK
    <2>2. OnLeave(x)' = OnLeave(x) /\ Running(x)' = Running(x)
      BY <1>1, <2>1 DEF OnLeave, Running
    <2>3. QED
      BY <1>1, <2>1, <2>2 DEF SameFacts, Truth, Absence, ClockOf
  <1>5. job[t].op \notin {"in", "out"} => ClockOf(record[e])' = ClockOf(record[e])
    BY DEF Write, WriteIn, InsertBreak, EndBreak, WriteOut, ClockOf
  <1>6. FillInv'
    <2>1. \A f \in Fills : fill'[f].stale \/ fill'[f].at \in {"idle", "get"}
      BY <1>2 DEF Spoil, ITypes, TypeOK, Fill
    <2>2. QED
      BY <2>1 DEF FillInv, RightFill
  <1>7. CacheIsTrue'
    <2> SUFFICES ASSUME cache' # NONE, ~cache'.stale, NEW x \in Employees
                 PROVE  Unpublished(x)' \/ RightLine(cache.board[x], x)'
      BY <1>1 DEF CacheIsTrue
    <2>1. CASE x = e
      BY <1>3, <2>1 DEF Unpublished
    <2>2. CASE x # e
      <3>1. Unpublished(x) \/ RightLine(cache.board[x], x)
        BY <1>1 DEF IBoard, CacheIsTrue
      <3>2. Unpublished(x) => Unpublished(x)'
        BY <1>3 DEF Unpublished
      <3>3. Truth(x)' = Truth(x)
        BY <1>4, <2>2 DEF SameFacts
      <3>4. RightLine(cache.board[x], x) => RightLine(cache.board[x], x)'
        BY <1>1, <3>3 DEF RightLine
      <3>5. QED
        BY <3>1, <3>2, <3>4
    <2>3. QED
      BY <2>1, <2>2
  <1>8. ShownInv'
    <2> SUFFICES ASSUME NEW m \in Managers, shown[m] # NONE, ~shown[m].stale,
                        NEW x \in Employees, shown[m].board[x].off = "no"
                 PROVE  \/ shown[m].board[x].clock = ClockOf(record[x])'
                        \/ \E u \in Handlers : UserOf[u] = x /\ job'[u].at = "publish"
                                          /\ job'[u].op \in {"in", "out"}
                        \/ due[m] > 0
                        \/ \E f \in Fills : fill'[f].for = m /\ fill'[f].at # "idle"
      BY <1>1 DEF ShownInv
    <2>1. \/ shown[m].board[x].clock = ClockOf(record[x])
          \/ \E u \in Handlers : UserOf[u] = x /\ job[u].at = "publish"
                            /\ job[u].op \in {"in", "out"}
          \/ due[m] > 0
          \/ \E f \in Fills : fill[f].for = m /\ fill[f].at # "idle"
      BY DEF IBoard, ShownInv
    <2>2. \A f \in Fills : fill'[f].for = fill[f].for /\ fill'[f].at = fill[f].at
      BY <1>2 DEF Spoil, ITypes, TypeOK, Fill
    <2>3. CASE x = e /\ job[t].op \in {"in", "out"}
      BY <1>3, <2>3
    <2>4. CASE x # e \/ job[t].op \notin {"in", "out"}
      <3>1. ClockOf(record[x])' = ClockOf(record[x])
        BY <1>4, <1>5, <2>4 DEF SameFacts
      <3>2. QED
        BY <1>3, <2>1, <2>2, <3>1
    <2>5. QED
      BY <2>3, <2>4
  <1>9. QED
    BY <1>6, <1>7, <1>8 DEF IBoard

LEMMA BoardPublish ==
  ASSUME ITypes, IBoard, NEW t \in Handlers, Publish(t) PROVE IBoard'
  <1>1. /\ UNCHANGED <<record, breaks, forms, holiday, workday, fill>>
        /\ job' = [job EXCEPT ![t] = Idle] /\ job \in [Handlers -> Job]
        /\ due \in [Managers -> Nat]
    BY DEF Publish, Step, dayState, calendar, ITypes, TypeOK
  <1>2. PICK told \in SUBSET Managers : /\ Reach(t, told)
                                        /\ cache' = NONE \/ cache' = Outdated(cache)
    BY PublishStep
  <1>3. \A e : SameFacts(e)
    BY <1>1, FactsRead
  <1>4. FillInv'
    BY <1>1, <1>3 DEF IBoard, FillInv, RightFill, RightLine, SameFacts
  <1>5. CacheIsTrue'
    <2>1. cache' = NONE \/ cache'.stale
      BY <1>2, OutdatedTypes
    <2>2. QED
      BY <2>1 DEF CacheIsTrue
  <1>6. ShownInv'
    <2>1. CASE job[t].op \in {"in", "out"}
      <3>1. \A m \in Managers : m \in told => due'[m] > 0
        BY <1>1, <1>2, <2>1 DEF Reach
      <3>2. Behind(Managers \ told)
        BY <1>2, <2>1 DEF Reach
      <3>3. \A m \in Managers : m \notin told => shown'[m] = NONE \/ shown'[m].stale
        BY <3>2, BehindTypes
      <3>4. QED
        BY <3>1, <3>3 DEF ShownInv
    <2>2. CASE job[t].op \notin {"in", "out"}
      <3>1. /\ UNCHANGED <<due, shown>>
            /\ \A u \in Handlers : job[u].at = "publish" /\ job[u].op \in {"in", "out"}
                                       => job'[u] = job[u]
        BY <1>1, <1>2, <2>2 DEF Reach
      <3>2. QED
        BY <1>1, <1>3, <3>1 DEF IBoard, ShownInv, SameFacts
    <2>3. QED
      BY <2>1, <2>2
  <1>7. QED
    BY <1>4, <1>5, <1>6 DEF IBoard

\* A dashboard on its way: what is not read under a change is right.
LEMMA BoardLook ==
  ASSUME ITypes, IBoard, NEW f \in Fills, Look(f) PROVE IBoard'
  <1>1. UNCHANGED <<record, breaks, forms, holiday, workday, leaveSince, job, reqs>>
    BY LookLeaves
  <1>2. \A e : SameFacts(e)
    BY <1>1, FactsRead
  <1>3. \A e : /\ Absence(e)' = Absence(e) /\ ClockOf(record[e])' = ClockOf(record[e])
             /\ Truth(e)' = Truth(e)
    BY <1>2 DEF SameFacts
  <1>4. fill \in [Fills -> Fill] /\ fill[f] \in Fill
    BY DEF ITypes, TypeOK
  <1>5. ASSUME NEW r, Refill(f, r), ~r.stale => RightFill(r) PROVE FillInv'
    <2>1. \A g \in Fills : fill'[g] = IF g = f THEN r ELSE fill[g]
      BY <1>4, <1>5 DEF Refill
    <2>2. ASSUME NEW q, RightFill(q) PROVE RightFill(q)'
      <3>1. ASSUME NEW e \in Employees, RightLine(q.board[e], e) PROVE RightLine(q.board[e], e)'
        BY <1>3, <3>1 DEF RightLine
      <3>2. QED
        BY <1>1, <1>3, <2>2, <3>1 DEF RightFill
    <2>3. ASSUME NEW g \in Fills, ~fill'[g].stale PROVE RightFill(fill[g])'
      <3>1. CASE g = f
        BY <1>5, <2>1, <2>2, <2>3, <3>1
      <3>2. CASE g # f
        <4>1. fill'[g] = fill[g] /\ RightFill(fill[g])
          BY <2>1, <2>3, <3>2 DEF IBoard, FillInv
        <4>2. QED
          BY <2>2, <4>1
      <3>3. QED
        BY <3>1, <3>2
    <2>4. QED
      BY <2>3 DEF FillInv
  <1>6. UNCHANGED cache => CacheIsTrue'
    BY <1>1, <1>3 DEF IBoard, CacheIsTrue, RightLine, Unpublished
  <1>7. ASSUME NEW r, Refill(f, r), r.for = fill[f].for, r.at # "idle", UNCHANGED <<shown, due>>
        PROVE  ShownInv'
    <2>1. \A g \in Fills : fill'[g] = IF g = f THEN r ELSE fill[g]
      BY <1>4, <1>7 DEF Refill
    <2>2. \A g \in Fills : fill[g].at # "idle" => fill'[g].for = fill[g].for /\ fill'[g].at # "idle"
      BY <1>7, <2>1
    <2>3. QED
      BY <1>1, <1>3, <1>7, <2>2 DEF IBoard, ShownInv
  <1>8. fill[f].stale \/ RightFill(fill[f])
    BY DEF IBoard, FillInv
  <1>9. CASE \E m \in Managers : AskBoard(f, m)
    <2>1. PICK m \in Managers : AskBoard(f, m)
      BY <1>9
    <2> DEFINE r == [IdleFill(m) EXCEPT !.at = "get"]
    <2>2. /\ Refill(f, r) /\ r.at = "get" /\ r.for = m /\ UNCHANGED <<cache, shown>>
          /\ due' = [due EXCEPT ![m] = @ - 1] /\ fill[f].at = "idle" /\ due \in [Managers -> Nat]
      BY <2>1 DEF AskBoard, IdleFill, ITypes, TypeOK
    <2> HIDE DEF r
    <2>3. FillInv'
      BY <1>5, <2>2 DEF RightFill
    <2>4. ShownInv'
      <3>1. fill'[f].for = m /\ fill'[f].at # "idle" /\ \A g \in Fills : g # f => fill'[g] = fill[g]
        BY <1>4, <2>2 DEF Refill
      <3>2. \A x \in Managers : x # m => due'[x] = due[x]
        BY <2>2
      <3>3. \A g \in Fills : fill[g].at # "idle" => fill'[g] = fill[g]
        BY <2>2, <3>1
      <3>4. QED
        BY <1>1, <1>3, <2>2, <3>1, <3>2, <3>3 DEF IBoard, ShownInv
    <2>5. QED
      BY <1>6, <2>2, <2>3, <2>4 DEF IBoard
  <1>10. CASE GetCached(f)
    <2>1. CASE cache = NONE
      <3> DEFINE r == [IdleFill(fill[f].for) EXCEPT !.at = "read", !.todo = {"records", "absences"}]
      <3>1. /\ Refill(f, r) /\ r.at = "read" /\ r.todo = {"records", "absences"}
            /\ r.for = fill[f].for /\ UNCHANGED <<cache, due, shown>> /\ r.board = BlankBoard
        BY <1>10, <2>1 DEF GetCached, IdleFill
      <3> HIDE DEF r
      <3>2. ~r.stale => RightFill(r)
        BY <3>1 DEF RightFill, BlankBoard, BlankLine
      <3>3. QED
        BY <1>5, <1>6, <1>7, <3>1, <3>2 DEF IBoard
    <2>2. CASE cache # NONE
      <3> DEFINE r == [fill[f] EXCEPT !.at = "answer", !.board = cache.board,
                                      !.stale = cache.stale \/ AboutToInvalidate]
      <3>1. /\ Refill(f, r) /\ r.at = "answer" /\ r.board = cache.board
            /\ r.for = fill[f].for /\ UNCHANGED <<cache, due, shown>>
            /\ r.stale = (cache.stale \/ AboutToInvalidate)
        BY <1>4, <1>10, <2>2 DEF GetCached, Fill
      <3> HIDE DEF r
      <3>2. ~r.stale => RightFill(r)
        <4> SUFFICES ASSUME ~cache.stale, ~AboutToInvalidate, NEW e \in Employees,
                            cache.board[e].off = "no"
                     PROVE  cache.board[e].clock = ClockOf(record[e])
          BY <3>1 DEF RightFill
        <4>1. ~Unpublished(e)
          BY DEF Unpublished, AboutToInvalidate
        <4>2. RightLine(cache.board[e], e)
          BY <2>2, <4>1 DEF IBoard, CacheIsTrue
        <4>3. QED
          BY <4>2 DEF RightLine, Truth
      <3>3. QED
        BY <1>5, <1>6, <1>7, <3>1, <3>2 DEF IBoard
    <2>3. QED
      BY <2>1, <2>2
  <1>11. CASE ReadRecords(f)
    <2> DEFINE b == [e \in Employees |-> [fill[f].board[e] EXCEPT !.clock = ClockOf(record[e])]]
               r == [fill[f] EXCEPT !.todo = @ \ {"records"}, !.board = b]
    <2>1. Refill(f, r) /\ UNCHANGED <<cache, due, shown>> /\ fill[f].at = "read"
      BY <1>11 DEF ReadRecords
    <2>2. \A e \in Employees : /\ b[e].clock = ClockOf(record[e]) /\ b[e].off = fill[f].board[e].off
                             /\ b[e].pause = fill[f].board[e].pause
      BY <1>4 DEF Fill, Board, Line
    <2> HIDE DEF b
    <2>3. /\ r.at = "read" /\ r.todo = fill[f].todo \ {"records"} /\ r.board = b
          /\ r.for = fill[f].for /\ r.stale = fill[f].stale
      BY <1>4, <2>1 DEF Fill
    <2> HIDE DEF r
    <2>4. ~r.stale => RightFill(r)
      BY <1>8, <2>1, <2>2, <2>3 DEF RightFill
    <2>5. QED
      BY <1>5, <1>6, <1>7, <2>1, <2>3, <2>4 DEF IBoard
  <1>12. CASE ReadAbsences(f)
    <2> DEFINE b == [e \in Employees |-> [fill[f].board[e] EXCEPT !.off = Absence(e)]]
               r == [fill[f] EXCEPT !.todo = @ \ {"absences"}, !.board = b]
    <2>1. Refill(f, r) /\ UNCHANGED <<cache, due, shown>> /\ fill[f].at = "read"
      BY <1>12 DEF ReadAbsences
    <2>2. ASSUME NEW e \in Employees
          PROVE  /\ b[e].off = Absence(e) /\ b[e].clock = fill[f].board[e].clock
                 /\ b[e].pause = fill[f].board[e].pause
      <3>1. fill[f].board[e] \in Line /\ b[e] = [fill[f].board[e] EXCEPT !.off = Absence(e)]
        BY <1>4 DEF Fill, Board
      <3>2. QED
        BY <3>1 DEF Line
    <2> HIDE DEF b
    <2>3. /\ r.at = "read" /\ r.todo = fill[f].todo \ {"absences"} /\ r.board = b
          /\ r.for = fill[f].for /\ r.stale = fill[f].stale
      BY <1>4, <2>1 DEF Fill
    <2> HIDE DEF r
    <2>4. ~r.stale => RightFill(r)
      BY <1>8, <2>1, <2>2, <2>3 DEF RightFill
    <2>5. QED
      BY <1>5, <1>6, <1>7, <2>1, <2>3, <2>4 DEF IBoard
  <1>13. CASE StartCount(f)
    <2>1. fill[f].at = "read" /\ fill[f].todo = {} /\ UNCHANGED <<cache, due, shown>>
      BY <1>13 DEF StartCount
    <2>2. ~fill[f].stale => \A e \in Employees : /\ fill[f].board[e].off = Absence(e)
                                                /\ fill[f].board[e].clock = ClockOf(record[e])
                                                /\ ~fill[f].board[e].pause
      BY <1>8, <2>1 DEF RightFill
    <2>3. CASE \E e \in Employees : fill[f].board[e].off = "holiday"
      <3> DEFINE r == [fill[f] EXCEPT !.at = "answer"]
      <3>1. /\ Refill(f, r) /\ r.at = "answer" /\ r.board = fill[f].board
            /\ r.for = fill[f].for /\ r.stale = fill[f].stale
        BY <1>4, <1>13, <2>3 DEF StartCount, Fill
      <3> HIDE DEF r
      <3>2. ~r.stale => RightFill(r)
        BY <2>2, <3>1 DEF RightFill
      <3>3. QED
        BY <1>5, <1>6, <1>7, <2>1, <3>1, <3>2 DEF IBoard
    <2>4. CASE ~\E e \in Employees : fill[f].board[e].off = "holiday"
      <3> DEFINE r == [fill[f] EXCEPT !.at = "count", !.left = Employees]
      <3>1. /\ Refill(f, r) /\ r.at = "count" /\ r.board = fill[f].board /\ r.left = Employees
            /\ r.for = fill[f].for /\ r.stale = fill[f].stale
        BY <1>4, <1>13, <2>4 DEF StartCount, Fill
      <3> HIDE DEF r
      <3>2. ASSUME ~r.stale PROVE RightFill(r)
        <4>1. holiday \in BOOLEAN
          BY DEF ITypes, TypeOK
        <4>2. ASSUME NEW e \in Employees
              PROVE  /\ ~holiday
                     /\ r.board[e] = [off |-> Absence(e), clock |-> ClockOf(record[e]),
                                      pause |-> FALSE]
          <5>1. /\ r.board[e].off = Absence(e) /\ r.board[e].clock = ClockOf(record[e])
                /\ ~r.board[e].pause /\ r.board[e] \in Line /\ Absence(e) # "holiday"
            BY <1>4, <2>2, <2>4, <3>1, <3>2 DEF Fill, Board
          <5>2. ~holiday
            BY <5>1 DEF Absence
          <5>3. QED
            BY <5>1, <5>2 DEF Line
        <4>3. QED
          BY <3>1, <4>2 DEF RightFill
      <3>3. QED
        BY <1>5, <1>6, <1>7, <2>1, <3>1, <3>2 DEF IBoard
    <2>5. QED
      BY <2>3, <2>4
  <1>14. CASE \E e \in Employees : Count(f, e)
    <2>1. PICK e \in Employees : Count(f, e)
      BY <1>14
    <2> DEFINE line == fill[f].board[e]
    <2>2. line \in Line /\ fill[f].board \in Board /\ UNCHANGED <<cache, due, shown>>
          /\ fill[f].at = "count" /\ e \in fill[f].left
      BY <1>4, <2>1 DEF Count, Fill, Board
    <2>3. PICK new \in Line :
             /\ Refill(f, [fill[f] EXCEPT !.left = @ \ {e}, !.board[e] = new])
             /\ ~fill[f].stale => RightLine(new, e)
      <3> DEFINE p == line.clock = "working" /\ Running(e) # {}
      <3>1. p \in BOOLEAN
        OBVIOUS
      <3>2. ASSUME ~fill[f].stale
            PROVE  /\ ~holiday /\ line.off = Absence(e) /\ ~line.pause
                   /\ line.clock = ClockOf(record[e])
        <4>1. ~holiday /\ line = [off |-> Absence(e), pause |-> FALSE, clock |-> ClockOf(record[e])]
          BY <1>8, <2>2, <3>2 DEF RightFill
        <4> HIDE DEF line
        <4>2. QED
          BY <4>1
      <3>3. CASE line.off = "leave"
        <4>1. Refill(f, [fill[f] EXCEPT !.left = @ \ {e}, !.board[e] = line])
          BY <2>1, <3>3 DEF Count
        <4>2. ~fill[f].stale => RightLine(line, e)
          BY <3>2, <3>3 DEF RightLine, Truth, Absence
        <4>3. QED
          BY <2>2, <4>1, <4>2
      <3>4. CASE line.off # "leave" /\ ~workday[e]
        <4> DEFINE new == [line EXCEPT !.off = "day_off"]
        <4>1. Refill(f, [fill[f] EXCEPT !.left = @ \ {e}, !.board[e] = new])
          BY <2>1, <3>4 DEF Count
        <4>2. new \in Line /\ new.off = "day_off"
          BY <2>2 DEF Line
        <4> HIDE DEF new
        <4>3. ~fill[f].stale => ~OnLeave(e)
          BY <3>2, <3>4 DEF Absence
        <4>4. ~fill[f].stale => RightLine(new, e)
          BY <3>4, <4>2, <4>3 DEF RightLine, Truth
        <4>5. QED
          BY <4>1, <4>2, <4>4
      <3>5. CASE line.off # "leave" /\ workday[e]
        <4> DEFINE new == [line EXCEPT !.pause = p]
        <4>1. Refill(f, [fill[f] EXCEPT !.left = @ \ {e}, !.board[e] = new])
          BY <2>1, <3>5 DEF Count
        <4>2. new.off = line.off /\ new.clock = line.clock /\ new.pause = p
          BY <2>2 DEF Line
        <4>3. new \in Line
          <5> HIDE DEF p
          <5>1. QED
            BY <2>2, <3>1 DEF Line
        <4> HIDE DEF new
        <4>4. ~fill[f].stale => ~OnLeave(e) /\ line.off = "no"
          BY <3>2, <3>5 DEF Absence
        <4>5. ~fill[f].stale => /\ p = (record[e].in # 0 /\ record[e].out = 0 /\ Running(e) # {})
                                /\ new.clock = ClockOf(record[e])
          BY <3>2, <4>2 DEF ClockOf
        <4>6. ASSUME ~fill[f].stale PROVE new = Truth(e)
          <5>1. new = [off |-> "no", clock |-> ClockOf(record[e]), pause |-> p]
            <6> HIDE DEF p
            <6>1. QED
              BY <4>2, <4>3, <4>4, <4>5, <4>6 DEF Line
          <5>2. QED
            BY <3>5, <4>4, <4>5, <4>6, <5>1 DEF Truth
        <4>7. ~fill[f].stale => RightLine(new, e)
          BY <4>2, <4>4, <4>6 DEF RightLine
        <4>8. QED
          BY <4>1, <4>3, <4>7
      <3>6. QED
        BY <3>3, <3>4, <3>5
    <2> DEFINE r == [fill[f] EXCEPT !.left = @ \ {e}, !.board[e] = new]
    <2>4. /\ r.at = "count" /\ r.left = fill[f].left \ {e} /\ r.stale = fill[f].stale
          /\ r.for = fill[f].for /\ r.board[e] = new
          /\ \A x \in Employees : x # e => r.board[x] = fill[f].board[x]
      BY <1>4, <2>2 DEF Fill, Board
    <2>5. Refill(f, r)
      BY <2>3
    <2> HIDE DEF r
    <2>6. ~r.stale => RightFill(r)
      BY <1>8, <2>2, <2>3, <2>4 DEF RightFill
    <2>7. QED
      BY <1>5, <1>6, <1>7, <2>2, <2>4, <2>5, <2>6 DEF IBoard
  <1>15. CASE SetCache(f)
    <2> DEFINE r == [fill[f] EXCEPT !.at = "answer"]
    <2>1. /\ Refill(f, r) /\ r.at = "answer" /\ r.board = fill[f].board
          /\ r.for = fill[f].for /\ r.stale = fill[f].stale
          /\ cache' = [board |-> fill[f].board, stale |-> fill[f].stale]
          /\ UNCHANGED <<due, shown>> /\ fill[f].at = "count" /\ fill[f].left = {}
      BY <1>4, <1>15 DEF SetCache, Fill
    <2> HIDE DEF r
    <2>2. ~fill[f].stale => \A e \in Employees : RightLine(fill[f].board[e], e)
      BY <1>8, <2>1 DEF RightFill
    <2>3. ASSUME ~r.stale PROVE RightFill(r)
      <3>1. ASSUME NEW e \in Employees, r.board[e].off = "no"
            PROVE  r.board[e].clock = ClockOf(record[e])
        <4>1. r.board[e] = Truth(e)
          BY <2>1, <2>2, <2>3, <3>1 DEF RightLine
        <4>2. QED
          BY <4>1 DEF Truth
      <3>2. QED
        BY <2>1, <3>1 DEF RightFill
    <2>4. CacheIsTrue'
      <3>1. cache'.board = fill[f].board /\ cache'.stale = fill[f].stale
        BY <2>1
      <3>2. QED
        BY <1>3, <2>2, <3>1 DEF CacheIsTrue, RightLine
    <2>5. QED
      BY <1>5, <1>7, <2>1, <2>3, <2>4 DEF IBoard
  <1>16. CASE BoardArrives(f)
    <2> DEFINE r == IdleFill(fill[f].for)
               b == [board |-> fill[f].board, stale |-> fill[f].stale]
    <2>1. /\ Refill(f, r) /\ shown' = [shown EXCEPT ![fill[f].for] = b]
          /\ UNCHANGED <<cache, due>> /\ fill[f].at = "answer" /\ r.at = "idle"
      BY <1>16 DEF BoardArrives, IdleFill
    <2>2. b.board = fill[f].board /\ b.stale = fill[f].stale
      OBVIOUS
    <2> HIDE DEF r, b
    <2>3. ~r.stale => RightFill(r)
      BY <2>1 DEF RightFill
    <2>4. ShownInv'
      <3> SUFFICES ASSUME NEW m \in Managers, shown'[m] # NONE, ~shown'[m].stale,
                          NEW x \in Employees, shown'[m].board[x].off = "no"
                   PROVE  \/ shown'[m].board[x].clock = ClockOf(record[x])'
                          \/ \E u \in Handlers : UserOf[u] = x /\ job'[u].at = "publish"
                                            /\ job'[u].op \in {"in", "out"}
                          \/ due'[m] > 0
                          \/ \E g \in Fills : fill'[g].for = m /\ fill'[g].at # "idle"
        BY DEF ShownInv
      <3>1. CASE m = fill[f].for
        <4>1. shown'[m] = b
          BY <2>1, <3>1 DEF ITypes, TypeOK
        <4>2. fill[f].board[x].off = "no" => fill[f].board[x].clock = ClockOf(record[x])
          BY <1>8, <2>1, <2>2, <4>1 DEF RightFill
        <4>3. QED
          BY <1>3, <2>2, <4>1, <4>2
      <3>2. CASE m # fill[f].for
        <4>1. shown'[m] = shown[m]
          BY <2>1, <3>2
        <4>2. \A g \in Fills : fill[g].for = m => fill'[g] = fill[g]
          BY <1>4, <2>1, <3>2 DEF Refill
        <4>3. \/ shown[m].board[x].clock = ClockOf(record[x])
              \/ \E u \in Handlers : UserOf[u] = x /\ job[u].at = "publish"
                                /\ job[u].op \in {"in", "out"}
              \/ due[m] > 0
              \/ \E g \in Fills : fill[g].for = m /\ fill[g].at # "idle"
          BY <4>1 DEF IBoard, ShownInv
        <4>4. QED
          BY <1>1, <1>3, <2>1, <4>1, <4>2, <4>3
      <3>3. QED
        BY <3>1, <3>2
    <2>5. QED
      BY <1>5, <1>6, <2>1, <2>3, <2>4 DEF IBoard
  <1>17. CASE BoardFails(f)
    <2> DEFINE r == IdleFill(fill[f].for)
    <2>1. Refill(f, r) /\ Behind({fill[f].for}) /\ UNCHANGED <<cache, due>> /\ r.at = "idle"
      BY <1>17 DEF BoardFails, IdleFill
    <2> HIDE DEF r
    <2>2. ~r.stale => RightFill(r)
      BY <2>1 DEF RightFill
    <2>3. ShownInv'
      <3> SUFFICES ASSUME NEW m \in Managers, shown'[m] # NONE, ~shown'[m].stale,
                          NEW x \in Employees, shown'[m].board[x].off = "no"
                   PROVE  \/ shown'[m].board[x].clock = ClockOf(record[x])'
                          \/ \E u \in Handlers : UserOf[u] = x /\ job'[u].at = "publish"
                                            /\ job'[u].op \in {"in", "out"}
                          \/ due'[m] > 0
                          \/ \E g \in Fills : fill'[g].for = m /\ fill'[g].at # "idle"
        BY DEF ShownInv
      <3>1. m # fill[f].for /\ shown'[m] = shown[m]
        <4>1. PICK pages : pages = {fill[f].for} /\ Behind(pages)
          BY <2>1
        <4>2. m \in pages => shown'[m] = NONE \/ shown'[m].stale
          BY <4>1, BehindTypes
        <4>3. m \notin pages => shown'[m] = shown[m]
          BY <4>1, BehindTypes
        <4>4. QED
          BY <4>1, <4>2, <4>3
      <3>2. \A g \in Fills : fill[g].for = m => fill'[g] = fill[g]
        BY <1>4, <2>1, <3>1 DEF Refill
      <3>3. \/ shown[m].board[x].clock = ClockOf(record[x])
            \/ \E u \in Handlers : UserOf[u] = x /\ job[u].at = "publish"
                              /\ job[u].op \in {"in", "out"}
            \/ due[m] > 0
            \/ \E g \in Fills : fill[g].for = m /\ fill[g].at # "idle"
        BY <3>1 DEF IBoard, ShownInv
      <3>4. QED
        BY <1>1, <1>3, <2>1, <3>1, <3>2, <3>3
    <2>4. QED
      BY <1>5, <1>6, <2>1, <2>2, <2>3 DEF IBoard
  <1>18. QED
    BY <1>9, <1>10, <1>11, <1>12, <1>13, <1>14, <1>15, <1>16, <1>17 DEF Look

LEMMA BoardStep == ITypes /\ IBoard /\ [Next]_vars => IBoard'
  <1> SUFFICES ASSUME ITypes, IBoard, [Next]_vars PROVE IBoard'
    OBVIOUS
  <1>0. job \in [Handlers -> Job] /\ record \in [Employees -> Record] /\ forms \in Seq(Form)
    BY DEF ITypes, TypeOK
  <1>1. ASSUME NEW t \in Handlers, Ask(t) \/ Read(t) PROVE IBoard'
    <2>1. CASE Ask(t)
      <3>1. PICK r \in Job : Begin(t, r)
        BY <2>1, AskStep
      <3>2. /\ UNCHANGED <<record, breaks, forms, holiday, workday, fill, cache, shown, due>>
            /\ job[t] = Idle /\ \A u \in Handlers : u # t => job'[u] = job[u]
        BY <1>0, <3>1 DEF Begin, dayState, boards
      <3>3. job[t].at # "publish"
        BY <3>2 DEF Idle
      <3>4. QED
        BY <3>2, <3>3, BoardSame, FactsRead
    <2>2. CASE Read(t)
      <3>1. job[t].at # "publish"
        BY <2>2 DEF Read, CheckCalendar, FindRow, FindOpenDay, FindRunning, CheckForm, CheckPending
      <3>2. /\ UNCHANGED <<record, breaks, forms, holiday, workday, fill, cache, shown, due>>
            /\ \A u \in Handlers : u # t => job'[u] = job[u]
        BY <1>0, <2>2, ReadStep DEF dayState, calendar, boards, Step
      <3>3. QED
        BY <3>1, <3>2, BoardSame, FactsRead
    <2>3. QED
      BY <1>1, <2>1, <2>2
  <1>2. ASSUME NEW t \in Handlers, InsertRow(t) PROVE IBoard'
    <2>1. Write(t) /\ UserOf[t] \in Employees
      BY <1>2, WriteStep DEF Write
    <2>2. /\ UNCHANGED <<breaks, forms, holiday, workday, fill, cache, shown, due>>
          /\ UNCHANGED record \/ record' = [record EXCEPT ![UserOf[t]].row = TRUE]
          /\ \A u \in Handlers : u # t => job'[u] = job[u]
          /\ job[t].at # "publish"
      BY <1>0, <1>2 DEF InsertRow, Reject, Step, calendar, boards
    <2>3. \A e \in Employees : record'[e].in = record[e].in /\ record'[e].out = record[e].out
      BY <1>0, <2>2 DEF Record
    <2>4. ASSUME NEW e \in Employees PROVE SameFacts(e)
      <3>1. OnLeave(e)' = OnLeave(e) /\ Running(e)' = Running(e)
        BY <2>2 DEF OnLeave, Running
      <3>2. QED
        BY <2>2, <2>3, <3>1 DEF SameFacts, Truth, Absence, ClockOf
    <2>5. QED
      BY <2>2, <2>4, BoardSame
  <1>3. ASSUME NEW t \in Handlers, InsertForm(t) PROVE IBoard'
    <2>1. /\ UNCHANGED <<record, breaks, holiday, workday, fill, cache, shown, due>>
          /\ forms' = Append(forms, [kind |-> job[t].op, by |-> UserOf[t], status |-> "pending"])
          /\ \A u \in Handlers : u # t => job'[u] = job[u]
          /\ job[t].at # "publish"
      BY <1>0, <1>3 DEF InsertForm, Step, dayState, boards
    <2>2. ASSUME NEW e PROVE OnLeave(e)' = OnLeave(e)
      <3>1. \A k \in DOMAIN forms : k \in DOMAIN forms' /\ forms'[k] = forms[k]
        BY <1>0, <2>1
      <3>2. \A k \in DOMAIN forms' : k \in DOMAIN forms \/ forms'[k].status = "pending"
        BY <1>0, <2>1
      <3>3. QED
        BY <3>1, <3>2 DEF OnLeave
    <2>3. ASSUME NEW e \in Employees PROVE SameFacts(e)
      <3>1. Running(e)' = Running(e)
        BY <2>1 DEF Running
      <3>2. QED
        BY <2>1, <2>2, <3>1 DEF SameFacts, Truth, Absence, ClockOf
    <2>4. QED
      BY <2>1, <2>3, BoardSame
  <1>4. ASSUME NEW t \in Handlers, Fail(t) PROVE IBoard'
    <2>1. CASE job[t].at = "publish"
      BY <1>4, <2>1, BoardSpoiled DEF Fail
    <2>2. CASE job[t].at # "publish"
      <3>1. /\ UNCHANGED <<record, breaks, forms, holiday, workday, fill, cache, shown, due>>
            /\ \A u \in Handlers : u # t => job'[u] = job[u]
        BY <1>0, <1>4, <2>2 DEF Fail, Step, dayState, calendar
      <3>2. QED
        BY <2>2, <3>1, BoardSame, FactsRead
    <2>3. QED
      BY <2>1, <2>2
  <1>5. ASSUME \/ SetHoliday \/ (\E e \in Employees : SetSchedule(e))
               \/ (\E t \in Handlers : WriteDecision(t))
        PROVE  IBoard'
    BY <1>5, BoardSpoiled DEF SetHoliday, SetSchedule, WriteDecision
  <1>6. CASE Restart
    <2>1. \A f \in Fills : fill'[f].at = "idle"
      BY <1>6 DEF Restart, IdleFill
    <2>2. CacheIsTrue'
      <3>1. CASE cache' = NONE \/ cache'.stale
        BY <3>1 DEF CacheIsTrue
      <3>2. CASE cache' = cache /\ ~AboutToInvalidate
        <4>1. \A e : SameFacts(e)
          BY <1>6, FactsRead DEF Restart, dayState, calendar
        <4>2. \A e \in Employees : ~Unpublished(e)
          BY <3>2 DEF Unpublished, AboutToInvalidate
        <4>3. cache # NONE /\ ~cache.stale => \A e \in Employees : RightLine(cache.board[e], e)
          BY <4>2 DEF IBoard, CacheIsTrue
        <4>4. \A e \in Employees : Truth(e)' = Truth(e)
          BY <4>1 DEF SameFacts
        <4>5. QED
          BY <3>2, <4>3, <4>4 DEF CacheIsTrue, RightLine
      <3>3. QED
        BY <1>6, <3>1, <3>2, OutdatedTypes DEF Restart
    <2>3. \A m \in Managers : shown'[m] = NONE \/ shown'[m].stale
      BY <1>6, BehindTypes DEF Restart
    <2>4. QED
      BY <2>1, <2>2, <2>3 DEF IBoard, FillInv, RightFill, ShownInv
  <1>7. CASE Expire
    <2>1. /\ UNCHANGED <<record, breaks, forms, holiday, workday, fill, shown, due, job>>
          /\ cache' = NONE
      BY <1>7 DEF Expire, dayState, calendar
    <2>2. \A e : SameFacts(e)
      BY <2>1, FactsRead
    <2>3. QED
      BY <2>1, <2>2 DEF IBoard, FillInv, RightFill, RightLine, CacheIsTrue, ShownInv, SameFacts
  <1>8. CASE UNCHANGED vars
    <2>1. UNCHANGED <<record, breaks, forms, holiday, workday, fill, cache, shown, due, job>>
      BY <1>8 DEF vars
    <2>2. QED
      BY <2>1, BoardSame, FactsRead
  <1>9. ASSUME NEW t \in Handlers, Handle(t) PROVE IBoard'
    BY <1>1, <1>2, <1>3, <1>4, <1>5, <1>9, HandleCases, BoardWrite, BoardPublish
  <1>10. QED
    BY <1>1, <1>5, <1>6, <1>7, <1>8, <1>9, BoardLook DEF Next

\* A dashboard under way, in the cache or on a page is right as far as no change has
\* overlapped its reading (getDashboard, redisClient, handleAttendanceEvent).
THEOREM BoardInvariance == Spec => []IBoard
  <1>1. Init => IBoard
    BY DEF Init, IBoard, FillInv, RightFill, CacheIsTrue, ShownInv, IdleFill
  <1>2. QED
    BY TypesInit, TypesStep, BoardStep, <1>1, PTL DEF Spec

\* What the cache answers was read without a change in between, however many
\* dashboards are built at once (Attendance.service.ts:702).
THEOREM CacheTellsTheTruth == Spec => []CacheIsTrue
  <1>1. IBoard => CacheIsTrue
    BY DEF IBoard
  <1>2. QED
    BY BoardInvariance, <1>1, PTL

\* When all is quiet every manager's page shows who works and who has left, unless a
\* change overlapped the reading of what it shows, or the page did not hear of a change
\* or could not load (attendanceStore.ts:275).
THEOREM PagesFollow == Spec => []BoardFollows
  <1>1. IBoard => BoardFollows
    BY DEF IBoard, ShownInv, BoardFollows, Quiet, Idle
  <1>2. QED
    BY BoardInvariance, <1>1, PTL
=============================================================================
