----------------------------- MODULE Attendance -----------------------------
(***************************************************************************)
(* One day of attendance: clock-in, breaks, clock-out, requests for leave  *)
(* and overtime with the managers' decisions, and the cached dashboard     *)
(* that managers look at (Attendance.service.ts, Leave.service.ts,         *)
(* Holiday.service.ts, WorkSchedule.service.ts, attendanceStore.ts).       *)
(*                                                                         *)
(* Nothing runs in a transaction: a handler is a chain of awaited          *)
(* statements, and handlers interleave between any two, also those of one  *)
(* employee: the busy flag of AttendanceView holds back a second click,    *)
(* not a second tab, a page that is reloaded or the forms beside it.       *)
(*                                                                         *)
(* Time is the number of the request, which orders the moments new Date()  *)
(* is asked for.  Bounds: MaxReq requests (the last moment of the day),    *)
(* dashboards are asked for during the first MaxWatched of them, MaxForms  *)
(* leave and overtime requests, MaxMishaps failures, restarts, changes of  *)
(* holiday or schedule, entries of the cache that expire or cannot be      *)
(* deleted, and events that some pages do not hear, as many requests and   *)
(* dashboards at once as there are Handlers and Fills.                     *)
(***************************************************************************)
EXTENDS Naturals, Sequences, FiniteSets

CONSTANTS
    Employees, Managers,
    Handlers, UserOf,   \* handlers that may run at the same time, and for whom
    Fills,              \* dashboards that may be built at the same time
    Ops,                \* the operations that are exercised
    MaxReq, MaxWatched, MaxForms, MaxMishaps,
    NONE

ASSUME AttendanceAssumption ==
    /\ UserOf \in [Handlers -> Employees \cup Managers]
    /\ MaxReq \in Nat /\ MaxWatched \in Nat /\ MaxForms \in Nat /\ MaxMishaps \in Nat

VARIABLES
    record,     \* attendance_records of today
    breaks,     \* break_records of today
    forms,      \* leave_requests that cover today, overtime_records of today
    holiday,    \* today is in holidays
    workday,    \* is_working_day of today's weekday in work_schedules
    job,        \* the request each handler is at
    reqs, mishaps, \* the counters behind the bounds
    cache,      \* the dashboard in the cache
    fill,       \* getDashboard handlers
    due,        \* status_changed events that have not reached a manager's page
    shown,      \* the dashboard each manager's page shows
    leaveSince, \* history: the last request before an employee's leave was approved
    raced       \* history: clock or break requests of an employee have overlapped

dayState == <<record, breaks>>
calendar == <<forms, holiday, workday, leaveSince, raced>>
boards == <<cache, fill, due, shown>>
vars == <<record, breaks, forms, holiday, workday, job, reqs, mishaps, cache, fill, due, shown,
          leaveSince, raced>>

Times == 0..MaxReq
ClockOps == {"in", "out", "pause", "resume"}
Record == [row : BOOLEAN, in : Times, out : Times]
Break == [start : 1..MaxReq, end : Times]
Form == [kind : {"leave", "overtime"}, by : Employees,
         status : {"pending", "approved", "rejected"}]
Job == [op : {"idle", "in", "out", "pause", "resume", "leave", "overtime", "decide"},
        at : {"schedule", "holiday", "leave", "record", "running", "insert",
              "update", "publish", "check"},
        n : Times,                  \* when the request came
        works : BOOLEAN,            \* is_working_day as read
        target : Nat,               \* the break or the request it is about
        verdict : {"approved", "rejected"}]
\* what a dashboard counts an employee as
Line == [off : {"no", "holiday", "leave", "day_off"},
         clock : {"new", "working", "done"}, pause : BOOLEAN]
Board == [Employees -> Line]
CacheEntry == [board : Board, stale : BOOLEAN]
Fill == [at : {"idle", "get", "read", "count", "answer"}, for : Managers,
         todo : SUBSET {"records", "absences"}, left : SUBSET Employees,
         board : Board, stale : BOOLEAN]
Shown == [board : Board, stale : BOOLEAN]

Idle == [op |-> "idle", at |-> "record", n |-> 0, works |-> FALSE, target |-> 0,
         verdict |-> "rejected"]
BlankLine == [off |-> "no", clock |-> "new", pause |-> FALSE]
BlankBoard == [e \in Employees |-> BlankLine]
IdleFill(m) == [at |-> "idle", for |-> m, todo |-> {}, left |-> {},
                board |-> BlankBoard, stale |-> FALSE]

TypeOK ==
    /\ record \in [Employees -> Record]
    /\ breaks \in [Employees -> SUBSET Break]
    /\ forms \in Seq(Form)
    /\ holiday \in BOOLEAN
    /\ workday \in [Employees -> BOOLEAN]
    /\ job \in [Handlers -> Job]
    /\ reqs \in 0..MaxReq
    /\ mishaps \in 0..MaxMishaps
    /\ cache = NONE \/ cache \in CacheEntry
    /\ fill \in [Fills -> Fill]
    /\ due \in [Managers -> Nat]
    /\ DOMAIN shown = Managers
    /\ \A m \in Managers : shown[m] = NONE \/ shown[m] \in Shown
    /\ leaveSince \in [Employees -> Times]
    /\ raced \in [Employees -> BOOLEAN]

\* every manager's page asks for the dashboard when it is opened
Init ==
    /\ record = [e \in Employees |-> [row |-> FALSE, in |-> 0, out |-> 0]]
    /\ breaks = [e \in Employees |-> {}]
    /\ forms = <<>>
    /\ holiday = FALSE
    /\ workday = [e \in Employees |-> TRUE]
    /\ job = [t \in Handlers |-> Idle]
    /\ reqs = 0 /\ mishaps = 0
    /\ cache = NONE
    /\ fill \in [Fills -> {IdleFill(m) : m \in Managers}]
    /\ due = [m \in Managers |-> 1]
    /\ shown = [m \in Managers |-> NONE]
    /\ leaveSince = [e \in Employees |-> 0]
    /\ raced = [e \in Employees |-> FALSE]

-----------------------------------------------------------------------------
(* What the statements find.                                               *)

OnLeave(e) == \E i \in DOMAIN forms : forms[i] = [kind |-> "leave", by |-> e,
                                                  status |-> "approved"]
Running(e) == {b \in breaks[e] : b.end = 0}

\* findOverlap: pending or approved leave; for overtime only what is pending counts
Overlapping(kind, e) ==
    \E i \in DOMAIN forms :
        /\ forms[i].kind = kind /\ forms[i].by = e
        /\ forms[i].status \in (IF kind = "leave" THEN {"pending", "approved"}
                                ELSE {"pending"})

ClockOf(r) == CASE r.in = 0 -> "new" [] r.out # 0 -> "done" [] OTHER -> "working"

-----------------------------------------------------------------------------
(* The dashboards that are being built see a change half, or not at all.   *)

Mishap == mishaps < MaxMishaps /\ mishaps' = mishaps + 1

\* history: what is cached has changed, and is about to be taken out
AboutToInvalidate == \E t \in Handlers : job[t].at = "publish"

Spoil == fill' = [f \in Fills |-> IF fill[f].at \in {"idle", "get"} THEN fill[f]
                                  ELSE [fill[f] EXCEPT !.stale = TRUE]]

Outdated(b) == IF b = NONE THEN NONE ELSE [b EXCEPT !.stale = TRUE]

\* what these pages show is not put right
Behind(pages) ==
    shown' = [m \in Managers |-> IF m \in pages THEN Outdated(shown[m]) ELSE shown[m]]

\* changes of the calendar invalidate nothing and are told to nobody
SpoilAll ==
    /\ Spoil
    /\ cache' = Outdated(cache)
    /\ Behind(Managers)

-----------------------------------------------------------------------------
(* Requests.                                                               *)

\* a clock or break request of e is being handled
Clocking(e) == \E t \in Handlers : UserOf[t] = e /\ job[t].op \in ClockOps

Begin(t, r) ==
    /\ r.op \in Ops
    /\ job[t] = Idle
    /\ reqs < MaxReq
    /\ reqs' = reqs + 1
    /\ job' = [job EXCEPT ![t] = [r EXCEPT !.n = reqs + 1]]
    /\ raced' = [e \in Employees |-> raced[e] \/ (e = UserOf[t] /\ r.op \in ClockOps
                                                   /\ Clocking(e))]
    /\ UNCHANGED <<dayState, forms, holiday, workday, leaveSince, boards, mishaps>>

RequestClock(t) ==
    /\ UserOf[t] \in Employees
    /\ \/ Begin(t, [Idle EXCEPT !.op = "in", !.at = "schedule"])
       \/ \E op \in {"out", "pause", "resume"} : Begin(t, [Idle EXCEPT !.op = op])

RequestForm(t) ==
    /\ UserOf[t] \in Employees
    /\ Len(forms) < MaxForms
    /\ \E kind \in {"leave", "overtime"} :
          Begin(t, [Idle EXCEPT !.op = kind, !.at = "check"])

RequestDecision(t) ==
    /\ UserOf[t] \in Managers
    /\ \E i \in DOMAIN forms, v \in {"approved", "rejected"} :
          Begin(t, [Idle EXCEPT !.op = "decide", !.at = "check", !.target = i,
                                !.verdict = v])

-----------------------------------------------------------------------------
(* The handlers, one statement at a time.                                  *)

Step(t, r) == job' = [job EXCEPT ![t] = r]
Reject(t) == Step(t, Idle)

\* mutant: the leave is not looked up
SkipLeave(t) ==
    /\ job[t].op = "in"
    /\ \/ /\ job[t].at = "schedule"
          /\ Step(t, [job[t] EXCEPT !.at = "holiday", !.works = workday[UserOf[t]]])
       \/ /\ job[t].at = "holiday"
          /\ IF holiday \/ ~job[t].works THEN Reject(t)
             ELSE Step(t, [job[t] EXCEPT !.at = "record"])
    /\ UNCHANGED <<dayState, calendar, boards, reqs, mishaps>>

\* clockIn: the schedule, the holiday, the leave, in this order
CheckCalendar(t) ==
    LET e == UserOf[t] IN
    /\ job[t].op = "in"
    /\ \/ /\ job[t].at = "schedule"
          /\ Step(t, [job[t] EXCEPT !.at = "holiday", !.works = workday[e]])
       \/ /\ job[t].at = "holiday"
          /\ IF holiday THEN Reject(t) ELSE Step(t, [job[t] EXCEPT !.at = "leave"])
       \/ /\ job[t].at = "leave"
          /\ IF OnLeave(e) \/ ~job[t].works THEN Reject(t)
             ELSE Step(t, [job[t] EXCEPT !.at = "record"])
    /\ UNCHANGED <<dayState, calendar, boards, reqs, mishaps>>

\* clockIn: a row without clock_in was left by an attempt that failed, and is used
FindRow(t) ==
    LET r == record[UserOf[t]] IN
    /\ job[t].op = "in" /\ job[t].at = "record"
    /\ IF r.in # 0 THEN Reject(t)
       ELSE Step(t, [job[t] EXCEPT !.at = IF r.row THEN "update" ELSE "insert"])
    /\ UNCHANGED <<dayState, calendar, boards, reqs, mishaps>>

\* (employee_id, date) is unique: of two inserts the second throws
InsertRow(t) ==
    LET e == UserOf[t] IN
    /\ job[t].op = "in" /\ job[t].at = "insert"
    /\ IF record[e].row THEN Reject(t) /\ UNCHANGED record
       ELSE /\ record' = [record EXCEPT ![e].row = TRUE]
            /\ Step(t, [job[t] EXCEPT !.at = "update"])
    /\ UNCHANGED <<breaks, calendar, boards, reqs, mishaps>>

WriteIn(t) ==
    LET e == UserOf[t] IN
    /\ job[t].op = "in" /\ job[t].at = "update"
    /\ record' = [record EXCEPT ![e].in = job[t].n]
    /\ Spoil
    /\ Step(t, [job[t] EXCEPT !.at = "publish"])
    /\ UNCHANGED <<breaks, calendar, cache, due, shown, reqs, mishaps>>

\* clockOut, startBreak, endBreak: after the clock-in and before the clock-out
FindOpenDay(t) ==
    LET r == record[UserOf[t]] IN
    /\ job[t].op \in {"out", "pause", "resume"} /\ job[t].at = "record"
    /\ IF r.in = 0 \/ r.out # 0 THEN Reject(t)
       ELSE Step(t, [job[t] EXCEPT !.at = "running"])
    /\ UNCHANGED <<dayState, calendar, boards, reqs, mishaps>>

\* mutant: clockOut does not look for a break that is running
SkipRunning(t) ==
    LET e == UserOf[t] IN
    /\ job[t].op \in {"out", "pause", "resume"} /\ job[t].at = "running"
    /\ \/ job[t].op = "out" /\ Step(t, [job[t] EXCEPT !.at = "update"])
       \/ job[t].op = "pause" /\ Running(e) = {} /\ Step(t, [job[t] EXCEPT !.at = "insert"])
       \/ \E b \in Running(e) : /\ job[t].op = "resume"
                                /\ Step(t, [job[t] EXCEPT !.at = "update", !.target = b.start])
       \/ Reject(t)
    /\ UNCHANGED <<dayState, calendar, boards, reqs, mishaps>>

\* findRunningBreak: clockOut and startBreak want none, endBreak one
FindRunning(t) ==
    LET e == UserOf[t] IN
    /\ job[t].op \in {"out", "pause", "resume"} /\ job[t].at = "running"
    /\ CASE job[t].op = "resume" ->
              \/ Running(e) = {} /\ Reject(t)
              \/ \E b \in Running(e) :
                    Step(t, [job[t] EXCEPT !.at = "update", !.target = b.start])
         [] job[t].op # "resume" ->
              IF Running(e) # {} THEN Reject(t)
              ELSE Step(t, [job[t] EXCEPT !.at = IF job[t].op = "out" THEN "update"
                                                 ELSE "insert"])
    /\ UNCHANGED <<dayState, calendar, boards, reqs, mishaps>>

\* createBreak
InsertBreak(t) ==
    LET e == UserOf[t] IN
    /\ job[t].op = "pause" /\ job[t].at = "insert"
    /\ breaks' = [breaks EXCEPT ![e] = @ \cup {[start |-> job[t].n, end |-> 0]}]
    /\ Spoil
    /\ Step(t, [job[t] EXCEPT !.at = "publish"])
    /\ UNCHANGED <<record, calendar, cache, due, shown, reqs, mishaps>>

\* endBreak, by the id that was found
EndBreak(t) ==
    LET e == UserOf[t]
        Ended(b) == IF b.start = job[t].target THEN [b EXCEPT !.end = job[t].n] ELSE b
    IN
    /\ job[t].op = "resume" /\ job[t].at = "update"
    /\ breaks' = [breaks EXCEPT ![e] = {Ended(b) : b \in breaks[e]}]
    /\ Spoil
    /\ Step(t, [job[t] EXCEPT !.at = "publish"])
    /\ UNCHANGED <<record, calendar, cache, due, shown, reqs, mishaps>>

\* clockOut: by the id of the row, whatever is in it now
WriteOut(t) ==
    LET e == UserOf[t] IN
    /\ job[t].op = "out" /\ job[t].at = "update"
    /\ record' = [record EXCEPT ![e].out = job[t].n]
    /\ Spoil
    /\ Step(t, [job[t] EXCEPT !.at = "publish"])
    /\ UNCHANGED <<breaks, calendar, cache, due, shown, reqs, mishaps>>

\* status_changed goes to the whole company, as far as its sockets are open; the events
\* of breaks go to the employee alone
Reach(t, told) ==
    IF job[t].op \in {"in", "out"}
    THEN /\ due' = [m \in Managers |-> IF m \in told THEN due[m] + 1 ELSE due[m]]
         /\ Behind(Managers \ told)
    ELSE UNCHANGED <<due, shown>>

\* mutant: the cached dashboard is left
OnlyPublish(t) ==
    /\ job[t].at = "publish"
    /\ Reach(t, Managers)
    /\ Step(t, Idle)
    /\ UNCHANGED <<dayState, calendar, fill, cache, reqs, mishaps>>

\* mutant: nobody but the employee is told
TellEmployee(t) ==
    /\ job[t].at = "publish"
    /\ cache' = NONE
    /\ Step(t, Idle)
    /\ UNCHANGED <<dayState, calendar, fill, due, shown, reqs, mishaps>>

\* invalidateDashboard, which does not wait and swallows a failure, and the events
Publish(t) ==
    /\ job[t].at = "publish"
    /\ \/ cache' = NONE /\ Reach(t, Managers) /\ UNCHANGED mishaps
       \/ Mishap /\ cache' = NONE /\ \E told \in SUBSET Managers : Reach(t, told)
       \/ Mishap /\ cache' = Outdated(cache) /\ Reach(t, Managers)
    /\ Step(t, Idle)
    /\ UNCHANGED <<dayState, calendar, fill, reqs>>

\* LeaveService.create, requestOvertime
CheckForm(t) ==
    /\ job[t].op \in {"leave", "overtime"} /\ job[t].at = "check"
    /\ IF Overlapping(job[t].op, UserOf[t]) THEN Reject(t)
       ELSE Step(t, [job[t] EXCEPT !.at = "insert"])
    /\ UNCHANGED <<dayState, calendar, boards, reqs, mishaps>>

InsertForm(t) ==
    /\ job[t].op \in {"leave", "overtime"} /\ job[t].at = "insert"
    /\ forms' = Append(forms, [kind |-> job[t].op, by |-> UserOf[t], status |-> "pending"])
    /\ Step(t, Idle)
    /\ UNCHANGED <<dayState, holiday, workday, leaveSince, raced, boards, reqs, mishaps>>

\* setStatus, setOvertimeStatus
CheckPending(t) ==
    /\ job[t].op = "decide" /\ job[t].at = "check"
    /\ IF forms[job[t].target].status # "pending" THEN Reject(t)
       ELSE Step(t, [job[t] EXCEPT !.at = "update"])
    /\ UNCHANGED <<dayState, calendar, boards, reqs, mishaps>>

WriteDecision(t) ==
    LET i == job[t].target
        e == forms[i].by
        grants == forms[i].kind = "leave" /\ job[t].verdict = "approved" /\ ~OnLeave(e)
    IN
    /\ job[t].op = "decide" /\ job[t].at = "update"
    /\ forms' = [forms EXCEPT ![i].status = job[t].verdict]
    /\ leaveSince' = IF grants THEN [leaveSince EXCEPT ![e] = reqs] ELSE leaveSince
    /\ SpoilAll
    /\ Step(t, Idle)
    /\ UNCHANGED <<dayState, holiday, workday, raced, due, reqs, mishaps>>

\* HolidayService.create and remove
SetHoliday ==
    /\ Mishap
    /\ holiday' = ~holiday
    /\ SpoilAll
    /\ UNCHANGED <<dayState, forms, workday, leaveSince, raced, job, due, reqs>>

\* WorkScheduleService.upsert
SetSchedule(e) ==
    /\ Mishap
    /\ workday' = [workday EXCEPT ![e] = ~@]
    /\ SpoilAll
    /\ UNCHANGED <<dayState, forms, holiday, leaveSince, raced, job, due, reqs>>

\* a statement throws: what was written stays, and nobody is told of it
Fail(t) ==
    /\ job[t] # Idle
    /\ Mishap
    /\ Step(t, Idle)
    /\ IF job[t].at = "publish" THEN SpoilAll ELSE UNCHANGED <<fill, cache, shown>>
    /\ UNCHANGED <<dayState, calendar, due, reqs>>

\* the server ends, its handlers with it, and the cache when it was kept in memory; the
\* pages connect again and load nothing
Restart ==
    /\ Mishap
    /\ job' = [t \in Handlers |-> Idle]
    /\ fill' = [f \in Fills |-> IdleFill(fill[f].for)]
    /\ \/ cache' = NONE
       \/ cache' = IF AboutToInvalidate THEN Outdated(cache) ELSE cache
    /\ Behind(Managers)
    /\ due' = [m \in Managers |-> 0]
    /\ UNCHANGED <<dayState, calendar, reqs>>

-----------------------------------------------------------------------------
(* The dashboard of a manager's page.                                      *)

Refill(f, r) == fill' = [fill EXCEPT ![f] = r]

\* handleAttendanceEvent, or the page that opens: loadDashboard
AskBoard(f, m) ==
    /\ fill[f].at = "idle"
    /\ due[m] > 0
    /\ reqs <= MaxWatched
    /\ due' = [due EXCEPT ![m] = @ - 1]
    /\ Refill(f, [IdleFill(m) EXCEPT !.at = "get"])
    /\ UNCHANGED <<dayState, calendar, job, cache, shown, reqs, mishaps>>

GetCached(f) ==
    /\ fill[f].at = "get"
    /\ Refill(f, IF cache # NONE
                 THEN [fill[f] EXCEPT !.at = "answer", !.board = cache.board,
                                      !.stale = cache.stale \/ AboutToInvalidate]
                 ELSE [IdleFill(fill[f].for) EXCEPT !.at = "read",
                                                    !.todo = {"records", "absences"}])
    /\ UNCHANGED <<dayState, calendar, job, cache, due, shown, reqs, mishaps>>

\* Promise.all: the queries run on connections of their own
ReadRecords(f) ==
    /\ fill[f].at = "read" /\ "records" \in fill[f].todo
    /\ Refill(f, [fill[f] EXCEPT !.todo = @ \ {"records"},
                    !.board = [e \in Employees |-> [@[e] EXCEPT !.clock = ClockOf(record[e])]]])
    /\ UNCHANGED <<dayState, calendar, job, cache, due, shown, reqs, mishaps>>

Absence(e) == CASE holiday -> "holiday" [] ~holiday /\ OnLeave(e) -> "leave"
                [] OTHER -> "no"

ReadAbsences(f) ==
    /\ fill[f].at = "read" /\ "absences" \in fill[f].todo
    /\ Refill(f, [fill[f] EXCEPT !.todo = @ \ {"absences"},
                    !.board = [e \in Employees |-> [@[e] EXCEPT !.off = Absence(e)]]])
    /\ UNCHANGED <<dayState, calendar, job, cache, due, shown, reqs, mishaps>>

\* a holiday is answered at once and never cached
StartCount(f) ==
    /\ fill[f].at = "read" /\ fill[f].todo = {}
    /\ Refill(f, IF \E e \in Employees : fill[f].board[e].off = "holiday"
                 THEN [fill[f] EXCEPT !.at = "answer"]
                 ELSE [fill[f] EXCEPT !.at = "count", !.left = Employees])
    /\ UNCHANGED <<dayState, calendar, job, cache, due, shown, reqs, mishaps>>

\* the loop: the schedule of one employee after the other, and a running break
Count(f, e) ==
    LET line == fill[f].board[e] IN
    /\ fill[f].at = "count" /\ e \in fill[f].left
    /\ Refill(f, [fill[f] EXCEPT !.left = @ \ {e},
           !.board[e] = CASE line.off = "leave" -> line
                          [] line.off # "leave" /\ ~workday[e] -> [line EXCEPT !.off = "day_off"]
                          [] OTHER -> [line EXCEPT !.pause = line.clock = "working"
                                                             /\ Running(e) # {}]])
    /\ UNCHANGED <<dayState, calendar, job, cache, due, shown, reqs, mishaps>>

SetCache(f) ==
    /\ fill[f].at = "count" /\ fill[f].left = {}
    /\ cache' = [board |-> fill[f].board, stale |-> fill[f].stale]
    /\ Refill(f, [fill[f] EXCEPT !.at = "answer"])
    /\ UNCHANGED <<dayState, calendar, job, due, shown, reqs, mishaps>>

\* the answers arrive in any order, and the last one stays
BoardArrives(f) ==
    /\ fill[f].at = "answer"
    /\ shown' = [shown EXCEPT ![fill[f].for] = [board |-> fill[f].board,
                                                stale |-> fill[f].stale]]
    /\ Refill(f, IdleFill(fill[f].for))
    /\ UNCHANGED <<dayState, calendar, job, cache, due, reqs, mishaps>>

\* a query fails: loadDashboard keeps the board it has
BoardFails(f) ==
    /\ fill[f].at # "idle"
    /\ Mishap
    /\ Behind({fill[f].for})
    /\ Refill(f, IdleFill(fill[f].for))
    /\ UNCHANGED <<dayState, calendar, job, cache, due, reqs>>

\* ten seconds
Expire ==
    /\ cache # NONE
    /\ Mishap
    /\ cache' = NONE
    /\ UNCHANGED <<dayState, calendar, job, fill, due, shown, reqs>>

-----------------------------------------------------------------------------
Ask(t) == RequestClock(t) \/ RequestForm(t) \/ RequestDecision(t)

Handle(t) ==
    \/ CheckCalendar(t) \/ FindRow(t) \/ InsertRow(t) \/ WriteIn(t)
    \/ FindOpenDay(t) \/ FindRunning(t) \/ InsertBreak(t) \/ EndBreak(t) \/ WriteOut(t)
    \/ Publish(t)
    \/ CheckForm(t) \/ InsertForm(t) \/ CheckPending(t) \/ WriteDecision(t)
    \/ Fail(t)

Look(f) ==
    \/ \E m \in Managers : AskBoard(f, m)
    \/ GetCached(f) \/ ReadRecords(f) \/ ReadAbsences(f) \/ StartCount(f)
    \/ \E e \in Employees : Count(f, e)
    \/ SetCache(f) \/ BoardArrives(f) \/ BoardFails(f)

Next ==
    \/ \E t \in Handlers : Ask(t) \/ Handle(t)
    \/ \E f \in Fills : Look(f)
    \/ SetHoliday \/ (\E e \in Employees : SetSchedule(e))
    \/ Restart \/ Expire

Spec == Init /\ [][Next]_vars

-----------------------------------------------------------------------------
(* Properties.                                                             *)

PhaseOf(e) ==
    CASE record[e].out # 0 -> "done"
      [] record[e].out = 0 /\ record[e].in = 0 -> "new"
      [] record[e].out = 0 /\ record[e].in # 0 /\ Running(e) # {} -> "break"
      [] OTHER -> "working"

Day == INSTANCE WorkDay WITH
    Last <- MaxReq,
    phase <- [e \in Employees |-> PhaseOf(e)],
    clockIn <- [e \in Employees |-> record[e].in],
    clockOut <- [e \in Employees |-> record[e].out]

\* What overlapping requests may do: a moment that is recorded is replaced, a break begins
\* twice or outlasts the day.  They change no other day, take back neither clock-in nor
\* clock-out, and nobody leaves or rests without having come.
OnlyRaced ==
    \E e \in Employees :
        /\ raced[e]
        /\ PhaseOf(e) = "new" => PhaseOf(e)' \in {"new", "working"}
        /\ PhaseOf(e) # "new" => PhaseOf(e)' # "new"
        /\ PhaseOf(e) = "done" => PhaseOf(e)' = "done"
        /\ \A x \in Employees \ {e} : PhaseOf(x)' = PhaseOf(x) /\ record'[x] = record[x]

\* The chains of statements implement the indivisible day of WorkDay, across failures
\* and restarts (Attendance.service.ts:9, "multiple clock-ins/outs are rejected"; line
\* 199, "end it before clocking out"), until clock or break requests of an employee
\* overlap, each of which may decide on what the other is about to change: from then on
\* the employee's day is still whole, but not all of WorkDay holds of it.
DayIsOrderly == Day!DayInit /\ [][Day!DayNext \/ OnlyRaced]_(Day!dayVars)

\* A request that comes after the approval of leave does not clock in
\* (Attendance.service.ts:10): only one that had passed the check may.
LeaveBlocks == \A e \in Employees : OnLeave(e) => record[e].in <= leaveSince[e]

\* What the dashboard says of an employee who is expected today.
Truth(e) == [off |-> IF OnLeave(e) THEN "leave" ELSE IF ~workday[e] THEN "day_off" ELSE "no",
             clock |-> ClockOf(record[e]),
             pause |-> record[e].in # 0 /\ record[e].out = 0 /\ Running(e) # {}]

\* whoever is off is only counted as that
RightLine(line, e) == IF line.off = "no" THEN line = Truth(e) ELSE line.off = Truth(e).off

\* an employee whose change is stored and whose handler has not invalidated yet
Unpublished(e) == \E t \in Handlers : UserOf[t] = e /\ job[t].at = "publish"

\* A cached dashboard is the truth (Attendance.service.ts:702, "invalidated by
\* clock/break events"), unless a change overlapped its reading, the calendar changed,
\* a handler failed before it invalidated, or what it deletes could not be deleted.
CacheIsTrue ==
    cache # NONE /\ ~cache.stale =>
        \A e \in Employees : Unpublished(e) \/ RightLine(cache.board[e], e)

Quiet == /\ \A t \in Handlers : job[t] = Idle
         /\ \A f \in Fills : fill[f].at = "idle"
         /\ \A m \in Managers : due[m] = 0

\* When all is quiet a manager's page shows who works and who has left
\* (attendanceStore.handleAttendanceEvent).  Not so when what it shows was read while
\* that changed, and arrived late or came from the cache; when it did not hear of a
\* change, or the handler failed before telling; or when a load failed: the page then
\* keeps what it has until the next event.
BoardFollows ==
    Quiet => \A m \in Managers :
        shown[m] # NONE /\ ~shown[m].stale =>
            \A e \in Employees : shown[m].board[e].off = "no" =>
                                     shown[m].board[e].clock = ClockOf(record[e])
=============================================================================
