------------------------------ MODULE Reminders ------------------------------
(***************************************************************************)
(* What the pollers of server.ts remind people of: a message, a meeting or *)
(* the deadline of a task (Reminder.service.ts, Meeting.service.ts,        *)
(* Task.service.ts and their repositories).                                *)
(*                                                                         *)
(* The three pollers share no table and no timer, so a behaviour looks at  *)
(* one kind.  A poll reads what is due and works through it, one awaited   *)
(* statement after the other, while people set, move and cancel reminders, *)
(* messages are deleted, meetings called off and tasks done; setInterval   *)
(* starts a poll whether or not the last one has ended.  A reminder has a  *)
(* message or meeting of its own; a task is its own reminder.  Texts,      *)
(* permissions and the socket's copy of a notification are left out.       *)
(*                                                                         *)
(* Bounds: MaxTime (the last moment), MaxTurns requests, changes of mind,  *)
(* failures and restarts altogether, as many overlapping polls as Polls;   *)
(* Batch stands for the LIMIT 100 of a poll.                               *)
(***************************************************************************)
EXTENDS Naturals, FiniteSets

CONSTANTS
    Users,
    Keys,       \* reminders that may be set, tasks that may be created
    Owner,      \* whose message or meeting reminder it is
    Polls,      \* runs of the poller that may overlap
    Batch, MaxTime, MaxTurns,
    NONE

ASSUME RemindersAssumption ==
    /\ Owner \in [Keys -> Users]
    /\ IsFiniteSet(Polls)
    /\ Batch \in Nat \ {0} /\ MaxTime \in Nat \ {0} /\ MaxTurns \in Nat

VARIABLES
    kind,       \* the poller this behaviour looks at
    now,
    row,        \* message_reminders, meeting_reminders or tasks
    open,       \* the message is there, the meeting scheduled, the task not done
    muted,      \* who has switched this kind of notification off
    job,        \* the request about each reminder that runs
    poll,       \* the poller's runs
    turns,      \* the counter behind the bound
    arms,       \* history: how often each was set (for a task: created)
    fired,      \* history: the notifications of each setting
    spared,     \* history: settings consumed for a muted user
    moved,      \* history: settings made while a run held the one before
    shared,     \* history: settings that two runs held at once
    failed      \* history: a statement has failed or the server restarted

history == <<arms, fired, spared, moved, shared>>
vars == <<kind, now, row, open, muted, job, poll, turns, history, failed>>

Times == 1..MaxTime
Arms == 0..MaxTurns
Somebody == Users \cup {NONE}

\* born: the setting that inserted the row, which gave it its id
Row == [at : Times, sent : BOOLEAN, who : Somebody, born : Arms, arm : Arms]
Item == [key : Keys, at : Times, who : Users, born : Arms, arm : Arms]
Poll == [at : {"idle", "loop", "wants", "notify", "mark"},
         todo : SUBSET Item, cur : Item \cup {NONE}, ids : SUBSET Item]
Job == [op : {"idle", "set", "drop"}, at : {"find", "write"}, born : Arms]

ASSUME NoneAssumption == NONE \notin Row \cup Item

Idle == [op |-> "idle", at |-> "write", born |-> 0]
Resting == [at |-> "idle", todo |-> {}, cur |-> NONE, ids |-> {}]

TypeOK ==
    /\ kind \in {"message", "meeting", "task"}
    /\ now \in Times
    /\ DOMAIN row = Keys
    /\ \A k \in Keys : row[k] = NONE \/ row[k] \in Row
    /\ open \in [Keys -> BOOLEAN]
    /\ muted \subseteq Users
    /\ job \in [Keys -> Job]
    /\ poll \in [Polls -> Poll]
    /\ turns \in 0..MaxTurns
    /\ arms \in [Keys -> Arms]
    /\ fired \in [Keys -> [Arms -> Nat]]
    /\ \A h \in {spared, moved, shared} : h \in [Keys -> SUBSET Arms]
    /\ failed \in BOOLEAN

Init ==
    /\ kind \in {"message", "meeting", "task"}
    /\ now = 1
    /\ row = [k \in Keys |-> NONE]
    /\ open = [k \in Keys |-> TRUE]
    /\ muted = {}
    /\ job = [k \in Keys |-> Idle]
    /\ poll = [p \in Polls |-> Resting]
    /\ turns = 0
    /\ arms = [k \in Keys |-> 0]
    /\ fired = [k \in Keys |-> [a \in Arms |-> 0]]
    /\ spared = [k \in Keys |-> {}] /\ moved = [k \in Keys |-> {}]
    /\ shared = [k \in Keys |-> {}]
    /\ failed = FALSE

Turn == turns < MaxTurns /\ turns' = turns + 1

-----------------------------------------------------------------------------
(* People.  A request begins with its first read.                          *)

Begin(k, request) ==
    /\ job[k].op = "idle"
    /\ job' = [job EXCEPT ![k] = request]
    /\ Turn
    /\ UNCHANGED <<kind, now, row, open, muted, poll, history, failed>>

\* findById: of the message, the meeting (which is never removed) or the task
Found(k) == CASE kind = "message" -> open[k]
              [] kind = "meeting" -> TRUE
              [] kind = "task" -> row[k] # NONE

\* setReminder, setMeetingReminder, createTask, updateTask
Set(k) ==
    /\ Found(k) \/ (kind = "task" /\ arms[k] = 0)
    /\ Begin(k, [op |-> "set", at |-> "write", born |-> 0])

\* cancelReminder, deleteTask; a meeting's reminder is deleted by the id the page shows
Drop(k) ==
    /\ row[k] # NONE /\ Found(k)
    /\ Begin(k, [op |-> "drop", at |-> IF kind = "message" THEN "find" ELSE "write",
                 born |-> row[k].born])

At(k, op, stage) == job[k].op = op /\ job[k].at = stage
Answer(k) == job' = [job EXCEPT ![k] = Idle]

\* findByMessageAndUser
Find(k) ==
    /\ At(k, "drop", "find")
    /\ IF row[k] # NONE /\ ~row[k].sent
       THEN job' = [job EXCEPT ![k] = [@ EXCEPT !.at = "write", !.born = row[k].born]]
       ELSE Answer(k)
    /\ UNCHANGED <<kind, now, row, open, muted, poll, turns, history, failed>>

Holds(p, k) ==
    \/ \E x \in poll[p].todo \cup poll[p].ids : x.key = k
    \/ poll[p].cur # NONE /\ poll[p].cur.key = k

\* a message's reminder is for an hour later; the others name a moment, past or to come
Moments == IF kind = "message" THEN now + 1..MaxTime ELSE now..MaxTime

\* INSERT ... ON DUPLICATE KEY UPDATE remind_at, is_sent = 0
Upsert(k) ==
    /\ At(k, "set", "write") /\ (kind = "task" => arms[k] = 0)
    /\ arms' = [arms EXCEPT ![k] = @ + 1]
    /\ moved' = IF \E p \in Polls : Holds(p, k)
                THEN [moved EXCEPT ![k] = @ \cup {arms'[k]}] ELSE moved
    /\ \E when \in Moments :
       \E who \in IF kind = "task" THEN Somebody ELSE {Owner[k]} :
         row' = [row EXCEPT ![k] =
                   [at |-> when, sent |-> FALSE, who |-> who, arm |-> arms'[k],
                    born |-> IF @ = NONE THEN arms'[k] ELSE @.born]]
    /\ Answer(k)
    /\ UNCHANGED <<kind, now, open, muted, poll, turns, fired, spared, shared, failed>>

\* updateTask: due date, assignee and status, those that are given, in one statement; what
\* was reminded stays reminded
UpdateTask(k) ==
    /\ At(k, "set", "write") /\ kind = "task" /\ arms[k] > 0
    /\ \/ /\ row[k] # NONE
          /\ \E when \in Moments \cup {row[k].at}, who \in Somebody :
                row' = [row EXCEPT ![k] = [@ EXCEPT !.at = when, !.who = who]]
          /\ \E o \in BOOLEAN : open' = [open EXCEPT ![k] = o]
       \/ row[k] = NONE /\ UNCHANGED <<row, open>>
    /\ Answer(k)
    /\ UNCHANGED <<kind, now, muted, poll, turns, history, failed>>

Delete(k) ==
    /\ At(k, "drop", "write")
    /\ row' = IF row[k] # NONE /\ row[k].born = job[k].born
              THEN [row EXCEPT ![k] = NONE] ELSE row
    /\ Answer(k)
    /\ UNCHANGED <<kind, now, open, muted, poll, turns, history, failed>>

\* a message is deleted for good; a meeting is called off and scheduled again
Toggle(k) ==
    /\ (kind = "message" /\ open[k]) \/ kind = "meeting"
    /\ Turn
    /\ open' = [open EXCEPT ![k] = ~@]
    /\ UNCHANGED <<kind, now, row, muted, job, poll, history, failed>>

Mute(u) ==
    /\ Turn
    /\ muted' = IF u \in muted THEN muted \ {u} ELSE muted \cup {u}
    /\ UNCHANGED <<kind, now, row, open, job, poll, history, failed>>

-----------------------------------------------------------------------------
(* The poller.                                                             *)

\* mutant: is_sent is not asked for
DueAgain(k) ==
    /\ row[k] # NONE /\ row[k].at <= now
    /\ kind = "task" => open[k] /\ row[k].who # NONE

\* mutant: a task without an assignee is due as well
DueUnassigned(k) ==
    /\ row[k] # NONE /\ ~row[k].sent /\ row[k].at <= now
    /\ kind = "task" => open[k]

\* findDueReminders, findUnremindedDueTasks
Due(k) ==
    /\ row[k] # NONE /\ ~row[k].sent /\ row[k].at <= now
    /\ kind = "task" => open[k] /\ row[k].who # NONE

ItemOf(k) == [key |-> k, at |-> row[k].at, who |-> row[k].who,
              born |-> row[k].born, arm |-> row[k].arm]

\* the earliest, a batch of them; all the tasks
Batches ==
    LET due == {k \in Keys : Due(k)}
    IN {d \in SUBSET due :
          /\ d # {}
          /\ \A k \in d, j \in due \ d : row[k].at <= row[j].at
          /\ IF kind = "task" \/ Cardinality(due) <= Batch
             THEN d = due ELSE Cardinality(d) = Batch}

Start(p) ==
    /\ poll[p].at = "idle"
    /\ \E d \in Batches :
         /\ poll' = [poll EXCEPT ![p] = [at |-> "loop", todo |-> {ItemOf(k) : k \in d},
                                         cur |-> NONE, ids |-> {}]]
         /\ shared' = [k \in Keys |->
              IF k \in d /\ \E q \in Polls : Holds(q, k)
              THEN shared[k] \cup {row[k].arm} ELSE shared[k]]
    /\ UNCHANGED <<kind, now, row, open, muted, job, turns, arms, fired, spared, moved, failed>>

Skip(p, x) == poll' = [poll EXCEPT ![p].todo = @ \ {x}]
Consume(p) == poll' = [poll EXCEPT ![p] = [at |-> "loop", todo |-> @.todo, cur |-> NONE,
                                           ids |-> @.ids \cup {@.cur}]]
GoBack(p) == poll' = [poll EXCEPT ![p] = [@ EXCEPT !.at = "loop", !.cur = NONE]]
GoTo(p, stage) == poll' = [poll EXCEPT ![p].at = stage]

\* The next one, the earliest first; tasks come in no order.  What has lost its message,
\* or whose meeting is off, is left as it is, to be found again; a task was read as a whole.
Take(p) ==
    /\ poll[p].at = "loop"
    /\ \E x \in poll[p].todo :
         /\ kind = "task" \/ \A y \in poll[p].todo : x.at <= y.at
         /\ IF kind = "task" \/ open[x.key]
            THEN poll' = [poll EXCEPT ![p] = [at |-> "wants", todo |-> @.todo \ {x},
                                             cur |-> x, ids |-> @.ids]]
            ELSE Skip(p, x)
    /\ UNCHANGED <<kind, now, row, open, muted, job, turns, history, failed>>

\* after the notification, or instead of it
Done(p) == IF kind = "task" THEN GoTo(p, "mark") ELSE Consume(p)

\* mutant: the reminder of a muted user is left for the next poll
LeaveMuted(p) == IF kind = "task" THEN GoTo(p, "mark") ELSE GoBack(p)
DoneMuted(p) == Done(p)

\* isEnabled
Wants(p) ==
    /\ poll[p].at = "wants"
    /\ LET x == poll[p].cur
       IN IF x.who \in muted
          THEN DoneMuted(p) /\ spared' = [spared EXCEPT ![x.key] = @ \cup {x.arm}]
          ELSE GoTo(p, "notify") /\ UNCHANGED spared
    /\ UNCHANGED <<kind, now, row, open, muted, job, turns, arms, fired, moved, shared, failed>>

\* notificationRepository.create, sendToUser
Notify(p) ==
    /\ poll[p].at = "notify"
    /\ fired' = [fired EXCEPT ![poll[p].cur.key][poll[p].cur.arm] = @ + 1]
    /\ Done(p)
    /\ UNCHANGED <<kind, now, row, open, muted, job, turns, arms, spared, moved, shared, failed>>

\* UPDATE ... WHERE id IN: the rows that still have the ids
MarkSent(items) ==
    row' = [k \in Keys |->
              IF \E x \in items : row[k] # NONE /\ x.key = k /\ x.born = row[k].born
              THEN [row[k] EXCEPT !.sent = TRUE] ELSE row[k]]

\* markDeadlineReminded
Mark(p) ==
    /\ poll[p].at = "mark"
    /\ MarkSent({poll[p].cur})
    /\ GoBack(p)
    /\ UNCHANGED <<kind, now, open, muted, job, turns, history, failed>>

\* mutant: everything the run has found is marked
EndAll(p) ==
    /\ poll[p].at = "loop" /\ poll[p].todo = {}
    /\ row' = [k \in Keys |-> IF Due(k) THEN [row[k] EXCEPT !.sent = TRUE] ELSE row[k]]
    /\ poll' = [poll EXCEPT ![p] = Resting]
    /\ UNCHANGED <<kind, now, open, muted, job, turns, history, failed>>

\* markAsSent, all at once
End(p) ==
    /\ poll[p].at = "loop" /\ poll[p].todo = {}
    /\ MarkSent(poll[p].ids)
    /\ poll' = [poll EXCEPT ![p] = Resting]
    /\ UNCHANGED <<kind, now, open, muted, job, turns, history, failed>>

-----------------------------------------------------------------------------
(* What goes wrong, and time.                                              *)

Mishap == Turn /\ failed' = TRUE

\* a failure in the loop passes over the reminder; one of markAsSent ends the run
PollFault(p) ==
    /\ Mishap
    /\ \/ /\ poll[p].at = "loop" /\ kind # "task"
          /\ \E x \in poll[p].todo : Skip(p, x)
       \/ poll[p].at \in {"wants", "notify", "mark"} /\ GoBack(p)
       \/ /\ poll[p].at = "loop" /\ poll[p].ids # {}
          /\ poll[p].todo = {}
          /\ poll' = [poll EXCEPT ![p] = Resting]
    /\ UNCHANGED <<kind, now, row, open, muted, job, history>>

Restart ==
    /\ Mishap
    /\ job' = [k \in Keys |-> Idle]
    /\ poll' = [p \in Polls |-> Resting]
    /\ UNCHANGED <<kind, now, row, open, muted, history>>

Clock ==
    /\ now < MaxTime
    /\ now' = now + 1
    /\ UNCHANGED <<kind, row, open, muted, job, poll, turns, history, failed>>

Handle(k) == Find(k) \/ Upsert(k) \/ UpdateTask(k) \/ Delete(k)
Run(p) == Start(p) \/ Take(p) \/ Wants(p) \/ Notify(p) \/ Mark(p) \/ End(p)

Next ==
    \/ \E k \in Keys : Set(k) \/ Drop(k) \/ Handle(k) \/ Toggle(k)
    \/ \E u \in Users : Mute(u)
    \/ \E p \in Polls : Run(p) \/ PollFault(p)
    \/ Restart
    \/ Clock

Spec == Init /\ [][Next]_vars

\* handlers end, the interval fires again and again
FairSpec == /\ Spec
            /\ \A k \in Keys : WF_vars(Handle(k))
            /\ \A p \in Polls : WF_vars(Run(p))

-----------------------------------------------------------------------------
(* Properties.                                                             *)

\* "skip failed reminders" only: what is marked as sent reached its user, unless they
\* muted it or it was set anew while a run held the one before (markAsSent,
\* markDeadlineReminded).
SentWasReminded ==
    \A k \in Keys : row[k] # NONE /\ row[k].sent =>
        fired[k][row[k].arm] > 0 \/ row[k].arm \in spared[k] \cup moved[k]

\* A setting is notified of once, unless something failed or another run had
\* found it too; then once by each.
RemindedOnce ==
    ~failed => \A k \in Keys, a \in Arms :
        fired[k][a] <= IF a \in shared[k] THEN Cardinality(Polls) ELSE 1

\* Due, but without its message or meeting: found by every poll, sent by none.
InTheWay(k) == {j \in Keys : Due(j) /\ ~open[j] /\ row[j].at <= row[k].at}

\* What is due is dealt with, whatever fails, unless its message or meeting is gone,
\* or as many of those as a poll reads come before it ("just consume the due
\* reminder so it is not retried forever").
DueIsDealtWith ==
    \A k \in Keys : Due(k) ~> \/ ~Due(k) \/ ~open[k]
                             \/ Cardinality(InTheWay(k)) >= Batch
=============================================================================
