---------------------------- MODULE Announcements ----------------------------
(***************************************************************************)
(* Announcements: published at once or scheduled, edited, deleted and read *)
(* by people whose pages follow over the socket, while the scheduler of    *)
(* server.ts publishes what has come due (announcement.controller.ts,      *)
(* Announcement.service.ts, announcementRepository.ts,                     *)
(* announcementStore.ts, AnnouncementsView.tsx).                           *)
(*                                                                         *)
(* Handlers and scheduler ticks are chains of awaited statements outside   *)
(* any transaction; setInterval starts a tick whether or not the last one  *)
(* has ended.  A person has one request at a time.  Text, pinning, scope   *)
(* and reactions are left out: an announcement is its publication, its     *)
(* schedule and the number of its edits, and its audience is everybody.    *)
(* Pages are connected: a broadcast is applied when it is sent, an answer  *)
(* when it arrives.                                                        *)
(*                                                                         *)
(* Bounds: MaxTime (the last moment), MaxTurns edits, pages opened, cards  *)
(* clicked, failures and restarts altogether, as many overlapping ticks as *)
(* Ticks, as many announcements as Ids.                                    *)
(***************************************************************************)
EXTENDS Naturals, FiniteSets

CONSTANTS
    Users, Managers,    \* everybody, and those who may publish and see drafts
    Ids,                \* announcements that may be created
    Ticks,              \* runs of the scheduler that may overlap
    MaxTime, MaxTurns,
    NONE

ASSUME AnnouncementsAssumption ==
    /\ Managers \subseteq Users
    /\ MaxTime \in Nat \ {0} /\ MaxTurns \in Nat
    /\ NONE \notin [published : BOOLEAN, at : 0..MaxTime, edits : Nat]

VARIABLES
    now,        \* the clock
    used,       \* identifiers the table has given out
    row,        \* announcements
    reads,      \* announcement_reads
    told,       \* notifyRecipients calls, by who made them
    job,        \* the request each person waits for
    got,        \* the rows it has read back, which its answer carries
    tick,       \* the scheduler's runs
    fresh,      \* the row a run has read back
    page,       \* the cards on each person's page
    turns,      \* the counter behind the bound
    failed      \* history: a statement has failed or the server restarted

counters == <<turns, failed>>
vars == <<now, used, row, reads, told, job, got, tick, fresh, page, turns, failed>>

Times == 0..MaxTime             \* a schedule of 0 is NULL
Row == [published : BOOLEAN, at : Times, edits : Nat]
Card == [published : BOOLEAN, edits : Nat, read : BOOLEAN]
Job == [op : {"idle", "create", "edit", "delete", "read", "load"},
        at : {"insert", "look", "write", "remove", "record", "reread",
              "tell", "live", "emit", "list", "answer"},
        id : Ids \cup {NONE}, when : Times,
        draft : BOOLEAN]        \* is_published was 0 when the handler looked
Tick == [at : {"idle", "mark", "look", "tell", "emit"},
         todo : SUBSET Ids, id : Ids \cup {NONE}]

Idle == [op |-> "idle", at |-> "answer", id |-> NONE, when |-> 0, draft |-> FALSE]
Resting == [at |-> "idle", todo |-> {}, id |-> NONE]
Nothing == [i \in Ids |-> NONE]

CardsOrNone(f) == /\ DOMAIN f = Ids
                  /\ \A i \in Ids : f[i] = NONE \/ f[i] \in Card

TypeOK ==
    /\ now \in 1..MaxTime
    /\ used \subseteq Ids
    /\ DOMAIN row = Ids
    /\ \A i \in Ids : row[i] = NONE \/ row[i] \in Row
    /\ reads \in [Ids -> SUBSET Users]
    /\ told \in [Ids -> [tick : Nat, hand : Nat]]
    /\ job \in [Users -> Job]
    /\ DOMAIN got = Users /\ \A u \in Users : CardsOrNone(got[u])
    /\ tick \in [Ticks -> Tick]
    /\ DOMAIN fresh = Ticks
    /\ \A t \in Ticks : fresh[t] = NONE \/ fresh[t] \in Card
    /\ DOMAIN page = Users /\ \A u \in Users : CardsOrNone(page[u])
    /\ turns \in 0..MaxTurns /\ failed \in BOOLEAN

Init ==
    /\ now = 1
    /\ used = {}
    /\ row = Nothing
    /\ reads = [i \in Ids |-> {}]
    /\ told = [i \in Ids |-> [tick |-> 0, hand |-> 0]]
    /\ job = [u \in Users |-> Idle]
    /\ got = [u \in Users |-> Nothing]
    /\ tick = [t \in Ticks |-> Resting]
    /\ fresh = [t \in Ticks |-> NONE]
    /\ page = [u \in Users |-> Nothing]
    /\ turns = 0 /\ failed = FALSE

-----------------------------------------------------------------------------
(* Rows and cards.                                                         *)

Live(i) == row[i] # NONE /\ row[i].published
Due(i) == row[i] # NONE /\ ~row[i].published /\ row[i].at # 0 /\ row[i].at <= now

Visible(u, i) == row[i] # NONE /\ (u \in Managers \/ row[i].published)

CardFor(u, i) == [published |-> row[i].published, edits |-> row[i].edits,
                  read |-> u \in reads[i]]

\* findByIdWithStats: nobody's card
StatsCard(i) == [published |-> row[i].published, edits |-> row[i].edits, read |-> FALSE]

\* addAnnouncement, removeAnnouncement on every page but the one left out
Show(i, card, but) ==
    page' = [u \in Users |-> IF u = but THEN page[u] ELSE [page[u] EXCEPT ![i] = card]]

\* a schedule counts when it lies in the future; anything else is "now"
Scheduled(r, when) == IF when > now THEN [r EXCEPT !.at = when]
                      ELSE [r EXCEPT !.at = 0, !.published = TRUE]

\* mutant: a schedule in the future always makes a draft
Rescheduled(r, when, draft) ==
    IF when > now THEN [r EXCEPT !.at = when, !.published = FALSE]
    ELSE [r EXCEPT !.at = 0, !.published = TRUE]

\* updateAnnouncement writes the schedule only when it looked at a draft
Edited(r, when, draft) == IF draft THEN Scheduled(r, when) ELSE r

-----------------------------------------------------------------------------
(* Requests.                                                               *)

Turn == turns < MaxTurns /\ turns' = turns + 1

Ask(u, op, first, i, when) ==
    /\ job[u].op = "idle"
    /\ job' = [job EXCEPT ![u] = [op |-> op, at |-> first, id |-> i, when |-> when,
                                  draft |-> FALSE]]
    /\ UNCHANGED <<now, used, row, reads, told, got, tick, fresh, page, failed>>

\* a schedule in the past is as good as none
Schedules == {0} \cup now + 1..MaxTime

AskCreate(u) ==
    /\ u \in Managers
    /\ \E when \in Schedules : Ask(u, "create", "insert", NONE, when)
    /\ UNCHANGED turns

\* only a card that shows a draft offers its schedule
AskEdit(u) ==
    /\ u \in Managers
    /\ Turn
    /\ \E i \in Ids : \E when \in Schedules :
         /\ page[u][i] # NONE
         /\ page[u][i].published => when = 0
         /\ Ask(u, "edit", "look", i, when)

AskDelete(u) ==
    /\ u \in Managers
    /\ \E i \in Ids : page[u][i] # NONE /\ Ask(u, "delete", "look", i, 0)
    /\ UNCHANGED turns

\* a click on a card that is live and shown as unread
AskRead(u) ==
    /\ Turn
    /\ \E i \in Ids : /\ page[u][i] # NONE
                      /\ page[u][i].published /\ ~page[u][i].read
                      /\ Ask(u, "read", "look", i, 0)

AskList(u) ==
    /\ Turn
    /\ Ask(u, "load", "list", NONE, 0)

At(u, op, stage) == job[u].op \in op /\ job[u].at = stage
GoOn(u, stage) == job' = [job EXCEPT ![u].at = stage]
Refuse(u) ==
    /\ job' = [job EXCEPT ![u] = Idle]
    /\ got' = [got EXCEPT ![u] = Nothing]

Insert(u) ==
    /\ At(u, {"create"}, "insert")
    /\ \E i \in Ids \ used :
         LET r == Scheduled([published |-> FALSE, at |-> 0, edits |-> 0], job[u].when)
         IN /\ used' = used \cup {i}
            /\ row' = [row EXCEPT ![i] = r]
            /\ job' = [job EXCEPT ![u].at = IF r.published THEN "tell" ELSE "reread",
                                  ![u].id = i]
    /\ UNCHANGED <<now, reads, told, got, tick, fresh, page, counters>>

\* findById; markRead wants a live announcement
Look(u) ==
    /\ At(u, {"edit", "delete", "read"}, "look")
    /\ LET i == job[u].id
           first == [edit |-> "write", delete |-> "remove", read |-> "record"]
       IN IF row[i] = NONE \/ (job[u].op = "read" /\ ~row[i].published)
          THEN Refuse(u)
          ELSE /\ job' = [job EXCEPT ![u].at = first[job[u].op],
                                     ![u].draft = ~row[i].published]
               /\ UNCHANGED got
    /\ UNCHANGED <<now, used, row, reads, told, tick, fresh, page, counters>>

Write(u) ==
    /\ At(u, {"edit"}, "write")
    /\ LET i == job[u].id
       IN IF row[i] = NONE THEN Refuse(u) /\ UNCHANGED row
          ELSE /\ row' = [row EXCEPT ![i] = Edited([row[i] EXCEPT !.edits = @ + 1],
                                                   job[u].when, job[u].draft)]
               /\ GoOn(u, "reread") /\ UNCHANGED got
    /\ UNCHANGED <<now, used, reads, told, tick, fresh, page, counters>>

\* the ledger goes with the row
Remove(u) ==
    /\ At(u, {"delete"}, "remove")
    /\ LET i == job[u].id
       IN IF row[i] = NONE THEN Refuse(u) /\ UNCHANGED <<row, reads>>
          ELSE /\ row' = [row EXCEPT ![i] = NONE]
               /\ reads' = [reads EXCEPT ![i] = {}]
               /\ GoOn(u, "emit") /\ UNCHANGED got
    /\ UNCHANGED <<now, used, told, tick, fresh, page, counters>>

Record(u) ==
    /\ At(u, {"read"}, "record")
    /\ LET i == job[u].id
       IN IF row[i] = NONE THEN Refuse(u) /\ UNCHANGED reads
          ELSE /\ reads' = [reads EXCEPT ![i] = @ \cup {u}]
               /\ GoOn(u, "reread") /\ UNCHANGED got
    /\ UNCHANGED <<now, used, row, told, tick, fresh, page, counters>>

\* mutant: the edit that publishes a draft announces nothing
TellNobody(u) == IF job[u].op = "read" THEN "answer" ELSE "emit"

\* updateAnnouncement: it looked at a draft and reads back a live announcement
AfterReread(u) ==
    CASE job[u].op = "read" -> "answer"
      [] job[u].op = "edit" /\ job[u].draft /\ Live(job[u].id) -> "tell"
      [] OTHER -> "emit"

Reread(u) ==
    /\ At(u, {"create", "edit", "read"}, "reread")
    /\ LET i == job[u].id
       IN IF ~Visible(u, i) THEN Refuse(u)
          ELSE /\ got' = [got EXCEPT ![u][i] = CardFor(u, i)]
               /\ GoOn(u, AfterReread(u))
    /\ UNCHANGED <<now, used, row, reads, told, tick, fresh, page, counters>>

\* a failure in notifyRecipients is logged and forgotten
AfterTell(u) == IF job[u].op = "create" THEN "reread" ELSE "live"

Tell(u) ==
    /\ At(u, {"create", "edit"}, "tell")
    /\ LET i == job[u].id
       IN told' = IF job[u].op = "create" /\ row[i] = NONE THEN told
                  ELSE [told EXCEPT ![i].hand = @ + 1]
    /\ GoOn(u, AfterTell(u))
    /\ UNCHANGED <<now, used, row, reads, got, tick, fresh, page, counters>>

\* updateAnnouncement broadcasts the draft that went live, in the row's latest form
GoLive(u) ==
    /\ At(u, {"edit"}, "live")
    /\ LET i == job[u].id
       IN Show(i, IF row[i] = NONE THEN got[u][i] ELSE StatsCard(i), u)
    /\ GoOn(u, "emit")
    /\ UNCHANGED <<now, used, row, reads, told, got, tick, fresh, counters>>

\* mutant: the controller broadcasts drafts as well
EmitAll(u) ==
    /\ At(u, {"create", "edit", "delete"}, "emit")
    /\ Show(job[u].id, IF job[u].op = "delete" THEN NONE ELSE got[u][job[u].id], u)
    /\ GoOn(u, "answer")
    /\ UNCHANGED <<now, used, row, reads, told, got, tick, fresh, counters>>

\* the controllers: the row that was read back goes to everybody, as its editor sees it
Emit(u) ==
    /\ At(u, {"create", "edit", "delete"}, "emit")
    /\ LET i == job[u].id
       IN CASE job[u].op = "delete" -> Show(i, NONE, u)
            [] job[u].op # "delete" /\ got[u][i].published /\ row[i] # NONE ->
                 Show(i, got[u][i], u)
            [] OTHER -> UNCHANGED page
    /\ GoOn(u, "answer")
    /\ UNCHANGED <<now, used, row, reads, told, got, tick, fresh, counters>>

List(u) ==
    /\ At(u, {"load"}, "list")
    /\ got' = [got EXCEPT ![u] = [i \in Ids |-> IF Visible(u, i) THEN CardFor(u, i)
                                                ELSE NONE]]
    /\ GoOn(u, "answer")
    /\ UNCHANGED <<now, used, row, reads, told, tick, fresh, page, counters>>

Arrive(u) ==
    /\ At(u, {"create", "edit", "delete", "read", "load"}, "answer")
    /\ page' = [page EXCEPT ![u] = IF job[u].op = "load" THEN got[u]
                                   ELSE [@ EXCEPT ![job[u].id] = got[u][job[u].id]]]
    /\ Refuse(u)
    /\ UNCHANGED <<now, used, row, reads, told, tick, fresh, counters>>

-----------------------------------------------------------------------------
(* The scheduler.                                                          *)

\* mutant: what is due this very moment is left to the next run
StartTickLate(t) ==
    /\ tick[t].at = "idle"
    /\ {i \in Ids : Due(i) /\ row[i].at < now} # {}
    /\ tick' = [tick EXCEPT ![t] = [at |-> "mark", id |-> NONE,
                                    todo |-> {i \in Ids : Due(i) /\ row[i].at < now}]]
    /\ UNCHANGED <<now, used, row, reads, told, job, got, fresh, page, counters>>

StartTick(t) ==
    /\ tick[t].at = "idle"
    /\ {i \in Ids : Due(i)} # {}
    /\ tick' = [tick EXCEPT ![t] = [at |-> "mark", todo |-> {i \in Ids : Due(i)},
                                    id |-> NONE]]
    /\ UNCHANGED <<now, used, row, reads, told, job, got, fresh, page, counters>>

EndTick(t) ==
    /\ tick[t].at = "mark" /\ tick[t].todo = {}
    /\ tick' = [tick EXCEPT ![t] = Resting]
    /\ UNCHANGED <<now, used, row, reads, told, job, got, fresh, page, counters>>

TakeUp(t, i) == tick' = [tick EXCEPT ![t] = [at |-> "look", todo |-> @.todo \ {i}, id |-> i]]
Skip(t, i) == tick' = [tick EXCEPT ![t].todo = @ \ {i}]
GoBack(t) ==
    /\ tick' = [tick EXCEPT ![t].at = "mark", ![t].id = NONE]
    /\ fresh' = [fresh EXCEPT ![t] = NONE]

\* markPublished, whatever the schedule is by now
Mark(t) ==
    /\ tick[t].at = "mark"
    /\ \E i \in tick[t].todo :
         IF row[i] # NONE /\ ~row[i].published
         THEN row' = [row EXCEPT ![i].published = TRUE] /\ TakeUp(t, i)
         ELSE Skip(t, i) /\ UNCHANGED row
    /\ UNCHANGED <<now, used, reads, told, job, got, fresh, page, counters>>

ReadBack(t) ==
    /\ tick[t].at = "look"
    /\ LET i == tick[t].id
       IN IF row[i] = NONE
          THEN GoBack(t)
          ELSE /\ tick' = [tick EXCEPT ![t].at = "tell"]
               /\ fresh' = [fresh EXCEPT ![t] = StatsCard(i)]
    /\ UNCHANGED <<now, used, row, reads, told, job, got, page, counters>>

TickTell(t) ==
    /\ tick[t].at = "tell"
    /\ told' = [told EXCEPT ![tick[t].id].tick = @ + 1]
    /\ tick' = [tick EXCEPT ![t].at = "emit"]
    /\ UNCHANGED <<now, used, row, reads, job, got, fresh, page, counters>>

TickEmit(t) ==
    /\ tick[t].at = "emit"
    /\ Show(tick[t].id, fresh[t], NONE)
    /\ GoBack(t)
    /\ UNCHANGED <<now, used, row, reads, told, job, got, counters>>

-----------------------------------------------------------------------------
(* What goes wrong, and time.                                              *)

Mishap == Turn /\ failed' = TRUE

\* a statement throws: the request is answered 400, a notification is given up
Fault(u) ==
    /\ Mishap
    /\ job[u].op # "idle" /\ job[u].at # "answer" /\ ~At(u, {"delete"}, "emit")
    /\ IF job[u].at = "tell" THEN GoOn(u, AfterTell(u)) /\ UNCHANGED got ELSE Refuse(u)
    /\ UNCHANGED <<now, used, row, reads, told, tick, fresh, page>>

\* the run goes on with its next announcement
TickFault(t) ==
    /\ Mishap
    /\ \/ /\ tick[t].at = "mark" /\ \E i \in tick[t].todo : Skip(t, i)
          /\ UNCHANGED fresh
       \/ tick[t].at \in {"look", "emit"} /\ GoBack(t)
       \/ /\ tick[t].at = "tell" /\ tick' = [tick EXCEPT ![t].at = "emit"]
          /\ UNCHANGED fresh
    /\ UNCHANGED <<now, used, row, reads, told, job, got, page>>

\* answers on their way still arrive
Restart ==
    /\ Mishap
    /\ job' = [u \in Users |-> IF job[u].at = "answer" THEN job[u] ELSE Idle]
    /\ got' = [u \in Users |-> IF job[u].at = "answer" THEN got[u] ELSE Nothing]
    /\ tick' = [t \in Ticks |-> Resting]
    /\ fresh' = [t \in Ticks |-> NONE]
    /\ UNCHANGED <<now, used, row, reads, told, page>>

Clock ==
    /\ now < MaxTime
    /\ now' = now + 1
    /\ UNCHANGED <<used, row, reads, told, job, got, tick, fresh, page, counters>>

Handle(u) == \/ Insert(u) \/ Look(u) \/ Write(u) \/ Remove(u) \/ Record(u) \/ Reread(u)
             \/ Tell(u) \/ GoLive(u) \/ Emit(u) \/ List(u) \/ Arrive(u)
Run(t) == StartTick(t) \/ EndTick(t) \/ Mark(t) \/ ReadBack(t) \/ TickTell(t) \/ TickEmit(t)

Next ==
    \/ \E u \in Users : \/ AskCreate(u) \/ AskEdit(u) \/ AskDelete(u) \/ AskRead(u)
                        \/ AskList(u) \/ Handle(u) \/ Fault(u)
    \/ \E t \in Ticks : Run(t) \/ TickFault(t)
    \/ Restart
    \/ Clock

Spec == Init /\ [][Next]_vars

\* handlers end, the interval fires again and again
FairSpec == /\ Spec
            /\ \A u \in Users : WF_vars(Handle(u))
            /\ \A t \in Ticks : WF_vars(Run(t))

-----------------------------------------------------------------------------
(* Properties.                                                             *)

\* Nobody hears of a draft: while an announcement is one, no recipient has been
\* notified of it and only managers have its card (createAnnouncement, the
\* controllers, findAll, findByIdForUser).
DraftsStayPrivate ==
    \A i \in Ids : row[i] # NONE /\ ~row[i].published =>
        /\ told[i] = [tick |-> 0, hand |-> 0]
        /\ \A u \in Users \ Managers : page[u][i] = NONE

StageOf(i) ==
    IF i \notin used THEN "none" ELSE IF row[i] = NONE THEN "gone"
    ELSE IF row[i].published THEN "live" ELSE "draft"

Stages == [i \in Ids |-> StageOf(i)]
Heard == {i \in Ids : told[i].tick + told[i].hand > 0}
Runs == [i \in Ids |-> told[i].tick]

Promise == INSTANCE Publication WITH stage <- Stages, heard <- Heard, runs <- Runs

\* "a published announcement is already out there": handlers, runs, failures and
\* restarts, in any order, do to each announcement what Publication allows: no edit
\* that looked at a draft takes back what a run published meanwhile, nothing comes
\* back from its removal, and only what has gone live is announced.
KeepsPromise == Promise!Spec

\* What is due does not stay so: a run publishes it, whatever fails or restarts.
DueGoesLive == \A i \in Ids : Due(i) ~> ~Due(i)

\* While nothing fails, what is live is announced by the one who made it live:
\* request or run, neither leaves it to the other.
LiveIsAnnounced ==
    \A i \in Ids : Live(i) ~> \/ told[i].tick + told[i].hand > 0
                              \/ row[i] = NONE \/ failed

\* The run or the request that is to tell of it, having made it live.
Announcer(i) ==
    \/ \E t \in Ticks : tick[t].id = i /\ tick[t].at \in {"look", "tell"}
    \/ \E u \in Users :
          /\ job[u].id = i
          /\ \/ job[u].op = "create" /\ job[u].at = "tell"
             \/ job[u].op = "edit" /\ job[u].draft /\ job[u].at \in {"reread", "tell"}

\* ... and at no moment is it left to nobody: while nothing fails, what is live and
\* has not been announced has a run or a request that is about to, whichever of them
\* overlap (processDueScheduledAnnouncements, updateAnnouncement, createAnnouncement).
NothingForgotten ==
    ~failed => \A i \in Ids :
        Live(i) /\ told[i].tick + told[i].hand = 0 => Announcer(i)

\* A card tells its owner whether they have read it.
ReadIsMine ==
    \A u \in Users, i \in Ids :
        page[u][i] # NONE /\ page[u][i].read /\ row[i] # NONE => u \in reads[i]
=============================================================================
