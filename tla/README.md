# KneaChat: verification project

KneaChat is a workspace chat: a React client with Zustand stores, a Node server with
Express controllers over MySQL, and a WebSocket (`ws`) between them for everything
live. This directory holds TLA+ models of the parts whose correctness depends on the
order in which things happen, the TLC configurations that check them on small
instances, and TLAPS proofs for every value of the constants.

All paths below are relative to `src/`.

## The system and its parts

| Part | State it keeps | Operations | Talks to |
|---|---|---|---|
| `WebSocketService` (`client/src/shared/lib/websocket.ts`) | current socket, sockets to close, offline queue, token, retry counter and timer, heartbeat and pong timers, indicator | `connect`, `disconnect`, `send`, socket callbacks, retry and heartbeat timers | authStore drives it; all stores send through it |
| Session (`authStore.ts`, `App.tsx`, `api.ts`) | token, user | login, register, logout, restore on page load, the 401 redirect | the socket service, every store's `clear` |
| Connection registry and heartbeat (`server/src/websocket/websocket.server.ts`, `connection.registry.ts`) | `userConnections`, `isAlive` of each socket | connection, close, heartbeat, dispatch of events *without waiting for the handler* | every handler |
| Presence (`presence.handler.ts`, `userStore.ts`) | each tab's list of who is online | `user_online`, `presence_snapshot`, `user_offline` | registry, every tab |
| Calls (`call.handler.ts`, `callStore.ts`, the two call modals) | `activeCalls`; per tab `active`, `incoming`, `rtc` and timeouts | start, accept, decline, missed, end, no answer, clear; eight events | registry, notifications, WebRTC |
| `WebRTCManager` (`webrtc.ts`) | one peer connection per participant, candidates that wait | participants, offer, answer, candidate, teardown | signalling over the socket |
| Messages (`message.handler.ts`, `message.controller.ts`, `Message.service.ts`, `chatStore.ts`) | rows, reactions, notifications; per tab the messages of each open conversation | send, forward, edit, delete, react, pin, load | socket and REST at once |
| Typing (`typing.handler.ts`, `chatStore.typing`) | per tab who is typing where | start, stop | member lookups |
| Attendance and leave (`Attendance.service.ts`, `Leave.service.ts`, `attendanceStore.ts`, ...) | one record per employee and day, breaks, requests; a cached dashboard; per manager the dashboard on the page | clock in and out, breaks, overtime, requests and decisions, the dashboard | schedules, holidays, the cache, `attendance.events.ts` |
| Announcements (`Announcement.service.ts`, `announcement.controller.ts`, `announcementStore.ts`, an interval of `server.ts`) | rows with a schedule, who has read them; per page the cards | create, schedule, edit, delete, read, publish what is due | notifications, broadcasts |
| Reminders (`Reminder.service.ts`, `Meeting.service.ts`, `Task.service.ts`, three intervals of `server.ts`) | reminders of messages and meetings, tasks with a deadline | set, move, cancel, mute, poll | notifications, preferences |
| Omni-channel inbox (`OmniChannel.service.ts`, `integrations/*`) | shadow users, contacts, conversations, messages with their ledger rows, mails in flight, delivery states and failure counts, assignments | inbound messages, replies, opening and closing, assignment | Telegram, mail, the website widget |
| Workspace (`Team`, `Channel`, `Conversation`, `Permission` services) | teams, channels, conversations, members | create, join, leave, remove | notifications, workspace events |
| Tasks, meetings, files, bookmarks | rows with a status | create, submit, review | notifications |
| Administration, search, metrics, rate limiting, cache | rows, counters | CRUD and queries | |

How they interact. A tab sends events over its socket; `handleMessage` starts the
handler and returns, so two events of one tab are handled *concurrently* from their
first `await` on. Handlers look up rows and then send to every open socket of some
users. REST requests run beside that, in a transaction only in few places. On the
client every callback runs to completion, and the stores are cleared on logout.

### What is hard here

* The socket life cycle on the client: `connect` is called by login, by page load and
  by the retry timer, `disconnect` may come while a socket is opening, every callback
  may belong to a socket that is no longer current.
* The server learns that a browser is gone from `close`, or from two heartbeats, or
  (after a restart) not at all.
* A handler that awaits a lookup may be overtaken by the next event of the same call.
* A tab may have a session on screen that is over on the other side, and the other way
  around; events of an earlier call arrive during the next one.
* Chains of database statements without a transaction (inbound mail, replies,
  attendance, announcements, reminders): requests interleave between any two, a failure
  leaves the first half, and a provider delivers the same mail again.
* Events of the socket and answers of REST requests are ordered with nothing: a page that
  loads has its snapshot overtaken by the events of what happens meanwhile.
* `setInterval` starts a run of a poller whether or not the last one has ended.
* The cached dashboard is filled by a handler that read before the invalidation.

The full list, each at its line, is under `hazards` in `PROJECT.json`, with the
properties that cover it or the reason why none does.

### What makes each part correct

* Socket service: at most one live connection, nothing of one session carried in
  another, payloads in order, an indicator that does not lie, a connection that comes
  back or an honest failure.
* Presence: a tab that stays connected ends up showing exactly who is connected.
* Calls: only an accepted call is shown as connected; no event or timer of one call
  touches another; a call nobody answered leaves a notice; the screen gets clear.
* Messages: each message once, in one order, nothing that arrived is lost by a load;
  an indicator of typing that goes away.
* Attendance: each day arrives, pauses, resumes and leaves in that order and only once,
  whatever fails; leave blocks clock-ins; a dashboard that is shown is true.
* Announcements: a draft stays with the managers, what is due goes live, what is live is
  announced, by at most one run of the scheduler.
* Reminders: what is marked as sent was sent, once; what is due does not stay so.
* Omni: an inbound message is stored once and announced, a mail that was acknowledged
  is not lost, a reply joins the conversation it refers to; an agent's reply that has left
  is on record, and every page shows what became of it.

## The modules

| Module | Models | Extends |
|---|---|---|
| `ClientSocket` | the socket service and the session that drives it | |
| `Presence` | registry, heartbeat, presence events, every tab's list | |
| `Calls` | `CallHandler` and the callStore of every tab, one-to-one calls | |
| `OmniChannel` | constants that the next two share | |
| `OmniInbound` | the email webhook and `processInbound`, statement by statement | `OmniChannel` |
| `OmniReplies` | agents' replies by mail and by other channels, failure flags, the pages of the inbox | `OmniChannel` |
| `Chat` | the messages of one conversation: rows, handlers, events, the copy in each browser | |
| `WorkDay` | abstract: one employee's day | |
| `Attendance` | a day of attendance as chains of statements, leave and overtime, the cached dashboard | instance of `WorkDay` |
| `Publication` | abstract: the life of an announcement | |
| `Announcements` | requests, overlapping runs of the scheduler, the cards on each page | instance of `Publication` |
| `Reminders` | the three pollers and the requests that race with them | |

Each of these but the abstract ones and `OmniChannel` has an instance for TLC in
`MC<module>`, and theorems in `<module>Proofs`, which extends the module and `TLAPS`.
`OmniProofs` has those of both halves of the omni-channel inbox, whose variables and
actions have different names for that reason.
Which definition stands for which lines is under `map` in `PROJECT.json`. A definition
whose comment begins with "mutant" is never part of a specification: it is a plausible
mistake in the code, against which the properties are tried.

A request is modelled in the same way everywhere: it is cut at its `await`s, a variable
(`job`, `work`, `at`, `fill`, `tick`, `poll`) says which statement comes next, and each
statement is an action that other requests interleave with. What a handler keeps in its
locals across an `await` is kept in that variable, however stale it gets. History
variables guard nothing; each is marked as one where it is declared.

### ClientSocket

One browser page. `readyState` and `auth` give each WebSocket object its state and the
account whose token it was opened with; `socket`, `socketsToClose`, `queue`, `token`,
`manualClose`, `reconnectAttempts`, `reconnectTimer`, `heartbeatTimer` and `pongTimer` are
the service's fields. `Login`, `Logout`, `Reload`, `SessionExpired`, `Send` are what the
page does, `Open`, `OpenDoomed`, `Close` (current or stale), `Pong` are the socket's
callbacks and `Reconnect`, `HeartbeatTick`, `PongTimeout` its timers. Payloads are
reduced to the account in whose session they were sent. The listener table (`on`,
`off`, `emit`) is plumbing; the status it reports is a variable.

### Presence

Users with several tabs. The server's registry, what each connection knows of its own
liveness (`isAlive`), the events on their way to each tab (FIFO per connection) and
each tab's list. A connection closes in two steps, so that `handleClose` runs when the
socket is already closed; `Heartbeat` terminates who did not answer and asks the rest;
`Restart` empties the server. `Leave` is a tab that closes or signs out, `Drop` one
that loses its connection and keeps its list.

### Calls

Two users, each with tabs. A handler is cut at its first `await`: `Handle` takes the
event and leaves a task, and the `Finish...` actions are the rest of the handler, in
any order. `HandleEnd` and `HandleSignal` do not await before they act; `HandleEnd`
leaves a task only when it has a missed-call notice to store. On the tab `StartCall`,
`Accept`, `Decline`, `Missed`, `EndCall`, `NoAnswer` are what the user and the ring
timeouts do, `HandleIncoming`, `HandleAccepted`, `HandleClosed`, `HandleMesh` and
`Ignored` the store's handlers, split by whether the event is for the active call.
`ClearAfter` is the timeout that takes a session that is over off the screen.
The history variables (`rung`, `answered`, `refused`, `over`, `hungUp`, `dialled`) do
not influence any action but `dialled`, which stands for what `call_start` told both
sides. Abstracted: names, avatars, call types, the notification's wording; assumed:
the callee has not switched missed-call notifications off, and the lookups succeed.

### OmniInbound

A provider posts a mail to the webhook until it is answered 200, one request at a time,
but stops waiting when it likes (`GiveUp`) and posts again. Each request the server is at
is an element of `Attempts`; `work` says which statement it runs next. The actions of
`Step` are the statements that change or read tables in `findOrCreateContact`,
`findOrCreateConversation` and `createInboundMessage`, in the code's order: `shadows`
are rows of `users`, `contacts` of `external_contacts`, `threads` of
`external_conversations`, `rows` counts the rows of `messages` and `ledger` is
`external_messages`, which is unique. `inFlight` is the controller's map: `Deliver` looks
into it, `Settle` takes an entry out when *any* attempt at the mail ends, `Expire` after
five minutes. `Fault` is a statement that throws, `FindThread` one that throws inside the
two `try` blocks which fall through to the next way to group, `Crash` a restart.
`SetStatus` is an agent who opens or closes a conversation. `vouched`, `late`, `grouped`
and `excused` are history.

Abstracted: subjects and addresses are values; attachments, notifications and members are
part of the step they belong to, because their failure is the failure of that step.
Assumed: each mail has a Message-ID and each request one mail; `users.email` is unique
(`docs/SRS.md`), as is `(channel, external_message_id)`.

### OmniReplies

One conversation, of a channel fixed at the start. By mail (`sendEmailWithStatus`) a reply
looks up what it answers, stores its message, records it as pending, sends, marks it and
tells; by another channel (`sendAgentReply`) it sends first and stores afterwards. `Proceed`
holds the order of the steps, `at` where each request is. The provider takes a reply
(`SendAccepted`), refuses it (`SendRefused`), or may have taken it although the call
throws (`SendUnheard`). `Break` is a statement that throws or a process that ends, at any
step. The customer's own letters (`Arrive` to `TellLetter`) move the thread on, reset
the failure count when they reopen the conversation, and may fail at the best-effort
statements. `shown` and `flag` are what the page of each agent lists and flags: `ShowOn`
is `addMessage`, which ignores a message that is already there. A page reads its inbox and
the messages of a conversation by REST, and what was read replaces what the page has when
the answer arrives (`ReadInbox` to `InboxArrives`, `ReadList` to `ListArrives`), over any
event in between; `inboxes` and `lists` are the answers under way. A broadcast reaches the
pages that are connected, none when its member lookup fails (`Tell`, `TellFailed`,
`RaiseFlag`, `TellLetter`); its request goes on. `unflagged` and `missed` are history: the
failures a page did not hear of or had overwritten by an older answer, and the replies.
Not modelled here: assignment (the last write wins) and who may see the conversation.

### Chat

The rows of `messages` with content, reactions and pin, the notifications that point at
them, two handlers at once (`Slots`), the events on each socket in order, the answers of
REST calls in no order, and `cache`, the list a browser keeps. `RequestNew`,
`RequestChange`, `RequestReact`, `RequestPin` begin a request as the store does; the actions
of `Handle` are its statements; `Receive` applies the next event, `ReplyArrives` an answer,
`Open` to `LoadArrives` a load, whose snapshot *replaces* the list. `Disconnect` loses what
is on the socket, and nothing is fetched on reconnection. `drops` numbers the connections of
a member, and a handler keeps the number of the one it was asked on (`conn`): the sender is
acknowledged on that connection and left out of the broadcast, so who has reconnected
meanwhile gets neither (`DeliverMessage`). A broadcast whose member lookup fails is
swallowed, and a query that fails ends the handler, before its write (`GiveUp`) or after it
(`GiveUpLate`). A load reads the newest `Limit` rows (`LiveRows`). `stale` is the history
that says which rows a browser cannot be expected to show right: those of which an event was
lost, not sent to it, or overtaken by a load or by a second handler, and those older than
the page it loaded. It lists what the code loses, and `Converged` says that there is nothing
else. What `filter` leaves of a list, and the rows of a load, are listed by `InOrder`, the
increasing enumeration of a set of positions or ids, which the prover can reason about where
it cannot unfold a recursive function over sequences. The number of handlers (`Slots`) is
finite, as the connections of a server are.

### WorkDay and Attendance

`WorkDay` is the promise: a day arrives once, pauses and resumes, leaves once and not from
a break. `Attendance` has the statements: `RequestClock` starts a clock request,
`CheckCalendar`, `FindRow`, `InsertRow`, `WriteIn` are `clockIn`, `FindOpenDay`,
`FindRunning`, `InsertBreak`, `EndBreak`, `WriteOut` the other three, and `Publish` the
end of all: invalidate the cached dashboard, tell the managers. `RequestForm`
and `RequestDecision` are leave and overtime. `Handlers` are the requests the server may be
at, several of one employee too: the busy flag of `AttendanceView` goes with the component,
so a second page, or a reload while the handler still runs, asks again. `raced` is the
history that says whose clock and break requests have overlapped, and `OnlyRaced` is all
that such an overlap may do to a day beyond `WorkDay`.
A dashboard (`Fills`) is asked for, taken from the cache or read (records and absences in
either order, because the code awaits them together), counted, cached and answered, and
answers arrive in any order; a load that fails leaves the page what it has (`BoardFails`).
`status_changed` reaches the pages whose socket is open (`Reach`), and none of the others
asks again when it reconnects. `Fail` is a statement that throws, `Restart` a process that
ends, and the cache with it unless it is Redis, `SetHoliday` and `SetSchedule` the
calendar. `stale` on a cached or shown dashboard is history: what it counts has changed
since it was read, and nothing will put it right.

### Publication and Announcements

`Publication` is the promise: `none`, `draft`, `live`, `gone`, never backwards;
recipients are notified of what has gone live only, and by the scheduler once.
`Announcements` has the requests of the page (create, edit, delete, read, load) as chains
of statements, and runs of the scheduler (`Ticks`) that overlap: each reads what is due,
and for each announcement claims it (`Mark`, the conditional update), reads it back,
notifies and broadcasts. An edit remembers in `draft` what it saw when it looked.
`Fault`, `TickFault` and `Restart` strike anywhere.

### Reminders

The three pollers are one module, because they are written alike, and three kinds, because
they differ in what they check: `kind` picks one at the start. `Set`, `Drop`, `Toggle`
and `Mute` are the people's side, `Start`, `Take`, `Wants`, `Notify`, `Mark` and `End` a
poll's. Messages and meetings are marked all together at the end of the poll, tasks one
by one. `born` and `arm` number the settings of a reminder, so that a notification is
known to be of the setting it was found with.

## The runs

| Run | What it asks | Result |
|---|---|---|
| `ClientSocket` | one connection, isolation of sessions, honest indicator, nobody stranded; reconnects, dead peers detected, logout closes | holds |
| `Presence` | nobody missing, no ghosts on fresh tabs; leavers go offline | holds |
| `Calls` | two calls: connected means answered, notices, no session ended by something of another call | holds |
| `CallsLossy` | one call with lost connections and signals: sessions leave the screen | holds |
| `OmniInbound` | acknowledged means saved, but for one exception; replies join their conversation; what is saved is announced | holds |
| `OmniDelivery` | no mail is stored twice but for the gap the documents admit; every mail is saved in the end, but for two exceptions | holds |
| `OmniReplies` | what has left is on record, threads start at something received, failures are counted and flagged, pages show the outcome | holds |
| `Chat` | no message twice, copies agree with the table once all has landed, no notification of a deleted message | holds |
| `Attendance` | the statements implement `WorkDay` for whoever's requests do not overlap; leave blocks; the cached dashboard and the pages tell the truth, but for what is lost or read too early | holds |
| `Announcements` | the statements implement `Publication`; drafts private, nothing forgotten; due goes live, live is announced | holds |
| `AnnouncementsRead` | a card says whether its owner has read it | violated, see below |
| `Reminders` | marked means reminded, once; due is dealt with | holds |

Bounds. `ClientSocket`: two accounts (the least for isolation), three sockets (one
live, one being let go of, one opening), two retries, a queue of two. `Presence`: Ann
on two tabs and Bob on one, four sockets to hand out again once they are forgotten; two
tabs of one user are what "last connection" is about, and the events in flight are
bounded by the connections. `Calls`: one tab each, two calls (a call and a call
that is late for it, or crossing calls) with one handler waiting; and, for handlers
that overtake each other and for faults, one call with two handlers waiting, a drop and
a signal. A third call or tab adds only more of the same pairs. `MaxDrops`, `MaxTasks`
and `MaxSignals` bound the number of connections lost, of handlers between their
awaits and of signals under way; a larger bound only adds behaviours. `OmniInbound`: a
mail and a reply to it, two requests at once, one mishap (a failed statement, a restart or
an expired entry), four conversations, one turn of an agent. `OmniDelivery` has one mail
and three mishaps: an entry that expires, an attempt that fails and takes another one's
entry out, and a failure of that one. The liveness property shows that no bound on
conversations stops anybody.

`OmniReplies`: two replies by two agents, each on a page, a letter of the customer, a
mishap and a read of the inbox or of the messages, whose answer anything may overtake;
every hazard listed is about two of these (10.6 million states, the largest run). `Chat`:
an old row and a new one, pages of one row, so that the old one falls off, two requests at
once, two loads and one lost connection (2.0 million). `Attendance`: one employee (days of
two share only the dashboard) with two requests at once, and a manager who decides and
whose page looks at two dashboards; three requests, enough to come, rest and try to leave
and for a race of the last two, one form, one mishap; dashboards are asked for until the
second request, enough for an older answer to arrive last (1.9 million). `Announcements`: one
announcement, a manager and an employee, two runs that overlap, two turns of people or
mishaps, three moments. `Reminders`: two reminders and polls that read one at a time, so
that one crowds the other out; two moments and three turns. With two moments a message
reminder is not set anew under a run, since that takes an hour; with three the invariants
were checked once and hold.

Symmetry is used where elements are interchangeable and only invariants or action properties
are checked: attempts in `OmniInbound`, slots in `Chat`, the employee's two handlers and the
dashboards in `Attendance`, the two agents with their pages and replies in `OmniReplies`.

Deadlock is not checked where the bound on faults or requests lets the system stop: a page
that nobody uses is quiet.

Fairness. `ClientSocket`: a socket that is connecting opens or fails, a closing one
closes, and the timers of the service fire; the user owes nothing. `Presence`: the
heartbeat interval runs, a closed socket's handler runs and events are delivered.
`Calls`: only the timeouts the store sets itself. The ring timeouts are not fair
because the modals that own them exist only while the dashboard is mounted, so nothing
in the code promises that a ring ends; no property relies on it. `OmniInbound`: a
statement returns or throws, and the provider posts a mail it has no 200 for again (strong
fairness: it may find every slot busy in between). `Announcements` and `Reminders`: a
handler that has begun goes on, because a query is answered or throws, and the intervals
of `server.ts` fire again and again; nobody has to click. `Chat`, `Attendance` and
`OmniReplies` have no liveness property: their promises about "in the end" are stated of
the states in which nothing runs any more.

## What is proved

Everything is proved for any number of accounts, users, tabs, sockets, requests and runs
and every bound, from the named assumptions on the constants in the modules. The type
invariants were model-checked before they were proved; of the runs only `Reminders` still
checks its own, where it also says that nothing without an owner is ever found due.

* `ClientSocketProofs`: `TypeOK`, and each of the six safety invariants of the module,
  from `Invariance`; two of them (the order of the queue, the heartbeat on duty) are only
  proved and not part of a run. None of the six is inductive alone: which timers may run
  depends on whether the current socket was opened, what a socket carries on the token it
  was made with, and whether a live socket is owned on the marks `disconnect` leaves. The
  inductive invariant ties these together. `NeverStranded`, the safety behind
  `Reconnects`, follows step by step from it: it needs that a retry finds the token of the
  account signed in, and that no socket the page still counts on is marked to be closed.
* `PresenceProofs`: `TypeOK`, `NobodyMissing` and `NoGhosts`. The strengthening says that
  the registry holds exactly the sockets the server has not seen closed, that a tab's
  socket belongs to its user, and that the *view to be* of a tab (its list with the events
  under way applied) already names whoever is connected.
* `CallsProofs`: `TypeOK`, `ConnectedMeansAnswered`, `UnansweredIsRecorded` and
  `NoSpontaneousHangup`. A tab's session is only as true as the events on their way to it,
  these as the handlers that wait for the database, and these as the requests on their way
  to the server, so the invariant says of each what it has to be true of (`UpFine`,
  `TaskFine`, `DownFine`); `RangIsKnown` says of a call that rang where its notice is, and
  `TimersAreOver` that a timeout which clears the screen was set for a session that is
  over.
* `OmniProofs`, inbound: `TypeOK` and the four safety properties of its two runs. A 200 is
  given in three places: for a duplicate in the ledger, after `Publish`, and by the
  in-flight guard. The second needs that a handler about to publish has its ledger row
  (`HasRow`), the third that an entry of the map belongs to a running attempt
  (`Handling`), which holds because whoever ends takes the entry out. `RepliesJoin` needs
  what a handler knew of the thread when it looked (`Joining`), `StoredOnce` that each
  handler which may still write a row is accounted for by the mail's entry in the map or
  by an excuse (`Accounts`).
* `OmniProofs`, replies: `RepliesTypeOK` and all four properties of the run. `IRecord`
  says step by step which rows a request has written; `IFlags` counts the failures of the
  requests that have counted theirs (`Counted`) and says which pages know, and of an
  answer under way what the count it carries had not counted yet; `IShown` says what a
  page shows of a reply whose outcome was told, on pages that heard of it and were not
  loaded over it, and what an answer with messages carries.
* `ChatProofs`: `TypeOK`, `NoDuplicates`, `Converged` and `NotesPointAtLive`. `Converged`
  speaks of states in which nothing is under way, so it is as far from inductive as can
  be. The invariant says at every moment what a copy *will* show: the events queued for a
  browser are in an order that makes sense (`Ordered`), and with them applied the message
  is there or not (`WillShow`), with a content (`EndsWith`) and reactions (`EndsReacted`).
  `InStep` says that this is what the row holds, except for a change that a handler or an
  answer under way is still to announce. A handler announces what it read before its last
  `await`, so the invariant needs that the row has not changed since (`Holds`), which is
  true as long as it works on the row alone (`Alone`) and so unless the row counts as
  `overlapped` (`OneAtATime`). A snapshot replaces the copy, so what a load answered and
  nobody has touched since has to be what the row holds (`LoadFresh`). No fold over a list
  is needed: one lemma per setter says what it does to the entries of one message
  (`AddOf`, `UpdateOf`, `RemoveOf`, ...), one what applying the first event does to what
  is still to be applied (`Received`), one what an announcement adds (`AnnouncedNew`,
  `AnnouncedChange`). `NotesPointAtLive` needs that the handlers of a row do not overlap
  and when a clean-up ends.
* `AttendanceProofs`: `TypeOK`, `LeaveBlocks`, `CacheIsTrue`, `BoardFollows`, and the
  refinement `DayIsOrderly`, for any number of requests of an employee at once. `ILeave`
  says what a clock-in that has passed the check knows; `IDay` what each statement still
  knows of the day its handler read, which holds as long as nobody else writes it: while
  the employee is not `raced`, whoever runs a clock request for them is `Alone`, and two
  such requests at once are what `raced` records (`OverlapIsRaced`). Of a raced day it is
  proved that a clock-out has a clock-in before it and a break somebody who came
  (`CameFirst`), which is what keeps `OnlyRaced` as narrow as it is. `IBoard` says that a
  line of a dashboard which has been read, counted, cached or shown is true unless marked
  stale.
* `AnnouncementsProofs`: `TypeOK`, `DraftsStayPrivate`, `NothingForgotten` and the
  refinement `KeepsPromise`. `IPublic` says that public stays public: whoever is about to
  notify or broadcast holds an announcement that has gone live, which survives the
  announcement's removal. `OneClaim` says that of all runs and of those that have
  announced, one holds the claim, because `markPublished` updates only a row that is not
  published; `Publication` allows a second run nothing, so the refinement needs it.
  `NothingForgotten`, the safety behind `LiveIsAnnounced`, is shown case by case: whoever
  makes a row live has it in hand (`LiveInHand`), and a run (`ClaimKept`) or a request
  (`OwesKept`) lets go of it only by telling.
* `RemindersProofs`: `TypeOK`, `SentWasReminded` and `RemindedOnce`. A poll marks rows by
  ids it read long before. `Held` says that what a run holds is the setting of the row, or
  one before it and then the row was set meanwhile; `Reports` that what it will mark was
  notified of. `Count` counts for each setting the runs that may yet notify of it and, as
  long as it can be found again, those that have and will mark it.

## What is only model-checked

Liveness: `Reconnects`, `DeadPeerDetected`, `LogoutClosesSockets`, `LeaversGoOffline`,
`SessionsClear`, `SavedUnlessLockedOut`, `DueGoesLive`, `LiveIsAnnounced` and
`DueIsDealtWith`, because the prover has no fairness reasoning. Every invariant and every
action property of the passing runs is proved. The violated run (`AnnouncementsRead`) has
nothing to prove.

## Known disagreements

What the models found the code to do against what it says, or against what a user would
expect. The first is a run that fails on purpose; the others are exceptions that the
properties name, so that the rest can be stated and checked.

* `AnnouncementsRead`: `update` broadcasts the row it read for the *editor*
  (`server/src/controllers/announcement.controller.ts:163`), so everybody's card takes
  over the editor's `is_read`, and opening the card does not record the reading
  (`AnnouncementsView.tsx:185`).
* Announcements: an edit that publishes a draft and a run that finds it due may both
  announce it; a crash between `markPublished` and the notifications loses them, because
  nothing is due any more (`LiveIsAnnounced` excepts failures).
* Sessions: a payload sent while signed out (typing that stops as the page goes away)
  waits in the queue and goes out on the next session (`SessionIsolation` is about what a
  session sent).
* Presence: `presence_snapshot` only adds, so a tab that reconnects keeps showing whoever
  left meanwhile (`NoGhosts` is about tabs that have not lost their connection).
* Calls: a `call_end` that overtakes `call_start` at its await is forgotten and the callee
  rings on; an event that comes after a call restarts the mesh of the next one.
* Inbound mail: a duplicate is acknowledged while the first attempt may yet fail; a
  failure between the shadow user and the contact locks the customer out, because the next
  attempt creates the shadow user again and `users.email` is unique (`AckedIsSaved`,
  `SavedUnlessLockedOut`); a failure between message and ledger row stores a mail twice.
* Replies: a page loaded while a mail is pending keeps showing "Sending…", because
  `addMessage` ignores the broadcast of the outcome as a duplicate
  (`client/src/entities/conversation/model/chatStore.ts:276`;
  `docs/EMAIL_INTEGRATION.md:53` promises "Pending → sent | failed"); a page's failure
  flag is not cleared by a successful retry; the success of an earlier request may clear
  the flag of a later failure; an inbox that was read before a failure and answered after
  it takes the flag off again; by other channels a failure after the provider took a reply
  leaves no record of it.
* Messages: a sender who reconnects before the handler ends gets neither the
  acknowledgement nor the broadcast of the own message; a broadcast whose member lookup
  fails reaches nobody; a load replaces events that arrived before it; a copy that holds
  one live event is taken for the whole history and not fetched (`chatStore.ts:474`); the
  acknowledgement of a forwarded message carries none; pins are not broadcast although
  `chatStore.ts:736` says they are; broadcasts of reactions may arrive in another order
  than they were stored.
* Attendance: `server/src/services/Attendance.service.ts:9` says that multiple clock-ins
  and clock-outs are rejected, but the record is read (line 135), decided about and
  written without a transaction or a condition on the update, so two requests of one
  employee at once may both be granted, and the later moment replaces the earlier
  (`OnlyRaced`); breaks are not told to the managers' pages; a dashboard that was read
  before a change is cached after the invalidation, for ten seconds; a page that was
  offline, or whose load failed, or that got an older answer last, stays outdated until
  the next event.
* Reminders: a reminder set anew while a run holds the old one is marked as sent with it;
  reminders of deleted messages and cancelled meetings stay due and, a hundred of them,
  keep later ones out of every poll.

## What is not modelled

Listed with reasons under `components` in `PROJECT.json`. In the modelled parts:
`handleUserStatusChange` (no client of the repository sends `user_status`), calls to a
conversation, calling oneself, failures of the database inside a call handler, the
negotiation inside `WebRTCManager`, mails without a Message-ID, several mails in one
request, assignment of conversations, the Telegram and website webhooks, reactions and
scope of announcements, and attachments everywhere.
