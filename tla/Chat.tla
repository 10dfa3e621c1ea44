-------------------------------- MODULE Chat --------------------------------
(***************************************************************************)
(* Messages of one conversation: the rows in MySQL, the handlers of the    *)
(* server (message.handler.ts, message.controller.ts, Message.service.ts), *)
(* the events on each member's socket, and the copy every browser keeps in *)
(* chatStore.messages.                                                     *)
(*                                                                         *)
(* The server awaits a query of a pooled connection at every step, so a    *)
(* handler is cut at its awaits and any two handlers interleave; the       *)
(* socket's events keep the order they were sent in, the answers of the    *)
(* REST calls are ordered with nothing.  A copy is filled by a load        *)
(* (GET /conversations/:id/messages) and kept up to date by events.  Each  *)
(* member has one browser; a connection that is lost is replaced by a new  *)
(* one, which is not the one a handler that still runs was asked on.       *)
(*                                                                         *)
(* Bounds: MaxMsg rows, MaxReq requests, MaxLoads loads, MaxDrops lost     *)
(* connections of each member, and as many handlers at once as there are   *)
(* Slots.  Limit is the page of a load, 30 in the code.                    *)
(***************************************************************************)
EXTENDS Naturals, Sequences, FiniteSets

CONSTANTS
    Users,      \* the members of the conversation
    Muted,      \* members whose preferences disable message notifications
    Author,     \* who wrote the rows that exist from the start
    History,    \* how many rows exist from the start
    Ops,        \* the operations that are exercised
    Slots,      \* handlers that may run at the same time
    Limit,      \* how many rows a load brings
    MaxMsg, MaxReq, MaxLoads, MaxDrops

ASSUME ChatAssumption ==
    /\ Author \in Users
    /\ Muted \subseteq Users
    /\ MaxMsg \in Nat /\ MaxReq \in Nat /\ MaxLoads \in Nat /\ MaxDrops \in Nat
    /\ Limit \in Nat
    /\ IsFiniteSet(Slots)
    /\ History \in 0..MaxMsg
    /\ Ops \subseteq {"send", "forward", "edit", "delete", "react", "pin", "load"}

VARIABLES
    rows,       \* messages: the table, by id
    lastId,     \* the last id given by AUTO_INCREMENT
    notes,      \* notifications that point at a message
    job,        \* the handler in each slot
    inbox,      \* events on their way to each member's browser
    replies,    \* answers of REST calls on their way
    cache,      \* chatStore.messages[conversation] of each browser
    load,       \* the load a browser waits for
    online,     \* whose socket is open
    reqs, loads,    \* requests and loads so far (bounds)
    drops,      \* how many connections each member has lost: which one is open now
    stale,      \* history: rows a browser cannot be expected to show as they are
    overlapped  \* history: rows that two requests worked on at the same time, or
                \* whose notifications could not be cleaned up

vars == <<rows, lastId, notes, job, inbox, replies, cache, load, online,
          reqs, loads, drops, stale, overlapped>>

Ids == 1..MaxMsg
Content == 0..MaxReq      \* the original text, or the number of the edit

Row == [state : {"none", "live", "deleted"}, by : Users, content : Content,
        reacts : SUBSET Users, pinned : BOOLEAN]
Entry == [id : Ids, content : Content, reacts : SUBSET Users, pinned : BOOLEAN]
Event == [kind : {"add", "update", "delete", "reacts"}, id : Ids,
          content : Content, reacts : SUBSET Users]
Reply == [kind : {"react", "pin"}, to : Users, id : Ids, reacts : SUBSET Users,
          pinned : BOOLEAN]
Note == [to : Users, id : Ids]
Job == [op : {"idle", "send", "forward", "edit", "delete", "react", "pin"},
        at : {"insert", "fetch", "notify", "check", "write", "read",
              "cleanup", "deliver"},
        by : Users, conn : 0..MaxDrops, id : 0..MaxMsg, content : Content,
        on : BOOLEAN, reacts : SUBSET Users, todo : SUBSET Users]
Load == [at : {"none", "asked", "answered"}, rows : Seq(Entry), touched : SUBSET Ids]

Idle == [op |-> "idle", at |-> "check", by |-> Author, conn |-> 0, id |-> 0,
         content |-> 0, on |-> FALSE, reacts |-> {}, todo |-> {}]
NoLoad == [at |-> "none", rows |-> <<>>, touched |-> {}]

TypeOK ==
    /\ rows \in [Ids -> Row]
    /\ lastId \in 0..MaxMsg
    /\ notes \subseteq Note
    /\ job \in [Slots -> Job]
    /\ inbox \in [Users -> Seq(Event)]
    /\ replies \subseteq Reply
    /\ cache \in [Users -> Seq(Entry)]
    /\ load \in [Users -> Load]
    /\ online \in [Users -> BOOLEAN]
    /\ reqs \in 0..MaxReq
    /\ loads \in 0..MaxLoads
    /\ drops \in [Users -> 0..MaxDrops]
    /\ stale \in [Users -> SUBSET Ids]
    /\ overlapped \subseteq Ids

Init ==
    /\ rows = [m \in Ids |-> [state |-> IF m <= History THEN "live" ELSE "none",
                              by |-> Author, content |-> 0, reacts |-> {},
                              pinned |-> FALSE]]
    /\ lastId = History
    /\ notes = {}
    /\ job = [j \in Slots |-> Idle]
    /\ inbox = [u \in Users |-> <<>>]
    /\ replies = {}
    /\ cache = [u \in Users |-> <<>>]
    /\ load = [u \in Users |-> NoLoad]
    /\ online = [u \in Users |-> TRUE]
    /\ reqs = 0
    /\ loads = 0
    /\ drops = [u \in Users |-> 0]
    /\ stale = [u \in Users |-> 1..History]
    /\ overlapped = {}

-----------------------------------------------------------------------------
(* What the browser shows.                                                 *)

IdsOf(list) == {list[i].id : i \in DOMAIN list}
Shown(u) == IdsOf(cache[u])
EntryOf(u, m) == cache[u][CHOOSE i \in DOMAIN cache[u] : cache[u][i].id = m]

\* mutant: addMessage without the check
AddAlways(list, e) ==
    Append(list, [id |-> e.id, content |-> e.content, reacts |-> e.reacts,
                  pinned |-> FALSE])

\* addMessage: append unless a message of this id is there already
AddMessage(list, e) ==
    IF e.id \in IdsOf(list) THEN list
    ELSE Append(list, [id |-> e.id, content |-> e.content, reacts |-> e.reacts,
                       pinned |-> FALSE])

\* the setters that change one message map over the list
OnEntry(list, m, f(_)) ==
    [i \in DOMAIN list |-> IF list[i].id = m THEN f(list[i]) ELSE list[i]]

\* the members of a finite set of numbers in increasing order; what filter() leaves is
\* listed with it, and not with SelectSeq, which no proof could unfold
InOrder(K) == CHOOSE f \in [1..Cardinality(K) -> K] :
                  \A i, k \in DOMAIN f : i < k => f[i] < f[k]

\* applyMessageDelete: filter, which keeps the order of the rest
RemoveMessage(list, m) ==
    LET kept == InOrder({i \in DOMAIN list : list[i].id # m})
    IN [i \in DOMAIN kept |-> list[kept[i]]]

ApplyUpdate(list, e) == OnEntry(list, e.id, LAMBDA x : [x EXCEPT !.content = e.content])

ApplyReactions(list, e) == OnEntry(list, e.id, LAMBDA x : [x EXCEPT !.reacts = e.reacts])

\* wsListeners.ts: which setter an event goes to
Apply(list, e) ==
    CASE e.kind = "add" -> AddMessage(list, e)
      [] e.kind = "update" -> ApplyUpdate(list, e)
      [] e.kind = "reacts" -> ApplyReactions(list, e)
      [] e.kind = "delete" -> RemoveMessage(list, e.id)

-----------------------------------------------------------------------------
(* Which requests touch a row at the same time (history only).             *)

Busy(m) == \/ \E j \in Slots : job[j].op # "idle" /\ job[j].id = m
           \/ \E r \in replies : r.id = m
Queued(u, m) == \E i \in DOMAIN inbox[u] : inbox[u][i].id = m

\* a load that is waited for can answer with the row before or after the change
Touch(m) ==
    load' = [u \in Users |-> IF load[u].at = "none" THEN load[u]
                             ELSE [load[u] EXCEPT !.touched = @ \cup {m}]]

-----------------------------------------------------------------------------
(* Requests.                                                               *)

Request(j, r) ==
    /\ r.op \in Ops
    /\ job[j] = Idle
    /\ reqs < MaxReq
    /\ reqs' = reqs + 1
    /\ job' = [job EXCEPT ![j] = r]

Unborn == Cardinality({j \in Slots : job[j].op # "idle" /\ job[j].at = "insert"})

\* send_message, forward_message: the ids are checked, the access is granted; the handler
\* keeps the socket it was asked on
RequestNew(j, u, op) ==
    /\ online[u]
    /\ lastId + Unborn < MaxMsg
    /\ Request(j, [Idle EXCEPT !.op = op, !.at = "insert", !.by = u, !.conn = drops[u]])
    /\ UNCHANGED <<rows, lastId, notes, inbox, replies, cache, load, online,
                   drops, stale, overlapped, loads>>

\* a request about a row that exists; the answer of a REST call may overtake the
\* events that are queued for the caller
RequestOn(j, m, r) ==
    /\ Request(j, r)
    /\ Touch(m)
    /\ stale' = [w \in Users |->
           IF Busy(m) \/ (w = r.by /\ r.op = "react" /\ Queued(w, m))
           THEN stale[w] \cup {m} ELSE stale[w]]
    /\ overlapped' = IF Busy(m) THEN overlapped \cup {m} ELSE overlapped
    /\ UNCHANGED <<rows, lastId, notes, inbox, replies, cache, online, drops, loads>>

\* message_edited, message_deleted: over the socket, about a message of one's own
RequestChange(j, u, m, op) ==
    /\ online[u]
    /\ m \in Shown(u)
    /\ rows[m].by = u
    /\ RequestOn(j, m, [Idle EXCEPT !.op = op, !.by = u, !.id = m,
                                    !.content = IF op = "edit" THEN reqs + 1 ELSE 0])

\* toggleReaction: one request per message at a time; what one's own copy shows
\* decides between adding and removing
RequestReact(j, u, m) ==
    /\ m \in Shown(u)
    /\ \A k \in Slots : ~(job[k].op = "react" /\ job[k].by = u /\ job[k].id = m)
    /\ \A r \in replies : ~(r.kind = "react" /\ r.to = u /\ r.id = m)
    /\ RequestOn(j, m, [Idle EXCEPT !.op = "react", !.by = u, !.id = m,
                                    !.on = u \notin EntryOf(u, m).reacts])

\* pinMessage: a REST call, never an event
RequestPin(j, u, m) ==
    /\ m \in Shown(u)
    /\ RequestOn(j, m, [Idle EXCEPT !.op = "pin", !.by = u, !.id = m,
                                    !.on = ~EntryOf(u, m).pinned])

-----------------------------------------------------------------------------
(* The handlers, one await at a time.                                      *)

Step(j, r) == job' = [job EXCEPT ![j] = r]

\* messageRepository.create
Insert(j) ==
    LET m == lastId + 1 IN
    /\ job[j].op \in {"send", "forward"} /\ job[j].at = "insert"
    /\ lastId' = m
    /\ rows' = [rows EXCEPT ![m] = [state |-> "live", by |-> job[j].by, content |-> 0,
                                    reacts |-> {}, pinned |-> FALSE]]
    /\ Step(j, [job[j] EXCEPT !.at = "fetch", !.id = m])
    /\ Touch(m)
    /\ UNCHANGED <<notes, inbox, replies, cache, online, reqs, drops, stale, overlapped, loads>>

\* findByIdWithSender: null for a row that is deleted by now, and the handler
\* fails on it with the row stored
Fetch(j) ==
    /\ job[j].op \in {"send", "forward"} /\ job[j].at = "fetch"
    /\ Step(j, IF rows[job[j].id].state = "live"
               THEN [job[j] EXCEPT !.at = "notify", !.content = rows[job[j].id].content,
                                   !.todo = (Users \ Muted) \ {job[j].by}]
               ELSE Idle)
    /\ UNCHANGED <<rows, lastId, notes, inbox, replies, cache, load, online, reqs,
                   drops, stale, overlapped, loads>>

\* createMessageNotifications: one insert per member
Notify(j) ==
    /\ job[j].op \in {"send", "forward"} /\ job[j].at = "notify"
    /\ \E to \in job[j].todo :
          /\ notes' = notes \cup {[to |-> to, id |-> job[j].id]}
          /\ Step(j, [job[j] EXCEPT !.todo = @ \ {to}])
    /\ UNCHANGED <<rows, lastId, inbox, replies, cache, load, online, reqs, drops,
                   stale, overlapped, loads>>

\* an insert that fails ends the loop, and the message is delivered all the same
NotifyFails(j) ==
    /\ job[j].op \in {"send", "forward"} /\ job[j].at = "notify"
    /\ job[j].todo # {}
    /\ Step(j, [job[j] EXCEPT !.todo = {}])
    /\ UNCHANGED <<rows, lastId, notes, inbox, replies, cache, load, online, reqs,
                   drops, stale, overlapped, loads>>

\* a query that fails before anything is written ends the handler with an error
GiveUp(j) ==
    /\ job[j].op # "idle" /\ job[j].at \in {"check", "write"}
    /\ Step(j, Idle)
    /\ UNCHANGED <<rows, lastId, notes, inbox, replies, cache, load, online, reqs,
                   drops, stale, overlapped, loads>>

\* one that fails after the row is stored or changed does, and nobody is told of it
GiveUpLate(j) ==
    /\ job[j].op \in {"send", "forward", "edit", "react"} /\ job[j].at \in {"fetch", "read"}
    /\ Step(j, Idle)
    /\ stale' = [u \in Users |-> stale[u] \cup {job[j].id}]
    /\ UNCHANGED <<rows, lastId, notes, inbox, replies, cache, load, online, reqs,
                   drops, overlapped, loads>>

\* findById, and only the sender may change a message
CheckSender(j) ==
    /\ job[j].op \in {"edit", "delete"} /\ job[j].at = "check"
    /\ Step(j, IF rows[job[j].id].state = "live" /\ rows[job[j].id].by = job[j].by
               THEN [job[j] EXCEPT !.at = "write"] ELSE Idle)
    /\ UNCHANGED <<rows, lastId, notes, inbox, replies, cache, load, online, reqs,
                   drops, stale, overlapped, loads>>

\* findById, and every member of the conversation may react and pin
CheckMember(j) ==
    /\ job[j].op \in {"react", "pin"} /\ job[j].at = "check"
    /\ Step(j, IF rows[job[j].id].state = "live"
               THEN [job[j] EXCEPT !.at = "write"] ELSE Idle)
    /\ UNCHANGED <<rows, lastId, notes, inbox, replies, cache, load, online, reqs,
                   drops, stale, overlapped, loads>>

\* the statements: none of them looks at deleted_at
Edited(r, row) == [row EXCEPT !.content = r.content]
Deleted(row) == [row EXCEPT !.state = "deleted"]
Reacted(r, row) ==
    [row EXCEPT !.reacts = IF r.on THEN @ \cup {r.by} ELSE @ \ {r.by}]
Pinned(r, row) == [row EXCEPT !.pinned = r.on]

Write(j) ==
    LET r == job[j]
        row == rows[r.id] IN
    /\ r.op \in {"edit", "delete", "react", "pin"} /\ r.at = "write"
    /\ rows' = [rows EXCEPT ![r.id] = CASE r.op = "edit" -> Edited(r, row)
                                        [] r.op = "delete" -> Deleted(row)
                                        [] r.op = "react" -> Reacted(r, row)
                                        [] r.op = "pin" -> Pinned(r, row)]
    /\ Step(j, [r EXCEPT !.at = IF r.op = "delete" THEN "cleanup" ELSE "read"])
    /\ UNCHANGED <<lastId, notes, inbox, replies, cache, load, online, reqs, drops,
                   stale, overlapped, loads>>

\* updateMessage reads the row again and fails if it is deleted by now
ReadEdited(j) ==
    LET row == rows[job[j].id] IN
    /\ job[j].op = "edit" /\ job[j].at = "read"
    /\ Step(j, IF row.state = "live"
               THEN [job[j] EXCEPT !.at = "deliver", !.content = row.content]
               ELSE Idle)
    /\ UNCHANGED <<rows, lastId, notes, inbox, replies, cache, load, online, reqs,
                   drops, stale, overlapped, loads>>

\* addReaction, removeReaction: the list is read again, the caller answered,
\* and only then the broadcast begins
ReadReactions(j) ==
    LET row == rows[job[j].id] IN
    /\ job[j].op = "react" /\ job[j].at = "read"
    /\ replies' = replies \cup {[kind |-> "react", to |-> job[j].by, id |-> job[j].id,
                                 reacts |-> row.reacts, pinned |-> FALSE]}
    /\ Step(j, [job[j] EXCEPT !.at = "deliver", !.reacts = row.reacts])
    /\ UNCHANGED <<rows, lastId, notes, inbox, cache, load, online, reqs, drops,
                   stale, overlapped, loads>>

\* pin and unpin answer the caller with the row as it is now, or with an error, and tell
\* nobody else
ReadPinned(j) ==
    LET row == rows[job[j].id] IN
    /\ job[j].op = "pin" /\ job[j].at = "read"
    /\ \/ replies' = replies
       \/ /\ row.state = "live"
          /\ replies' = replies \cup {[kind |-> "pin", to |-> job[j].by, id |-> job[j].id,
                                       reacts |-> {}, pinned |-> row.pinned]}
    /\ Step(j, Idle)
    /\ UNCHANGED <<rows, lastId, notes, inbox, cache, load, online, reqs, drops,
                   stale, overlapped, loads>>

\* mutant: the notifications are left
LeaveNotes(j) ==
    /\ job[j].op = "delete" /\ job[j].at = "cleanup"
    /\ Step(j, [job[j] EXCEPT !.at = "deliver"])
    /\ UNCHANGED <<rows, lastId, notes, inbox, replies, cache, load, online, reqs,
                   drops, stale, overlapped, loads>>

\* deleteByMessageId
Cleanup(j) ==
    /\ job[j].op = "delete" /\ job[j].at = "cleanup"
    /\ notes' = {n \in notes : n.id # job[j].id}
    /\ Step(j, [job[j] EXCEPT !.at = "deliver"])
    /\ UNCHANGED <<rows, lastId, inbox, replies, cache, load, online, reqs, drops,
                   stale, overlapped, loads>>

\* a clean-up that fails is logged, and the delete goes on
CleanupFails(j) ==
    /\ job[j].op = "delete" /\ job[j].at = "cleanup"
    /\ overlapped' = overlapped \cup {job[j].id}
    /\ Step(j, [job[j] EXCEPT !.at = "deliver"])
    /\ UNCHANGED <<rows, lastId, notes, inbox, replies, cache, load, online, reqs,
                   drops, stale, loads>>

\* broadcastToConversation: findMemberIds was the last await, so every open socket of
\* the audience is written to at once, or no socket if it failed, which is only logged;
\* who is not told and did not ask misses it
Tell(j, audience, acked, kind) ==
    LET r == job[j]
        answered == IF r.op = "react" THEN {r.by} ELSE {}
        event == [kind |-> kind, id |-> r.id, content |-> r.content, reacts |-> r.reacts]
    IN
    /\ \E members \in {audience, {}} :
          LET told == {u \in members \cup acked : online[u]} IN
          /\ inbox' = [u \in Users |-> IF u \in told THEN Append(inbox[u], event)
                                       ELSE inbox[u]]
          /\ stale' = [u \in Users |-> IF u \in told \cup answered THEN stale[u]
                                       ELSE stale[u] \cup {r.id}]
    /\ Step(j, Idle)
    /\ UNCHANGED <<rows, lastId, notes, replies, cache, load, online, reqs, drops,
                   overlapped, loads>>

\* receive_message to the others, whatever socket the sender has; message_sent_ack with
\* the message to the socket it was sent on, if that is the one that is open
DeliverMessage(j) ==
    /\ job[j].op = "send" /\ job[j].at = "notify" /\ job[j].todo = {}
    /\ Tell(j, Users \ {job[j].by}, {u \in {job[j].by} : drops[u] = job[j].conn}, "add")

\* message_forwarded to the others; the acknowledgement carries no message
DeliverForward(j) ==
    /\ job[j].op = "forward" /\ job[j].at = "notify" /\ job[j].todo = {}
    /\ Tell(j, Users \ {job[j].by}, {}, "add")

\* mutant: the editor is excluded from the broadcast, as the sender of a message is
EditToOthers(j) ==
    /\ job[j].op = "edit" /\ job[j].at = "deliver"
    /\ inbox' = [u \in Users |-> IF online[u] /\ u # job[j].by
                    THEN Append(inbox[u], [kind |-> "update", id |-> job[j].id,
                                           content |-> job[j].content, reacts |-> {}])
                    ELSE inbox[u]]
    /\ Step(j, Idle)
    /\ UNCHANGED <<rows, lastId, notes, replies, cache, load, online, reqs, drops,
                   stale, overlapped, loads>>

\* message_updated with the content that was read again, to everybody
DeliverEdit(j) ==
    /\ job[j].op = "edit" /\ job[j].at = "deliver"
    /\ Tell(j, Users, {}, "update")

\* message_deleted to everybody
DeliverDelete(j) ==
    /\ job[j].op = "delete" /\ job[j].at = "deliver"
    /\ Tell(j, Users, {}, "delete")

\* message_reacted, message_unreacted with the list that was read, to the others
DeliverReactions(j) ==
    /\ job[j].op = "react" /\ job[j].at = "deliver"
    /\ Tell(j, Users \ {job[j].by}, {}, "reacts")

-----------------------------------------------------------------------------
(* The browser.                                                            *)

Receive(u) ==
    /\ inbox[u] # <<>>
    /\ cache' = [cache EXCEPT ![u] = Apply(@, Head(inbox[u]))]
    /\ inbox' = [inbox EXCEPT ![u] = Tail(@)]
    /\ UNCHANGED <<rows, lastId, notes, job, replies, load, online, reqs, drops,
                   stale, overlapped, loads>>

\* the caller puts the list or the flag of the answer into its own copy
ReplyArrives(r) ==
    /\ r \in replies
    /\ replies' = replies \ {r}
    /\ cache' = [cache EXCEPT ![r.to] =
           OnEntry(@, r.id, LAMBDA x : IF r.kind = "react" THEN [x EXCEPT !.reacts = r.reacts]
                                       ELSE [x EXCEPT !.pinned = r.pinned])]
    /\ UNCHANGED <<rows, lastId, notes, job, inbox, load, online, reqs, drops,
                   stale, overlapped, loads>>

\* loadConversation: nothing is asked for when something is cached, unless forced
Open(u, force) ==
    /\ "load" \in Ops
    /\ load[u].at = "none"
    /\ ~force => cache[u] = <<>>
    /\ loads < MaxLoads
    /\ loads' = loads + 1
    /\ load' = [load EXCEPT ![u] = [NoLoad EXCEPT !.at = "asked",
                    !.touched = {m \in Ids : Busy(m) \/ Queued(u, m)}]]
    /\ UNCHANGED <<rows, lastId, notes, job, inbox, replies, cache, online, reqs, drops,
                   stale, overlapped>>

\* findAll: the newest live rows, oldest first, with their reactions
Live == {m \in 1..lastId : rows[m].state = "live"}
Newest == {m \in Live : Cardinality({k \in Live : k > m}) < Limit}
LiveRows ==
    LET page == InOrder(Newest)
    IN [i \in DOMAIN page |->
            [id |-> page[i], content |-> rows[page[i]].content,
             reacts |-> rows[page[i]].reacts, pinned |-> rows[page[i]].pinned]]

\* what is older than the page is not brought
ReadRows(u) ==
    /\ load[u].at = "asked"
    /\ load' = [load EXCEPT ![u] =
                    [at |-> "answered", rows |-> LiveRows,
                     touched |-> load[u].touched \cup (Live \ Newest)]]
    /\ UNCHANGED <<rows, lastId, notes, job, inbox, replies, cache, online, reqs,
                   drops, stale, overlapped, loads>>

\* setMessages: the answer replaces the copy, whatever arrived in the meantime
LoadArrives(u) ==
    /\ load[u].at = "answered"
    /\ cache' = [cache EXCEPT ![u] = load[u].rows]
    /\ stale' = [stale EXCEPT ![u] = load[u].touched]
    /\ load' = [load EXCEPT ![u] = NoLoad]
    /\ UNCHANGED <<rows, lastId, notes, job, inbox, replies, online, reqs, drops, overlapped, loads>>

\* a failed load leaves the copy as it is
LoadFails(u) ==
    /\ load[u].at = "asked"
    /\ load' = [load EXCEPT ![u] = NoLoad]
    /\ UNCHANGED <<rows, lastId, notes, job, inbox, replies, cache, online, reqs,
                   drops, stale, overlapped, loads>>

\* the socket is lost with the events on it; nothing is fetched on reconnection
Disconnect(u) ==
    /\ online[u]
    /\ drops[u] < MaxDrops
    /\ drops' = [drops EXCEPT ![u] = @ + 1]
    /\ online' = [online EXCEPT ![u] = FALSE]
    /\ inbox' = [inbox EXCEPT ![u] = <<>>]
    /\ stale' = [stale EXCEPT ![u] = @ \cup {m \in Ids : Queued(u, m)}]
    /\ UNCHANGED <<rows, lastId, notes, job, replies, cache, load, reqs, overlapped, loads>>

Reconnect(u) ==
    /\ ~online[u]
    /\ online' = [online EXCEPT ![u] = TRUE]
    /\ UNCHANGED <<rows, lastId, notes, job, inbox, replies, cache, load, reqs, drops,
                   stale, overlapped, loads>>

-----------------------------------------------------------------------------
Requests(u) ==
    \E j \in Slots :
        \/ \E op \in {"send", "forward"} : RequestNew(j, u, op)
        \/ \E m \in Ids, op \in {"edit", "delete"} : RequestChange(j, u, m, op)
        \/ \E m \in Ids : RequestReact(j, u, m)
        \/ \E m \in Ids : RequestPin(j, u, m)

Handle(j) ==
    \/ Insert(j) \/ Fetch(j) \/ Notify(j) \/ NotifyFails(j) \/ GiveUp(j) \/ GiveUpLate(j)
    \/ CheckSender(j) \/ CheckMember(j) \/ Write(j)
    \/ ReadEdited(j) \/ ReadReactions(j) \/ ReadPinned(j)
    \/ Cleanup(j) \/ CleanupFails(j)
    \/ DeliverMessage(j) \/ DeliverForward(j) \/ DeliverEdit(j) \/ DeliverDelete(j)
    \/ DeliverReactions(j)

Browse(u) ==
    \/ Receive(u)
    \/ \E force \in BOOLEAN : Open(u, force)
    \/ ReadRows(u) \/ LoadArrives(u) \/ LoadFails(u)
    \/ Disconnect(u) \/ Reconnect(u)

Next ==
    \/ \E u \in Users : Requests(u) \/ Browse(u)
    \/ \E j \in Slots : Handle(j)
    \/ \E r \in replies : ReplyArrives(r)

Spec == Init /\ [][Next]_vars

-----------------------------------------------------------------------------
(* Properties.                                                             *)

\* Nothing is in flight: no handler, no event, no answer, no load.
Quiet == /\ \A j \in Slots : job[j] = Idle
         /\ \A u \in Users : inbox[u] = <<>> /\ load[u].at = "none"
         /\ replies = {}

\* What a browser shows of a row is what is stored.
Agrees(u, m) ==
    IF rows[m].state = "live"
    THEN /\ m \in Shown(u)
         /\ EntryOf(u, m).content = rows[m].content
         /\ EntryOf(u, m).reacts = rows[m].reacts
    ELSE m \notin Shown(u)

\* No message is shown twice, though a browser learns of one from the event, the
\* acknowledgement and a load (chatStore.addMessage, chatStore.setMessages).
NoDuplicates ==
    \A u \in Users : \A i, k \in DOMAIN cache[u] :
        cache[u][i].id = cache[u][k].id => i = k

\* When everything in flight has landed, every browser shows of each row what is
\* stored - there, gone, edited, reacted to - unless two requests worked on the row
\* at once, a load overlapped one, the event was missed (the socket was down, or was not
\* the one a message was sent on; the members or the changed row could not be read), the
\* row was forwarded by this member, or it is older than the page the browser loaded.
Converged == Quiet => \A u \in Users : \A m \in 1..lastId : m \notin stale[u] => Agrees(u, m)

\* A notification points at a live message, unless the delete overtook the
\* notifications of the same message or its clean-up failed
\* (deleteByMessageId: "so the bell never keeps a notification whose target 404s").
NotesPointAtLive ==
    \A n \in notes : rows[n.id].state = "deleted" =>
        \/ n.id \in overlapped
        \/ \E j \in Slots : job[j].op = "delete" /\ job[j].id = n.id /\ job[j].at = "cleanup"
=============================================================================
