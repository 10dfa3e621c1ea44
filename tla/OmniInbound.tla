---------------------------- MODULE OmniInbound ----------------------------
(***************************************************************************)
(* What customers write by email: the provider posts each mail to the      *)
(* webhook until it is answered 200, and OmniChannelService.processInbound *)
(* finds or creates the customer's contact and conversation and stores it  *)
(* (server/src/services/OmniChannel.service.ts,                            *)
(*  server/src/integrations/email/email.controller.ts).                    *)
(*                                                                         *)
(* Nothing runs in a transaction: every database statement is a step of    *)
(* its own, attempts at the same or at different mails interleave, each    *)
(* step may fail, and the server may die between any two.                  *)
(***************************************************************************)
EXTENDS OmniChannel

CONSTANTS
    Customers,
    Subjects,
    SentBy,      \* [Mails -> Customers]
    Subject,     \* [Mails -> Subjects \cup {NONE}]
    RefersTo,    \* [Mails -> Mails \cup {NONE}] In-Reply-To and References
    Attempts,    \* bound: requests handled at once
    MaxThreads,  \* bound: conversations made
    MaxTurns     \* bound: times an agent closes or opens a conversation

\* Mails have an externalMessageId.  MaxMishaps bounds statements that fail, times
\* the server dies, and in-flight entries older than five minutes.

Threads == 1 .. MaxThreads
Conversations == [of : Customers, name : Subjects \cup {NONE}, open : BOOLEAN]

\* What a webhook handler is at: the statement it runs next.
Steps == {"contact", "shadow", "contactRow", "thread", "newThread", "store",
          "row", "ledger", "publish"}
Handlers == [mail : Mails, step : Steps, thread : Threads \cup {NONE}]

ASSUME SentByAssumption   == SentBy \in [Mails -> Customers]
ASSUME SubjectAssumption  == Subject \in [Mails -> Subjects \cup {NONE}]
ASSUME RefersToAssumption == RefersTo \in [Mails -> Mails \cup {NONE}]
ASSUME AttemptsAssumption == IsFiniteSet(Attempts)
ASSUME BoundsAssumption   == MaxThreads \in Nat /\ MaxTurns \in Nat
ASSUME NoneAssumption     == NONE \notin Mails \cup Nat \cup Handlers \cup Conversations

VARIABLES
    work,      \* [Attempts -> Handlers \cup {NONE}]
    waiting,   \* attempts whose request the provider still waits for
    inFlight,  \* the email controller's map of mails being handled
    shadows,   \* customers with a row in users
    contacts,  \* customers with a row in external_contacts
    threads,   \* [Threads -> Conversations \cup {NONE}] external_conversations
    rows,      \* [Mails -> Nat] rows in messages
    ledger,    \* [Mails -> ...] external_messages: the conversation, or NONE
    announced, \* mails broadcast to the agents
    acked,     \* mails the provider got a 200 for
    vouched,   \* history: mails acknowledged for an attempt still running
    late,      \* history: mails tried once what they refer to was stored
    grouped,   \* history: mails whose thread lookup failed
    excused,   \* history: [Mails -> Nat] attempts cut off with the row written
               \* and in-flight entries expired
    faults, expiries, turns \* count what MaxMishaps and MaxTurns bound

memVars  == <<work, waiting, inFlight>>
dbVars   == <<shadows, contacts, threads, rows, ledger>>
outVars  == <<announced, acked>>
histVars == <<vouched, late, grouped, excused>>
boundVars == <<faults, expiries, turns>>
vars == <<memVars, dbVars, outVars, histVars, boundVars>>

TypeOK ==
    /\ work \in [Attempts -> Handlers \cup {NONE}]
    /\ waiting \subseteq Attempts
    /\ inFlight \subseteq Mails
    /\ shadows \subseteq Customers /\ contacts \subseteq Customers
    /\ threads \in [Threads -> Conversations \cup {NONE}]
    /\ rows \in [Mails -> Nat] /\ excused \in [Mails -> Nat]
    /\ ledger \in [Mails -> Threads \cup {NONE}]
    /\ announced \subseteq Mails /\ acked \subseteq Mails
    /\ vouched \subseteq Mails /\ late \subseteq Mails /\ grouped \subseteq Mails
    /\ faults \in Nat /\ expiries \in Nat /\ faults + expiries <= MaxMishaps
    /\ turns \in 0..MaxTurns

Init ==
    /\ work = [a \in Attempts |-> NONE] /\ waiting = {} /\ inFlight = {}
    /\ shadows = {} /\ contacts = {}
    /\ threads = [t \in Threads |-> NONE]
    /\ rows = [m \in Mails |-> 0] /\ ledger = [m \in Mails |-> NONE]
    /\ announced = {} /\ acked = {}
    /\ vouched = {} /\ late = {} /\ grouped = {} /\ excused = [m \in Mails |-> 0]
    /\ faults = 0 /\ expiries = 0 /\ turns = 0

----------------------------------------------------------------------------
(***************************************************************************)
(* The webhook.                                                            *)
(***************************************************************************)
Running(m) == \E a \in Attempts : work[a] # NONE /\ work[a].mail = m
Saved(m) == ledger[m] # NONE

NeverHandled(m) == FALSE                                             \* mutant
BeingHandled(m) == m \in inFlight

\* The provider posts a mail it has no 200 for, one request at a time.
\* While the mail is being handled the answer is 200.
Deliver(a, m) ==
    /\ work[a] = NONE
    /\ m \notin acked
    /\ ~\E b \in waiting : work[b].mail = m
    /\ \/ /\ BeingHandled(m)
          /\ acked' = acked \cup {m}
          /\ vouched' = IF Running(m) THEN vouched \cup {m} ELSE vouched
          /\ UNCHANGED <<memVars, late>>
       \/ /\ ~BeingHandled(m)
          /\ work' = [work EXCEPT ![a] = [mail |-> m, step |-> "contact", thread |-> NONE]]
          /\ waiting' = waiting \cup {a}
          /\ inFlight' = inFlight \cup {m}
          /\ late' = IF /\ ~Running(m) /\ ~Saved(m)
                        /\ RefersTo[m] \in Mails /\ Saved(RefersTo[m])
                     THEN late \cup {m} ELSE late
          /\ UNCHANGED <<acked, vouched>>
    /\ UNCHANGED <<dbVars, announced, grouped, excused, boundVars>>

\* The provider stops waiting for an answer; the handler runs on.
GiveUp(a) ==
    /\ a \in waiting
    /\ waiting' = waiting \ {a}
    /\ UNCHANGED <<work, inFlight, dbVars, outVars, histVars, boundVars>>

\* A mail that could not be saved makes the webhook answer 500.
AlwaysAck(failed) == TRUE                                            \* mutant
Acknowledges(failed) == ~failed

Leak(m) == inFlight' = inFlight                                      \* mutant
Settle(m) == inFlight' = inFlight \ {m}

\* The handler is done: the in-flight entry goes, the provider is answered
\* if it still waits.
Finish(a, failed) ==
    /\ work' = [work EXCEPT ![a] = NONE]
    /\ waiting' = waiting \ {a}
    /\ Settle(work[a].mail)
    /\ acked' = IF a \in waiting /\ Acknowledges(failed)
                THEN acked \cup {work[a].mail} ELSE acked

----------------------------------------------------------------------------
(***************************************************************************)
(* processInboundMessage, one database statement at a time.                *)
(***************************************************************************)
At(a, step) == work[a] # NONE /\ work[a].step = step

Goto(a, step) ==
    /\ work' = [work EXCEPT ![a].step = step]
    /\ UNCHANGED <<waiting, inFlight, acked>>

\* findOrCreateContact: the contact, or a shadow user for it (whose address
\* is unique) and then the contact.
FindContact(a) ==
    /\ At(a, "contact")
    /\ Goto(a, IF SentBy[work[a].mail] \in contacts THEN "thread" ELSE "shadow")
    /\ UNCHANGED <<dbVars, announced, histVars, boundVars>>

CreateShadow(a) ==
    /\ At(a, "shadow")
    /\ LET c == SentBy[work[a].mail]
       IN  \/ /\ c \notin shadows
              /\ shadows' = shadows \cup {c}
              /\ Goto(a, "contactRow")
           \/ /\ c \in shadows
              /\ shadows' = shadows
              /\ Finish(a, TRUE)
    /\ UNCHANGED <<contacts, threads, rows, ledger, announced, histVars, boundVars>>

CreateContact(a) ==
    /\ At(a, "contactRow")
    /\ contacts' = contacts \cup {SentBy[work[a].mail]}
    /\ Goto(a, "thread")
    /\ UNCHANGED <<shadows, threads, rows, ledger, announced, histVars, boundVars>>

\* findOrCreateConversation.  The thread a mail refers to, closed or not.
Referred(m) ==
    IF RefersTo[m] \in Mails /\ Saved(RefersTo[m])
    THEN {ledger[RefersTo[m]]} ELSE {}
ReferredOpen(m) == {t \in Referred(m) : threads[t].open}             \* mutant
ByReference(m) == Referred(m)

\* The customer's threads, and the open ones named after the subject.
ByContact(m) == {t \in Threads : threads[t] # NONE /\ threads[t].of = SentBy[m]}
BySubject(m) == {t \in ByContact(m) : threads[t].open /\ threads[t].name = Subject[m]}

HasHints(m) == RefersTo[m] # NONE
HasSubject(m) == Subject[m] # NONE

\* The candidates, of which the latest is taken; with none a thread is
\* started.  A lookup that fails falls through to the next way to group.
Candidates(m, broken) ==
    IF HasHints(m) /\ "hints" \notin broken THEN ByReference(m)
    ELSE IF HasSubject(m) /\ "subject" \notin broken THEN BySubject(m)
    ELSE ByContact(m)

\* A closed thread is opened again.
FindThread(a) ==
    /\ At(a, "thread")
    /\ \E broken \in SUBSET {"hints", "subject"} :
          LET m == work[a].mail
              found == Candidates(m, broken)
          IN  /\ faults + expiries + Cardinality(broken) <= MaxMishaps
              /\ "hints" \in broken => HasHints(m)
              /\ "subject" \in broken =>
                    HasSubject(m) /\ (HasHints(m) => "hints" \in broken)
              /\ faults' = faults + Cardinality(broken)
              /\ grouped' = IF broken = {} THEN grouped ELSE grouped \cup {m}
              /\ \/ /\ found = {}
                    /\ threads' = threads
                    /\ Goto(a, "newThread")
                 \/ \E t \in found :
                       /\ \A other \in found : other <= t
                       /\ threads' = [threads EXCEPT ![t].open = TRUE]
                       /\ work' = [work EXCEPT ![a].step = "store", ![a].thread = t]
                       /\ UNCHANGED <<waiting, inFlight, acked>>
    /\ UNCHANGED <<shadows, contacts, rows, ledger, announced, vouched, late,
                   excused, expiries, turns>>

CreateThread(a) ==
    /\ At(a, "newThread")
    /\ \E t \in Threads :
          /\ threads[t] = NONE /\ \A s \in 1 .. t - 1 : threads[s] # NONE
          /\ threads' = [threads EXCEPT ![t] =
                [of |-> SentBy[work[a].mail], open |-> TRUE,
                 name |-> Subject[work[a].mail]]]
          /\ work' = [work EXCEPT ![a].step = "store", ![a].thread = t]
    /\ UNCHANGED <<waiting, inFlight, acked, shadows, contacts, rows, ledger,
                   announced, histVars, boundVars>>

\* createInboundMessage: look for a duplicate, store the message, and then
\* its unique ledger row, which a duplicate that raced this one has already.
CheckDuplicate(a) ==
    /\ At(a, "store")
    /\ IF Saved(work[a].mail) THEN Finish(a, FALSE) ELSE Goto(a, "row")
    /\ UNCHANGED <<dbVars, announced, histVars, boundVars>>

StoreRow(a) ==
    /\ At(a, "row")
    /\ rows' = [rows EXCEPT ![work[a].mail] = @ + 1]
    /\ Goto(a, "ledger")
    /\ UNCHANGED <<shadows, contacts, threads, ledger, announced, histVars, boundVars>>

ThreadOf(a) == work[a].thread

StoreLedger(a) ==
    /\ At(a, "ledger")
    /\ \/ /\ Saved(work[a].mail)
          /\ ledger' = ledger
          /\ Finish(a, FALSE)
       \/ /\ ~Saved(work[a].mail)
          /\ ledger' = [ledger EXCEPT ![work[a].mail] = ThreadOf(a)]
          /\ Goto(a, "publish")
    /\ UNCHANGED <<shadows, contacts, threads, rows, announced, histVars, boundVars>>

\* Read it back, notify, broadcast, whether or not the provider still waits.
WhileAwaited(a) == a \in waiting                                     \* mutant
Announces(a) == TRUE

Publish(a) ==
    /\ At(a, "publish")
    /\ announced' = IF Announces(a) THEN announced \cup {work[a].mail} ELSE announced
    /\ Finish(a, FALSE)
    /\ UNCHANGED <<dbVars, histVars, boundVars>>

----------------------------------------------------------------------------
(***************************************************************************)
(* What goes wrong, and what agents do meanwhile.                          *)
(***************************************************************************)
\* The message is stored and its ledger row is not.
CutOff(a, m) == At(a, "ledger") /\ work[a].mail = m

\* The next statement fails: processInbound counts the mail as failed.
Fault(a) ==
    /\ work[a] # NONE
    /\ faults + expiries < MaxMishaps
    /\ faults' = faults + 1
    /\ excused' = [m \in Mails |-> IF CutOff(a, m) THEN excused[m] + 1 ELSE excused[m]]
    /\ Finish(a, TRUE)
    /\ UNCHANGED <<dbVars, announced, vouched, late, grouped, expiries, turns>>

\* The server dies and is started again.
Crash ==
    /\ faults + expiries < MaxMishaps
    /\ faults' = faults + 1
    /\ work' = [a \in Attempts |-> NONE] /\ waiting' = {} /\ inFlight' = {}
    /\ excused' = [m \in Mails |->
                     excused[m] + Cardinality({a \in Attempts : CutOff(a, m)})]
    /\ UNCHANGED <<dbVars, outVars, vouched, late, grouped, expiries, turns>>

\* cleanInFlight: an entry is dropped after five minutes, handled or not.
Expire(m) ==
    /\ m \in inFlight
    /\ faults + expiries < MaxMishaps
    /\ expiries' = expiries + 1
    /\ inFlight' = inFlight \ {m}
    /\ excused' = [excused EXCEPT ![m] = @ + 1]
    /\ UNCHANGED <<work, waiting, dbVars, outVars, vouched, late, grouped, faults, turns>>

\* setConversationStatus.
SetStatus(t, open) ==
    /\ threads[t] # NONE
    /\ turns < MaxTurns
    /\ turns' = turns + 1
    /\ threads' = [threads EXCEPT ![t].open = open]
    /\ UNCHANGED <<memVars, shadows, contacts, rows, ledger, outVars, histVars,
                   faults, expiries>>

----------------------------------------------------------------------------
Step(a) ==
    \/ FindContact(a)
    \/ CreateShadow(a)
    \/ CreateContact(a)
    \/ FindThread(a)
    \/ CreateThread(a)
    \/ CheckDuplicate(a)
    \/ StoreRow(a)
    \/ StoreLedger(a)
    \/ Publish(a)

Next ==
    \/ \E a \in Attempts, m \in Mails : Deliver(a, m)
    \/ \E a \in Attempts : GiveUp(a)
    \/ \E a \in Attempts : Step(a)
    \/ \E a \in Attempts : Fault(a)
    \/ Crash
    \/ \E m \in Mails : Expire(m)
    \/ \E t \in Threads, open \in BOOLEAN : SetStatus(t, open)

Spec == Init /\ [][Next]_vars

(***************************************************************************)
(* Fairness: the database answers, and a provider that has no 200 posts    *)
(* the mail again and does not give up waiting for ever.                   *)
(***************************************************************************)
FairSpec ==
    /\ Spec
    /\ \A a \in Attempts : WF_vars(Step(a))
    /\ \A m \in Mails : SF_vars(\E a \in Attempts : Deliver(a, m))

----------------------------------------------------------------------------
(***************************************************************************)
(* What the pipeline promises.                                             *)
(***************************************************************************)
\* Retries, concurrent deliveries, failures and restarts never store a mail
\* twice, except that an attempt cut off between the message and its ledger
\* row, or one that outlived its in-flight entry, may leave one row too many
\* ("Known gap", docs/EMAIL_INTEGRATION.md; email.controller.ts, inFlight).
StoredOnce == \A m \in Mails : rows[m] <= 1 + excused[m]

\* A mail the provider will not send again is in the ledger.  The one
\* exception: the email webhook says 200 for another attempt that may yet
\* fail (email.controller.ts, webhook).
AckedIsSaved == acked \subseteq {m \in Mails : Saved(m)} \cup vouched

\* A mail that refers to one stored before it was sent joins that one's
\* conversation, closed or not, however often either is retried; only a
\* lookup that fails may put it elsewhere (findOrCreateConversation).
RepliesJoin ==
    \A m \in late \ grouped :
        Saved(m) => ledger[m] = ledger[RefersTo[m]]

\* While nothing fails every saved mail reaches the agents, in whatever order
\* its deliveries ran and though the provider stopped waiting.  (After a
\* failure behind the ledger row it never does: the next delivery is a
\* duplicate.)  createInboundMessage, broadcastInboundMessage.
SavedIsAnnounced ==
    faults = 0 => \A m \in Mails : Saved(m) /\ ~Running(m) => m \in announced

\* A customer whose shadow user was made and whose contact was not, by an
\* attempt that is no more.
LockedOut(c) ==
    /\ c \in shadows \ contacts
    /\ ~\E a \in Attempts : At(a, "contactRow") /\ SentBy[work[a].mail] = c

\* Every mail is saved in the end, unless its customer is locked out or it
\* was acknowledged for an attempt that failed (processInbound and webhook).
SavedUnlessLockedOut ==
    \A m \in Mails : <>(Saved(m) \/ m \in vouched \/ LockedOut(SentBy[m]))
=============================================================================
