----------------------------- MODULE OmniReplies -----------------------------
(***************************************************************************)
(* Agents answer a customer in one conversation of the omni-channel inbox  *)
(* (OmniChannel.service.ts and its repositories): by mail, where a reply   *)
(* is stored as pending, sent and then marked, or by a channel that is     *)
(* served first and recorded afterwards.  Every statement and every call   *)
(* of the provider is awaited, so replies, the customer's own messages and *)
(* the pages of the inbox interleave at each of them, and each can fail.   *)
(*                                                                         *)
(* A text, a file and a voice note are one kind of reply.  Whether the     *)
(* conversation was closed when the customer wrote, and so is reopened, is *)
(* left open; who may see it and who it is assigned to are left out.  An   *)
(* event is shown when it is sent, on the pages that hear it.  The inbox   *)
(* and the messages of a conversation are two requests of a page, read at  *)
(* one moment and put on the page at a later one, in any order, so events  *)
(* can overtake them.  A load that fails leaves the page as it is: its     *)
(* answer is one that never arrives.                                       *)
(*                                                                         *)
(* Bounds: the sets Replies and Mails, MaxMishaps broken requests, unheard *)
(* answers of the provider and broadcasts, MaxOpens loads.                 *)
(***************************************************************************)
EXTENDS OmniChannel, Sequences

CONSTANTS
    Replies,    \* what agents send
    Pages,      \* open inboxes
    SentFrom,   \* the page a reply is sent from
    AgentOf,    \* whose page it is
    MaxOpens

ASSUME RepliesAssumption ==
    /\ SentFrom \in [Replies -> Pages]
    /\ DOMAIN AgentOf = Pages
    /\ Replies \cap Mails = {}
    /\ IsFiniteSet(Replies)
    /\ NONE \notin Replies \cup Mails \cup {"pending", "sent", "failed"}
    /\ MaxOpens \in Nat

VARIABLES
    channel,    \* the channel of the conversation
    at,         \* where each reply's request is
    seen,       \* the failure count it read at its start
    parent,     \* the mail a reply answers (In-Reply-To)
    letter,     \* where the handling of each customer message is
    messages,   \* messages of the conversation, in the order of their ids
    emails,     \* email_messages, in the order of their ids
    status,     \* delivery_status of the replies in email_messages
    fails,      \* delivery_fail_count of the conversation
    shown,      \* what each page shows, with the delivery status it shows
    flag,       \* the failure count each page shows
    inboxes,    \* answers under way with the conversation's row
    lists,      \* answers under way with its messages
    mishaps, opens, \* counters behind the bounds
    accepted,   \* history: replies the provider has taken
    missed,     \* history: replies a load or an unheard event kept from a page
    unflagged,  \* history: failures a load or an unheard event kept from its flag
    cleared     \* history: the failure count has been reset

server == <<at, seen, parent, letter, messages, emails, status, fails>>
clients == <<shown, flag, inboxes, lists>>
history == <<accepted, missed, unflagged, cleared>>
repliesVars == <<channel, server, clients, mishaps, opens, history>>

Ids == Replies \cup Mails
Busy == {"parent", "store", "record", "send", "mark", "clear", "tell",
            "markFailed", "bubble", "count", "flag"}
Resting == {"idle", "done", "failed", "broken"}
Status == {NONE, "pending", "sent", "failed"}
Bubble == [id : Ids, status : Status]
\* what was read, and what it is too old to say
InboxAnswer == [nr : Nat, page : Pages, count : Nat, unsaid : SUBSET Replies]
ListAnswer == [nr : Nat, page : Pages, list : SUBSET Bubble, gap : SUBSET Replies]

RepliesTypeOK ==
    /\ channel \in {"email", "chat"}
    /\ at \in [Replies -> Busy \cup Resting]
    /\ seen \in [Replies -> Nat]
    /\ parent \in [Replies -> Ids \cup {NONE}]
    /\ letter \in [Mails -> {"idle", "reopen", "store", "record", "tell", "done"}]
    /\ messages \in Seq(Ids)
    /\ emails \in Seq(Ids)
    /\ status \in [Replies -> Status]
    /\ fails \in Nat
    /\ shown \in [Pages -> SUBSET Bubble]
    /\ flag \in [Pages -> Nat]
    /\ inboxes \subseteq InboxAnswer
    /\ lists \subseteq ListAnswer
    /\ mishaps \in 0..MaxMishaps
    /\ opens \in 0..MaxOpens
    /\ accepted \subseteq Replies
    /\ missed \in [Pages -> SUBSET Replies]
    /\ unflagged \in [Pages -> SUBSET Replies]
    /\ cleared \in BOOLEAN

RepliesInit ==
    /\ channel \in {"email", "chat"}
    /\ at = [r \in Replies |-> "idle"]
    /\ seen = [r \in Replies |-> 0]
    /\ parent = [r \in Replies |-> NONE]
    /\ letter = [m \in Mails |-> "idle"]
    /\ messages = <<>>
    /\ emails = <<>>
    /\ status = [r \in Replies |-> NONE]
    /\ fails = 0
    /\ shown = [p \in Pages |-> {}]
    /\ flag = [p \in Pages |-> 0]
    /\ inboxes = {}
    /\ lists = {}
    /\ mishaps = 0
    /\ opens = 0
    /\ accepted = {}
    /\ missed = [p \in Pages |-> {}]
    /\ unflagged = [p \in Pages |-> {}]
    /\ cleared = FALSE

-----------------------------------------------------------------------------
(* Reads and broadcasts.                                                   *)

Mishap == mishaps < MaxMishaps /\ mishaps' = mishaps + 1

Listed == {messages[i] : i \in DOMAIN messages}

\* the last of S that is in s (ORDER BY id DESC LIMIT 1)
Latest(s, S) ==
    LET last == {s[i] : i \in {k \in DOMAIN s :
                    s[k] \in S /\ \A j \in DOMAIN s : j > k => s[j] \notin S}}
    IN IF last = {} THEN NONE ELSE CHOOSE x \in last : TRUE

\* mutant: any mail of ours
AnyOfOurs == Replies

\* mails of ours the server accepted: "failed/pending never become a parent"
Sendable == {r \in Replies : status[r] = "sent"}

\* resolveEmailThreading: the customer's latest mail, else ours; a mail of the
\* customer without an email_messages row is found in the ledger
ReplyParent ==
    IF Latest(emails, Mails) # NONE THEN Latest(emails, Mails)
    ELSE IF Latest(emails, Sendable) # NONE THEN Latest(emails, Sendable)
    ELSE Latest(messages, Mails)

StatusOf(x) == IF x \in Replies THEN status[x] ELSE NONE
BubbleOf(x) == [id |-> x, status |-> StatusOf(x)]

\* addMessage: nothing when a message of this id is there
AddMessage(list, b) ==
    IF \E c \in list : c.id = b.id THEN list ELSE list \cup {b}

\* broadcastToConversation and, on each page told, addMessage
ShowOn(told, x) ==
    shown' = [p \in Pages |-> IF p \in told THEN AddMessage(shown[p], BubbleOf(x))
                              ELSE shown[p]]

\* receive_message excludes the sender: also another page of the same agent
Others(r) == {p \in Pages : AgentOf[p] # AgentOf[SentFrom[r]]}

\* r is one more of what is kept from the pages that did not hear
Without(lost, heard, r) ==
    [p \in Pages |-> IF p \in heard THEN lost[p] ELSE lost[p] \cup {r}]

\* only open sockets hear a broadcast, and when the members cannot be read
\* broadcastToConversation tells nobody and returns
Announce(r, told, anyway) ==
    \/ /\ ShowOn(told \cup anyway, r)
       /\ UNCHANGED <<mishaps, missed>>
    \/ /\ Mishap
       /\ \E heard \in SUBSET told :
            /\ ShowOn(heard \cup anyway, r)
            /\ missed' = Without(missed, heard \cup anyway, r)

-----------------------------------------------------------------------------
(* A reply.                                                                *)

Proceed(r, step) == at' = [at EXCEPT ![r] = step]

\* sendAgentReply, sendAgentMediaReply: resolveExternalConversation reads the row
Ask(r) ==
    /\ at[r] = "idle"
    /\ seen' = [seen EXCEPT ![r] = fails]
    /\ Proceed(r, IF channel = "email" THEN "parent" ELSE "send")
    /\ UNCHANGED <<channel, parent, letter, messages, emails, status, fails, clients,
                   mishaps, opens, history>>

\* mutant: an e-mail is sent before anything is stored
FindParentThenSend(r) ==
    /\ at[r] = "parent"
    /\ parent' = [parent EXCEPT ![r] = ReplyParent]
    /\ Proceed(r, "send")
    /\ UNCHANGED <<channel, seen, letter, messages, emails, status, fails, clients,
                   mishaps, opens, history>>

\* sendEmailWithStatus: what it answers, and the Message-ID it is sent with
FindParent(r) ==
    /\ at[r] = "parent"
    /\ parent' = [parent EXCEPT ![r] = ReplyParent]
    /\ Proceed(r, "store")
    /\ UNCHANGED <<channel, seen, letter, messages, emails, status, fails, clients,
                   mishaps, opens, history>>

\* messageRepository.create; a channel's reply has its ledger row next
Store(r) ==
    /\ at[r] = "store"
    /\ messages' = Append(messages, r)
    /\ Proceed(r, IF channel = "email" THEN "record" ELSE "tell")
    /\ UNCHANGED <<channel, seen, parent, letter, emails, status, fails, clients,
                   mishaps, opens, history>>

\* emailMessages.create, with the ledger's row just before
Record(r) ==
    /\ at[r] = "record"
    /\ emails' = Append(emails, r)
    /\ status' = [status EXCEPT ![r] = "pending"]
    /\ Proceed(r, "send")
    /\ UNCHANGED <<channel, seen, parent, letter, messages, fails, clients,
                   mishaps, opens, history>>

AfterSend == IF channel = "email" THEN "mark" ELSE "clear"
AfterRefusal == IF channel = "email" THEN "markFailed" ELSE "count"

\* the provider takes it and says so
SendAccepted(r) ==
    /\ at[r] = "send"
    /\ accepted' = accepted \cup {r}
    /\ Proceed(r, AfterSend)
    /\ UNCHANGED <<channel, seen, parent, letter, messages, emails, status, fails,
                   clients, mishaps, opens, missed, unflagged, cleared>>

\* it refuses, or cannot be reached
SendRefused(r) ==
    /\ at[r] = "send"
    /\ Proceed(r, AfterRefusal)
    /\ UNCHANGED <<channel, seen, parent, letter, messages, emails, status, fails,
                   clients, mishaps, opens, history>>

\* it takes it, and the connection is lost before it says so
SendUnheard(r) ==
    /\ at[r] = "send"
    /\ Mishap
    /\ accepted' = accepted \cup {r}
    /\ Proceed(r, AfterRefusal)
    /\ UNCHANGED <<channel, seen, parent, letter, messages, emails, status, fails,
                   clients, opens, missed, unflagged, cleared>>

\* markSent, markFailed
Mark(r) ==
    /\ at[r] \in {"mark", "markFailed"}
    /\ status' = [status EXCEPT ![r] = IF at[r] = "mark" THEN "sent" ELSE "failed"]
    /\ Proceed(r, IF at[r] = "mark" THEN "clear" ELSE "bubble")
    /\ UNCHANGED <<channel, seen, parent, letter, messages, emails, fails, clients,
                   mishaps, opens, history>>

\* clearDeliveryFailure
Clear(r) ==
    /\ at[r] = "clear"
    /\ fails' = 0
    /\ cleared' = TRUE
    /\ Proceed(r, IF channel = "email" THEN "tell" ELSE "store")
    /\ UNCHANGED <<channel, seen, parent, letter, messages, emails, status, clients,
                   mishaps, opens, accepted, missed, unflagged>>

\* loadOutgoingMessage, receive_message and the answer of the request
Tell(r) ==
    /\ at[r] = "tell"
    /\ Announce(r, Others(r), {SentFrom[r]})
    /\ Proceed(r, "done")
    /\ UNCHANGED <<channel, seen, parent, letter, messages, emails, status, fails,
                   flag, inboxes, lists, opens, accepted, unflagged, cleared>>

\* mutant: as receive_message of a reply that was sent
TellFailedToOthers(r) ==
    /\ at[r] = "bubble"
    /\ Announce(r, Others(r), {})
    /\ Proceed(r, "count")
    /\ UNCHANGED <<channel, seen, parent, letter, messages, emails, status, fails,
                   flag, inboxes, lists, opens, accepted, unflagged, cleared>>

\* the failed bubble goes to everyone: the sender's request is answered with 502
TellFailed(r) ==
    /\ at[r] = "bubble"
    /\ Announce(r, Pages, {})
    /\ Proceed(r, "count")
    /\ UNCHANGED <<channel, seen, parent, letter, messages, emails, status, fails,
                   flag, inboxes, lists, opens, accepted, unflagged, cleared>>

\* mutant: the count that was read, plus one
CountFromRead(r) ==
    /\ at[r] = "count"
    /\ fails' = seen[r] + 1
    /\ Proceed(r, "flag")
    /\ UNCHANGED <<channel, seen, parent, letter, messages, emails, status, clients,
                   mishaps, opens, history>>

\* recordDeliveryFailure: one UPDATE, delivery_fail_count + 1
Count(r) ==
    /\ at[r] = "count"
    /\ fails' = fails + 1
    /\ Proceed(r, "flag")
    /\ UNCHANGED <<channel, seen, parent, letter, messages, emails, status, clients,
                   mishaps, opens, history>>

FlagOn(told, r) ==
    flag' = [p \in Pages |-> IF p \in told THEN seen[r] + 1 ELSE flag[p]]

\* omni_delivery_failed, with the count the request read at its start
RaiseFlag(r) ==
    /\ at[r] = "flag"
    /\ \/ /\ FlagOn(Pages, r)
          /\ UNCHANGED <<mishaps, unflagged>>
       \/ /\ Mishap
          /\ \E heard \in SUBSET Pages :
                /\ FlagOn(heard, r)
                /\ unflagged' = Without(unflagged, heard, r)
    /\ Proceed(r, "failed")
    /\ UNCHANGED <<channel, seen, parent, letter, messages, emails, status, fails,
                   shown, inboxes, lists, opens, accepted, missed, cleared>>

\* a statement fails or the process restarts: nothing undoes the steps before
Break(r) ==
    /\ at[r] \in Busy
    /\ Mishap
    /\ Proceed(r, "broken")
    /\ UNCHANGED <<channel, seen, parent, letter, messages, emails, status, fails,
                   clients, opens, history>>

-----------------------------------------------------------------------------
(* A message of the customer.                                              *)

Turn(m, step) == letter' = [letter EXCEPT ![m] = step]

\* findOrCreateConversation; a closed conversation is reopened first
Arrive(m) ==
    /\ letter[m] = "idle"
    /\ \E step \in {"reopen", "store"} : Turn(m, step)
    /\ UNCHANGED <<channel, at, seen, parent, messages, emails, status, fails, clients,
                   mishaps, opens, history>>

\* clearDeliveryFailureOnReopen
Reopen(m) ==
    /\ letter[m] = "reopen"
    /\ fails' = 0
    /\ cleared' = TRUE
    /\ Turn(m, "store")
    /\ UNCHANGED <<channel, at, seen, parent, messages, emails, status, clients,
                   mishaps, opens, accepted, missed, unflagged>>

\* createInboundMessage
StoreLetter(m) ==
    /\ letter[m] = "store"
    /\ messages' = Append(messages, m)
    /\ Turn(m, IF channel = "email" THEN "record" ELSE "tell")
    /\ UNCHANGED <<channel, at, seen, parent, emails, status, fails, clients,
                   mishaps, opens, history>>

\* recordInboundEmail is best effort: when it fails the message stays
RecordLetter(m) ==
    /\ letter[m] = "record"
    /\ \/ /\ emails' = Append(emails, m)
          /\ UNCHANGED mishaps
       \/ /\ Mishap
          /\ UNCHANGED emails
    /\ Turn(m, "tell")
    /\ UNCHANGED <<channel, at, seen, parent, messages, status, fails, clients, opens,
                   history>>

\* broadcastInboundMessage
TellLetter(m) ==
    /\ letter[m] = "tell"
    /\ \/ ShowOn(Pages, m) /\ UNCHANGED mishaps
       \/ Mishap /\ UNCHANGED shown
    /\ Turn(m, "done")
    /\ UNCHANGED <<channel, at, seen, parent, messages, emails, status, fails, flag,
                   inboxes, lists, opens, history>>

-----------------------------------------------------------------------------
(* A page of the inbox.                                                    *)

\* Failures the table has counted.
Counted == {r \in Replies : at[r] \in {"flag", "failed"}}

Load == opens < MaxOpens /\ opens' = opens + 1

\* getAll, for load and refreshConversations
ReadInbox(p) ==
    /\ Load
    /\ inboxes' = inboxes \cup
            {[nr |-> opens, page |-> p, count |-> fails, unsaid |-> Replies \ Counted]}
    /\ UNCHANGED <<channel, server, shown, flag, lists, mishaps, history>>

\* setConversations: also over a flag raised meanwhile
InboxArrives(a) ==
    /\ inboxes' = inboxes \ {a}
    /\ flag' = [flag EXCEPT ![a.page] = a.count]
    /\ unflagged' = [unflagged EXCEPT ![a.page] = {r \in a.unsaid : at[r] = "failed"}]
    /\ UNCHANGED <<channel, server, shown, lists, mishaps, opens, accepted, missed,
                   cleared>>

\* getMessages, for loadConversation
ReadList(p) ==
    /\ Load
    /\ lists' = lists \cup
            {[nr |-> opens, page |-> p, list |-> {BubbleOf(x) : x \in Listed},
              gap |-> {r \in Replies : at[r] \in Busy \cup {"idle"}}]}
    /\ UNCHANGED <<channel, server, shown, flag, inboxes, mishaps, history>>

\* setMessages
ListArrives(a) ==
    /\ lists' = lists \ {a}
    /\ shown' = [shown EXCEPT ![a.page] = a.list]
    /\ missed' = [missed EXCEPT ![a.page] = {r \in a.gap : at[r] # "idle"}]
    /\ UNCHANGED <<channel, server, flag, inboxes, mishaps, opens, accepted, unflagged,
                   cleared>>

-----------------------------------------------------------------------------
Reply(r) ==
    \/ Ask(r) \/ FindParent(r) \/ Store(r) \/ Record(r)
    \/ SendAccepted(r) \/ SendRefused(r) \/ SendUnheard(r)
    \/ Mark(r) \/ Clear(r) \/ Tell(r)
    \/ TellFailed(r) \/ Count(r) \/ RaiseFlag(r) \/ Break(r)

Letter(m) ==
    Arrive(m) \/ Reopen(m) \/ StoreLetter(m) \/ RecordLetter(m) \/ TellLetter(m)

RepliesNext ==
    \/ \E r \in Replies : Reply(r)
    \/ \E m \in Mails : Letter(m)
    \/ \E p \in Pages : ReadInbox(p) \/ ReadList(p)
    \/ \E a \in inboxes : InboxArrives(a)
    \/ \E a \in lists : ListArrives(a)

RepliesSpec == RepliesInit /\ [][RepliesNext]_repliesVars

-----------------------------------------------------------------------------
(* Properties.                                                             *)

\* No gap and no false claim: a mail that has left has a row that shows on the
\* inbox whatever broke afterwards, and a row that says "sent" has left; a reply
\* of another channel is on record only if the provider took it
\* (sendEmailWithStatus, sendAgentReply).
RepliesOnRecord ==
    IF channel = "email"
    THEN /\ \A r \in accepted : r \in Listed /\ status[r] # NONE
         /\ \A r \in Replies : status[r] = "sent" => r \in accepted
    ELSE \A r \in Replies : r \in Listed => r \in accepted

\* What a reply answers is a mail the customer wrote or received: a failed or
\* unfinished one of ours never opens a thread the customer cannot have
\* (findReplyParent).
ParentWasReceived ==
    \A r \in Replies : parent[r] # NONE => parent[r] \in Mails \cup accepted

\* Nothing runs.
Quiet ==
    /\ \A r \in Replies : at[r] \in Resting
    /\ \A m \in Mails : letter[m] \in {"idle", "done"}

Failed == {r \in Replies : at[r] = "failed"}

\* Failures of overlapping requests are all counted, and every page flags the
\* conversation, until a delivery or the customer clears it (reportDeliveryFailure).
\* A page may show no flag of a failure it did not hear of and one that an answer
\* read before the failure was counted has overwritten (InboxArrives): nothing puts
\* it right but the next load or failure.
FailuresAreFlagged ==
    Quiet /\ ~cleared =>
        /\ fails >= Cardinality(Failed)
        /\ \A p \in Pages : Failed \subseteq unflagged[p] \/ flag[p] > 0

\* When nothing runs, the page a reply was sent from and those of other agents show
\* every reply that ran to its end, with the status the table has; a mail that
\* failed shows on the sender's page too, which got an error and no message.  Not
\* so on a page that did not hear of it, or whose messages were read before it
\* ended and arrived after it began (Tell, TellFailed, ListArrives).
PagesShowTheOutcome ==
    Quiet => \A r \in Replies : \A p \in Others(r) \cup {SentFrom[r]} :
        r \notin missed[p]
        /\ (at[r] = "done" \/ (at[r] = "failed" /\ channel = "email"))
        => BubbleOf(r) \in shown[p]
=============================================================================
