----------------------------- MODULE OmniProofs -----------------------------
(***************************************************************************)
(* The omni-channel inbox, first the mails that come in, then the replies. *)
(*                                                                         *)
(* What the provider is told about a mail is true of the ledger, what is   *)
(* in the ledger reaches the agents, replies join their thread and no mail *)
(* is stored twice, for any mails, customers, subjects and references and  *)
(* any number of attempts, failures and retries.                           *)
(*                                                                         *)
(* None is inductive: the answer 200 for a mail being handled is only as   *)
(* good as the map of mails being handled (Handling), Publish answers 200  *)
(* for a row that StoreLedger wrote (HasRow, HasThread), a handler writes  *)
(* the thread it looked up long before (Joining), and a mail is not stored *)
(* twice because every handler that may yet write is accounted for by its  *)
(* entry in the map or by an excuse (Accounts).                            *)
(*                                                                         *)
(* Of replies, for any number of replies, letters, pages and agents, any   *)
(* bound on mishaps and page loads: the record is true, what is answered   *)
(* was received, failures are flagged, and the pages show the outcome.     *)
(* The two parts share no variable and no lemma.                           *)
(***************************************************************************)
EXTENDS OmniInbound, OmniReplies, FiniteSetTheorems, TLAPS

\* Whoever finishes a mail takes its entry out, so what is in the map is
\* being handled even where two attempts share one entry.
Handling == \A m \in inFlight : Running(m)

Known(t) == t \in Threads /\ threads[t] # NONE

\* A handler that got past the threads knows its conversation.
HasThread ==
    \A a \in Attempts : work[a] # NONE /\ work[a].step \in {"store", "row", "ledger", "publish"}
                          => Known(work[a].thread)

\* ... and so does a ledger row.
LedgerKnown == \A m \in Mails : Saved(m) => Known(ledger[m])

\* A handler that is about to publish has its ledger row.
HasRow == \A a \in Attempts : At(a, "publish") => Saved(work[a].mail)

\* A row nobody saw yet has a handler that is about to publish it.
Announcing ==
    faults = 0 => \A m \in Mails : Saved(m) =>
        m \in announced \/ \E a \in Attempts : At(a, "publish") /\ work[a].mail = m

IInv ==
    /\ TypeOK
    /\ Handling
    /\ HasThread
    /\ LedgerKnown
    /\ HasRow
    /\ AckedIsSaved
    /\ Announcing

----------------------------------------------------------------------------
(***************************************************************************)
(* What the ways a handler moves on have in common.                        *)
(***************************************************************************)
\* A handler that goes on stays with its mail; the others stay as they are.
LEMMA Onward ==
  ASSUME TypeOK, NEW a \in Attempts, work[a] # NONE, NEW s \in Steps,
         NEW t \in Threads \cup {NONE},
         \/ work' = [work EXCEPT ![a].step = s] /\ t = work[a].thread
         \/ work' = [work EXCEPT ![a].step = s, ![a].thread = t]
  PROVE  /\ work' \in [Attempts -> Handlers \cup {NONE}]
         /\ work'[a] # NONE /\ work'[a].mail = work[a].mail
         /\ work'[a].step = s /\ work'[a].thread = t
         /\ \A b \in Attempts \ {a} : work'[b] = work[b]
  <1>1. work[a] \in Handlers
    BY DEF TypeOK, Handlers
  <1>2. [mail |-> work[a].mail, step |-> s, thread |-> t] \in Handlers
    BY <1>1 DEF Handlers
  <1>3. work' = [work EXCEPT ![a] = [mail |-> work[a].mail, step |-> s, thread |-> t]]
    BY <1>1 DEF TypeOK, Handlers
  <1>4. [mail |-> work[a].mail, step |-> s, thread |-> t] # NONE
    BY <1>2, NoneAssumption
  <1>5. QED
    BY <1>2, <1>3, <1>4 DEF TypeOK, Handlers

\* A step that takes handler a from one statement to the next, and writes
\* no ledger row but the one it is then about to publish.
LEMMA GoesOn ==
  ASSUME IInv, NEW a \in Attempts, work[a] # NONE, work[a].step # "publish",
         NEW s \in Steps, NEW t \in Threads \cup {NONE},
         \/ work' = [work EXCEPT ![a].step = s] /\ t = work[a].thread
         \/ work' = [work EXCEPT ![a].step = s, ![a].thread = t],
         s \in {"store", "row", "ledger", "publish"} => t \in Threads /\ threads'[t] # NONE,
         \A other \in Threads : threads[other] # NONE => threads'[other] # NONE,
         UNCHANGED <<waiting, inFlight, acked, announced, vouched>>,
         faults' = 0 => faults = 0,
         \A m \in Mails : Saved(m) => ledger'[m] # NONE,
         s = "publish" => ledger'[work[a].mail] # NONE,
         \A m \in Mails : ledger'[m] # NONE =>
            ledger'[m] = ledger[m] \/ (s = "publish" /\ m = work[a].mail /\ ledger'[m] = t)
  PROVE  Handling' /\ HasThread' /\ LedgerKnown' /\ HasRow' /\ AckedIsSaved' /\ Announcing'
  <1> USE DEF IInv
  <1>1. /\ work'[a] # NONE /\ work'[a].mail = work[a].mail
        /\ work'[a].step = s /\ work'[a].thread = t
        /\ \A b \in Attempts \ {a} : work'[b] = work[b]
    BY Onward
  <1>2. Handling'
    BY <1>1 DEF Handling, Running
  <1>3. HasThread' /\ LedgerKnown'
    BY <1>1 DEF HasThread, LedgerKnown, Known, Saved
  <1>4. HasRow'
    <2> SUFFICES ASSUME NEW b \in Attempts, At(b, "publish")'
                 PROVE  ledger'[work'[b].mail] # NONE
      BY DEF HasRow, Saved
    <2>1. CASE b = a
      BY <1>1, <2>1 DEF At
    <2>2. CASE b # a
      <3>1. At(b, "publish") /\ work[b].mail \in Mails
        BY <1>1, <2>2 DEF At, TypeOK, Handlers
      <3>2. QED
        BY <1>1, <2>2, <3>1 DEF HasRow
    <2>3. QED
      BY <2>1, <2>2
  <1>5. AckedIsSaved'
    BY DEF AckedIsSaved, Saved, TypeOK
  <1>6. Announcing'
    <2> SUFFICES ASSUME faults' = 0, NEW m \in Mails, ledger'[m] # NONE
                 PROVE  m \in announced \/ \E b \in Attempts : At(b, "publish")' /\ work'[b].mail = m
      BY DEF Announcing, Saved
    <2>1. CASE Saved(m)
      <3>1. m \in announced \/ \E b \in Attempts : At(b, "publish") /\ work[b].mail = m
        BY <2>1 DEF Announcing
      <3>2. QED
        BY <1>1, <3>1 DEF At
    <2>2. CASE s = "publish" /\ m = work[a].mail
      BY <1>1, <2>2 DEF At
    <2>3. QED
      BY <2>1, <2>2 DEF Saved
  <1>7. QED
    BY <1>2, <1>3, <1>4, <1>5, <1>6

\* A step that ends handler a: what it says of its mail is true.
LEMMA Ends ==
  ASSUME IInv, NEW a \in Attempts, work[a] # NONE,
         NEW failed \in BOOLEAN, Finish(a, failed),
         ledger' = ledger, threads' = threads, vouched' = vouched,
         announced \subseteq announced',
         faults' = 0 => faults = 0,
         ~failed => Saved(work[a].mail),
         work[a].step = "publish" => work[a].mail \in announced' \/ faults' # 0
  PROVE  /\ work' \in [Attempts -> Handlers \cup {NONE}]
         /\ waiting' \subseteq Attempts /\ inFlight' \subseteq Mails /\ acked' \subseteq Mails
         /\ Handling' /\ HasThread' /\ LedgerKnown' /\ HasRow' /\ AckedIsSaved' /\ Announcing'
  <1> USE DEF IInv
  <1>1. work[a].mail \in Mails
    BY DEF TypeOK, Handlers
  <1>2. /\ work' \in [Attempts -> Handlers \cup {NONE}]
        /\ work'[a] = NONE
        /\ \A b \in Attempts \ {a} : work'[b] = work[b]
    BY DEF TypeOK, Finish
  <1>3. waiting' \subseteq Attempts /\ inFlight' \subseteq Mails /\ acked' \subseteq Mails
    BY <1>1 DEF TypeOK, Finish, Settle
  <1>4. Handling'
    BY <1>2 DEF Handling, Running, Finish, Settle
  <1>5. HasThread' /\ LedgerKnown'
    BY <1>2 DEF HasThread, LedgerKnown, Known, Saved
  <1>6. HasRow'
    BY <1>2 DEF HasRow, At, Saved
  <1>7. AckedIsSaved'
    BY <1>1 DEF AckedIsSaved, Saved, Finish, Acknowledges
  <1>8. Announcing'
    <2> SUFFICES ASSUME faults' = 0, NEW m \in Mails, Saved(m)
                 PROVE  m \in announced' \/ \E b \in Attempts : At(b, "publish")' /\ work'[b].mail = m
      BY DEF Announcing, Saved
    <2>1. m \in announced \/ \E b \in Attempts : At(b, "publish") /\ work[b].mail = m
      BY DEF Announcing
    <2>2. QED
      BY <1>2, <2>1 DEF At
  <1>9. QED
    BY <1>2, <1>3, <1>4, <1>5, <1>6, <1>7, <1>8

----------------------------------------------------------------------------
LEMMA InitHolds == Init => IInv
  <1> SUFFICES ASSUME Init PROVE IInv
    OBVIOUS
  <1>1. TypeOK
    BY BoundsAssumption, MaxMishapsAssumption DEF Init, TypeOK
  <1>2. \A m \in Mails : ~Saved(m)
    BY DEF Init, Saved
  <1>3. \A a \in Attempts : work[a] = NONE
    BY DEF Init
  <1>4. QED
    BY <1>1, <1>2, <1>3 DEF Init, IInv, Handling, HasThread, LedgerKnown, HasRow, AckedIsSaved, Announcing, At

LEMMA DeliverKeeps ==
  ASSUME IInv, NEW a \in Attempts, NEW m \in Mails, Deliver(a, m)
  PROVE  IInv'
  <1> USE DEF IInv
  <1>1. CASE BeingHandled(m) /\ UNCHANGED <<memVars, late>>
    <2>1. Running(m)
      BY <1>1 DEF BeingHandled, Handling
    <2>2. acked' = acked \cup {m} /\ vouched' = vouched \cup {m}
      BY <1>1, <2>1 DEF Deliver
    <2>3. UNCHANGED <<work, waiting, inFlight, late, dbVars, announced, grouped, excused, boundVars>>
      BY <1>1 DEF Deliver, memVars
    <2>4. TypeOK'
      BY <2>2, <2>3 DEF TypeOK, dbVars, boundVars
    <2>5. AckedIsSaved'
      BY <2>2, <2>3 DEF AckedIsSaved, Saved, dbVars
    <2>6. Handling' /\ HasThread' /\ LedgerKnown' /\ HasRow' /\ Announcing'
      BY <2>3 DEF Handling, Running, HasThread, LedgerKnown, Known, HasRow, Announcing, At, Saved, dbVars, boundVars
    <2>7. QED
      BY <2>4, <2>5, <2>6
  <1>2. CASE ~BeingHandled(m)
    <2> DEFINE h == [mail |-> m, step |-> "contact", thread |-> NONE]
    <2>1. /\ work[a] = NONE
          /\ work' = [work EXCEPT ![a] = h]
          /\ waiting' = waiting \cup {a} /\ inFlight' = inFlight \cup {m}
          /\ late' \in {late, late \cup {m}}
          /\ UNCHANGED <<acked, vouched, dbVars, announced, grouped, excused, boundVars>>
      BY <1>2 DEF Deliver
    <2>2. h \in Handlers /\ h # NONE
      BY NoneAssumption DEF Handlers, Steps
    <2>3. /\ work'[a] = h
          /\ \A b \in Attempts \ {a} : work'[b] = work[b]
      BY <2>1 DEF TypeOK
    <2>4. TypeOK'
      BY <2>1, <2>2 DEF TypeOK, dbVars, boundVars
    <2>5. Handling'
      BY <2>1, <2>2, <2>3 DEF Handling, Running
    <2>6. HasThread' /\ LedgerKnown' /\ HasRow' /\ AckedIsSaved'
      BY <2>1, <2>2, <2>3 DEF HasThread, LedgerKnown, Known, HasRow, AckedIsSaved, At, Saved, dbVars
    <2>7. Announcing'
      BY <2>1, <2>2, <2>3 DEF Announcing, At, Saved, dbVars, boundVars
    <2>8. QED
      BY <2>4, <2>5, <2>6, <2>7
  <1>3. QED
    BY <1>1, <1>2 DEF Deliver

\* The statements that are not the last one of their handler.
LEMMA FindContactKeeps ==
  ASSUME IInv, NEW a \in Attempts, FindContact(a)
  PROVE  IInv'
  <1> USE DEF IInv
  <1> DEFINE s == IF SentBy[work[a].mail] \in contacts THEN "thread" ELSE "shadow"
             t == work[a].thread
  <1>1. work[a] # NONE /\ work[a].step = "contact"
    BY DEF FindContact, At
  <1>2. s \in Steps \ {"store", "row", "ledger", "publish"} /\ t \in Threads \cup {NONE}
    BY <1>1 DEF Steps, TypeOK, Handlers
  <1>3. /\ work' = [work EXCEPT ![a].step = s]
        /\ UNCHANGED <<waiting, inFlight, acked, dbVars, announced, histVars, boundVars>>
    BY DEF FindContact, Goto
  <1> HIDE DEF s, t
  <1>4. TypeOK'
    BY <1>1, <1>2, <1>3, Onward DEF TypeOK, dbVars, histVars, boundVars, t
  <1>5. Handling' /\ HasThread' /\ LedgerKnown' /\ HasRow' /\ AckedIsSaved' /\ Announcing'
    BY <1>1, <1>2, <1>3, GoesOn DEF dbVars, histVars, boundVars, Saved, t
  <1>6. QED
    BY <1>4, <1>5

LEMMA CreateShadowKeeps ==
  ASSUME IInv, NEW a \in Attempts, CreateShadow(a)
  PROVE  IInv'
  <1> USE DEF IInv
  <1> DEFINE c == SentBy[work[a].mail]
             t == work[a].thread
  <1>1. work[a] # NONE /\ work[a].step = "shadow"
    BY DEF CreateShadow, At
  <1>2. c \in Customers /\ t \in Threads \cup {NONE}
    BY <1>1, SentByAssumption DEF TypeOK, Handlers
  <1>3. UNCHANGED <<contacts, threads, rows, ledger, announced, histVars, boundVars>>
    BY DEF CreateShadow
  <1>4. CASE shadows' = shadows \cup {c} /\ Goto(a, "contactRow")
    <2>1. "contactRow" \in Steps \ {"store", "row", "ledger", "publish"}
      BY DEF Steps
    <2>2. /\ work' = [work EXCEPT ![a].step = "contactRow"]
          /\ UNCHANGED <<waiting, inFlight, acked>>
      BY <1>4 DEF Goto
    <2>3. TypeOK'
      <3>1. work' \in [Attempts -> Handlers \cup {NONE}]
        BY <1>1, <1>2, <2>1, <2>2, Onward
      <3>2. QED
        BY <1>2, <1>3, <1>4, <2>2, <3>1 DEF TypeOK, histVars, boundVars
    <2>4. Handling' /\ HasThread' /\ LedgerKnown' /\ HasRow' /\ AckedIsSaved' /\ Announcing'
      BY <1>1, <1>2, <1>3, <2>1, <2>2, GoesOn DEF histVars, boundVars, Saved
    <2>5. QED
      BY <2>3, <2>4
  <1>5. CASE shadows' = shadows /\ Finish(a, TRUE)
    <2>1. /\ work' \in [Attempts -> Handlers \cup {NONE}]
          /\ waiting' \subseteq Attempts /\ inFlight' \subseteq Mails /\ acked' \subseteq Mails
          /\ Handling' /\ HasThread' /\ LedgerKnown' /\ HasRow' /\ AckedIsSaved' /\ Announcing'
      BY <1>1, <1>3, <1>5, Ends DEF histVars, boundVars
    <2>2. TypeOK'
      BY <1>3, <1>5, <2>1 DEF TypeOK, histVars, boundVars
    <2>3. QED
      BY <2>1, <2>2
  <1>6. QED
    BY <1>4, <1>5 DEF CreateShadow

LEMMA CreateContactKeeps ==
  ASSUME IInv, NEW a \in Attempts, CreateContact(a)
  PROVE  IInv'
  <1> USE DEF IInv
  <1> DEFINE t == work[a].thread
  <1>1. work[a] # NONE /\ work[a].step = "contactRow"
    BY DEF CreateContact, At
  <1>2. SentBy[work[a].mail] \in Customers /\ t \in Threads \cup {NONE} 
        /\ "thread" \in Steps \ {"store", "row", "ledger", "publish"}
    BY <1>1, SentByAssumption DEF TypeOK, Handlers, Steps
  <1>3. /\ work' = [work EXCEPT ![a].step = "thread"]
        /\ contacts' = contacts \cup {SentBy[work[a].mail]}
        /\ UNCHANGED <<waiting, inFlight, acked, shadows, threads, rows, ledger,
                       announced, histVars, boundVars>>
    BY DEF CreateContact, Goto
  <1>4. TypeOK'
    BY ZenonT(60), <1>1, <1>2, <1>3, Onward DEF TypeOK, histVars, boundVars
  <1>5. Handling' /\ HasThread' /\ LedgerKnown' /\ HasRow' /\ AckedIsSaved' /\ Announcing'
    BY <1>1, <1>2, <1>3, GoesOn DEF histVars, boundVars, Saved
  <1>6. QED
    BY <1>4, <1>5

\* The conversations found exist.
LEMMA CandidatesExist ==
  ASSUME IInv, NEW m \in Mails, NEW broken, NEW t \in Candidates(m, broken)
  PROVE  t \in Threads /\ threads[t] \in Conversations
  <1> USE DEF IInv
  <1>1. CASE t \in ByReference(m)
    BY <1>1 DEF ByReference, Referred, Known, LedgerKnown, TypeOK
  <1>2. CASE t \in ByContact(m)
    BY <1>2 DEF ByContact, TypeOK
  <1>3. CASE t \in BySubject(m)
    BY <1>2, <1>3 DEF BySubject
  <1>4. QED
    BY <1>1, <1>2, <1>3 DEF Candidates

LEMMA FindThreadKeeps ==
  ASSUME IInv, NEW a \in Attempts, FindThread(a)
  PROVE  IInv'
  <1> USE DEF IInv
  <1>1. work[a] # NONE /\ work[a].step = "thread" /\ work[a].mail \in Mails
    BY DEF FindThread, At, TypeOK, Handlers
  <1>2. PICK broken \in SUBSET {"hints", "subject"} :
          /\ faults + expiries + Cardinality(broken) <= MaxMishaps
          /\ faults' = faults + Cardinality(broken)
          /\ grouped' = IF broken = {} THEN grouped ELSE grouped \cup {work[a].mail}
          /\ \/ /\ threads' = threads
                /\ Goto(a, "newThread")
             \/ \E t \in Candidates(work[a].mail, broken) :
                   /\ threads' = [threads EXCEPT ![t].open = TRUE]
                   /\ work' = [work EXCEPT ![a].step = "store", ![a].thread = t]
                   /\ UNCHANGED <<waiting, inFlight, acked>>
    BY DEF FindThread
  <1>3. UNCHANGED <<shadows, contacts, rows, ledger, announced, vouched, late, excused,
                    expiries, turns>>
    BY DEF FindThread
  <1>4. Cardinality(broken) \in Nat
    <2>1. IsFiniteSet({"hints", "subject"})
      <3>1. IsFiniteSet({"subject"})
        BY FS_Singleton
      <3>2. IsFiniteSet({"subject"} \cup {"hints"})
        BY <3>1, FS_AddElement
      <3>3. {"subject"} \cup {"hints"} = {"hints", "subject"}
        OBVIOUS
      <3>4. QED
        BY <3>2, <3>3
    <2>2. QED
      BY <2>1, FS_Subset, FS_CardinalityType
  <1>5. /\ faults' \in Nat /\ faults' + expiries' <= MaxMishaps
        /\ faults' = 0 => faults = 0
        /\ grouped' \subseteq Mails
    BY <1>1, <1>2, <1>3, <1>4, BoundsAssumption, MaxMishapsAssumption DEF TypeOK
  <1>6. CASE threads' = threads /\ Goto(a, "newThread")
    <2> DEFINE t == work[a].thread
    <2>1. "newThread" \in Steps \ {"store", "row", "ledger", "publish"} /\ t \in Threads \cup {NONE}
      BY <1>1 DEF Steps, TypeOK, Handlers
    <2>2. /\ work' = [work EXCEPT ![a].step = "newThread"]
          /\ UNCHANGED <<waiting, inFlight, acked>>
      BY <1>6 DEF Goto
    <2>3. TypeOK'
      BY <1>1, <1>3, <1>5, <1>6, <2>1, <2>2, Onward DEF TypeOK
    <2>4. Handling' /\ HasThread' /\ LedgerKnown' /\ HasRow' /\ AckedIsSaved' /\ Announcing'
      BY <1>1, <1>3, <1>5, <1>6, <2>1, <2>2, GoesOn DEF Saved
    <2>5. QED
      BY <2>3, <2>4
  <1>7. ASSUME NEW t \in Candidates(work[a].mail, broken),
               threads' = [threads EXCEPT ![t].open = TRUE],
               work' = [work EXCEPT ![a].step = "store", ![a].thread = t],
               UNCHANGED <<waiting, inFlight, acked>>
        PROVE  IInv'
    <2>1. "store" \in Steps /\ t \in Threads
      BY <1>1, CandidatesExist DEF Steps
    <2>2. threads' \in [Threads -> Conversations \cup {NONE}]
      <3>1. threads[t] \in Conversations
        BY <1>1, CandidatesExist
      <3>2. [threads[t] EXCEPT !.open = TRUE] \in Conversations
        BY <3>1 DEF Conversations
      <3>3. QED
        BY <1>7, <2>1, <3>2 DEF TypeOK
    <2>3. TypeOK'
      BY <1>1, <1>3, <1>5, <1>7, <2>1, <2>2, Onward DEF TypeOK
    <2>4. \A other \in Threads : threads[other] # NONE => threads'[other] # NONE
      <3>1. threads[t] \in Conversations
        BY <1>1, CandidatesExist
      <3>2. [threads[t] EXCEPT !.open = TRUE] \in Conversations
        BY <3>1 DEF Conversations
      <3>3. QED
        BY <1>7, <2>1, <3>2, NoneAssumption DEF TypeOK
    <2>5. threads'[t] # NONE
      BY <1>1, <2>1, <2>4, CandidatesExist, NoneAssumption
    <2>6. Handling' /\ HasThread' /\ LedgerKnown' /\ HasRow' /\ AckedIsSaved' /\ Announcing'
      BY <1>1, <1>3, <1>5, <1>7, <2>1, <2>4, <2>5, GoesOn DEF Saved
    <2>7. QED
      BY <2>3, <2>6
  <1>8. QED
    BY <1>2, <1>6, <1>7

LEMMA CreateThreadKeeps ==
  ASSUME IInv, NEW a \in Attempts, CreateThread(a)
  PROVE  IInv'
  <1> USE DEF IInv
  <1>1. work[a] # NONE /\ work[a].step = "newThread" /\ work[a].mail \in Mails
    BY DEF CreateThread, At, TypeOK, Handlers
  <1>2. PICK t \in Threads :
          /\ threads' = [threads EXCEPT ![t] =
                [of |-> SentBy[work[a].mail], open |-> TRUE, name |-> Subject[work[a].mail]]]
          /\ work' = [work EXCEPT ![a].step = "store", ![a].thread = t]
    BY DEF CreateThread
  <1>3. UNCHANGED <<waiting, inFlight, acked, shadows, contacts, rows, ledger, announced,
                    histVars, boundVars>>
    BY DEF CreateThread
  <1>4. "store" \in Steps
    BY DEF Steps
  <1>5. threads' \in [Threads -> Conversations \cup {NONE}]
    BY <1>1, <1>2, SentByAssumption, SubjectAssumption DEF TypeOK, Conversations
  <1>6. /\ threads'[t] # NONE
        /\ \A other \in Threads : threads[other] # NONE => threads'[other] # NONE
    <2>1. [of |-> SentBy[work[a].mail], open |-> TRUE, name |-> Subject[work[a].mail]] \in Conversations
      BY <1>1, SentByAssumption, SubjectAssumption DEF Conversations
    <2>2. QED
      BY <1>2, <2>1, NoneAssumption DEF TypeOK
  <1>7. TypeOK'
    BY <1>1, <1>2, <1>3, <1>4, <1>5, Onward DEF TypeOK, histVars, boundVars
  <1>8. Handling' /\ HasThread' /\ LedgerKnown' /\ HasRow' /\ AckedIsSaved' /\ Announcing'
    BY <1>1, <1>2, <1>3, <1>4, <1>6, GoesOn DEF Saved, histVars, boundVars
  <1>9. QED
    BY <1>7, <1>8

LEMMA CheckDuplicateKeeps ==
  ASSUME IInv, NEW a \in Attempts, CheckDuplicate(a)
  PROVE  IInv'
  <1> USE DEF IInv
  <1> DEFINE t == work[a].thread
  <1>1. work[a] # NONE /\ work[a].step = "store" /\ t \in Threads /\ threads[t] # NONE
    BY DEF CheckDuplicate, At, HasThread, Known
  <1>2. UNCHANGED <<dbVars, announced, histVars, boundVars>>
    BY DEF CheckDuplicate
  <1>3. CASE Saved(work[a].mail)
    <2>1. Finish(a, FALSE)
      BY <1>3 DEF CheckDuplicate
    <2>2. /\ work' \in [Attempts -> Handlers \cup {NONE}]
          /\ waiting' \subseteq Attempts /\ inFlight' \subseteq Mails /\ acked' \subseteq Mails
          /\ Handling' /\ HasThread' /\ LedgerKnown' /\ HasRow' /\ AckedIsSaved' /\ Announcing'
      BY <1>1, <1>2, <1>3, <2>1, Ends DEF dbVars, histVars, boundVars
    <2>3. TypeOK'
      BY <1>2, <2>2 DEF TypeOK, dbVars, histVars, boundVars
    <2>4. QED
      BY <2>2, <2>3
  <1>4. CASE ~Saved(work[a].mail)
    <2>1. "row" \in Steps
      BY DEF Steps
    <2>2. /\ work' = [work EXCEPT ![a].step = "row"]
          /\ UNCHANGED <<waiting, inFlight, acked>>
      BY <1>4 DEF CheckDuplicate, Goto
    <2>3. TypeOK'
      BY <1>1, <1>2, <2>1, <2>2, Onward DEF TypeOK, dbVars, histVars, boundVars
    <2>4. Handling' /\ HasThread' /\ LedgerKnown' /\ HasRow' /\ AckedIsSaved' /\ Announcing'
      BY ZenonT(60), <1>1, <1>2, <2>1, <2>2, GoesOn DEF Saved, dbVars, histVars, boundVars
    <2>5. QED
      BY <2>3, <2>4
  <1>5. QED
    BY <1>3, <1>4

LEMMA StoreRowKeeps ==
  ASSUME IInv, NEW a \in Attempts, StoreRow(a)
  PROVE  IInv'
  <1> USE DEF IInv
  <1> DEFINE t == work[a].thread
  <1>1. work[a] # NONE /\ work[a].step = "row" /\ t \in Threads
        /\ threads[t] # NONE /\ "ledger" \in Steps /\ work[a].mail \in Mails
    BY DEF StoreRow, At, HasThread, Known, Steps, TypeOK, Handlers
  <1>2. /\ work' = [work EXCEPT ![a].step = "ledger"]
        /\ rows' = [rows EXCEPT ![work[a].mail] = @ + 1]
        /\ UNCHANGED <<waiting, inFlight, acked, shadows, contacts, threads, ledger,
                       announced, histVars, boundVars>>
    BY DEF StoreRow, Goto
  <1>3. TypeOK'
    <2>1. rows' \in [Mails -> Nat]
      BY <1>1, <1>2 DEF TypeOK
    <2>2. QED
      BY <1>1, <1>2, <2>1, Onward DEF TypeOK, histVars, boundVars
  <1>4. Handling' /\ HasThread' /\ LedgerKnown' /\ HasRow' /\ AckedIsSaved' /\ Announcing'
    BY <1>1, <1>2, GoesOn DEF Saved, histVars, boundVars
  <1>5. QED
    BY <1>3, <1>4

LEMMA StoreLedgerKeeps ==
  ASSUME IInv, NEW a \in Attempts, StoreLedger(a)
  PROVE  IInv'
  <1> USE DEF IInv
  <1> DEFINE t == work[a].thread
  <1>1. work[a] # NONE /\ work[a].step = "ledger" /\ t \in Threads
        /\ threads[t] # NONE /\ work[a].mail \in Mails
    BY DEF StoreLedger, At, HasThread, Known, TypeOK, Handlers
  <1>2. UNCHANGED <<shadows, contacts, threads, rows, announced, histVars, boundVars>>
    BY DEF StoreLedger
  <1>3. CASE Saved(work[a].mail) /\ ledger' = ledger /\ Finish(a, FALSE)
    <2>1. /\ work' \in [Attempts -> Handlers \cup {NONE}]
          /\ waiting' \subseteq Attempts /\ inFlight' \subseteq Mails /\ acked' \subseteq Mails
          /\ Handling' /\ HasThread' /\ LedgerKnown' /\ HasRow' /\ AckedIsSaved' /\ Announcing'
      BY <1>1, <1>2, <1>3, Ends DEF histVars, boundVars
    <2>2. TypeOK'
      BY <1>2, <1>3, <2>1 DEF TypeOK, histVars, boundVars
    <2>3. QED
      BY <2>1, <2>2
  <1>4. CASE ~Saved(work[a].mail) /\ ledger' = [ledger EXCEPT ![work[a].mail] = ThreadOf(a)]
               /\ Goto(a, "publish")
    <2>1. "publish" \in Steps /\ t # NONE
      BY <1>1, NoneAssumption, BoundsAssumption DEF Steps, Threads
    <2>2. /\ work' = [work EXCEPT ![a].step = "publish"]
          /\ UNCHANGED <<waiting, inFlight, acked>>
          /\ ledger' = [ledger EXCEPT ![work[a].mail] = t]
      BY <1>4 DEF Goto, ThreadOf
    <2>3. TypeOK'
      BY <1>1, <1>2, <2>1, <2>2, Onward DEF TypeOK, histVars, boundVars
    <2>4. /\ \A m \in Mails : Saved(m) => ledger'[m] # NONE
          /\ ledger'[work[a].mail] # NONE
          /\ \A m \in Mails : ledger'[m] # NONE =>
            ledger'[m] = ledger[m] \/ (m = work[a].mail /\ ledger'[m] = t)
      BY <1>1, <2>1, <2>2 DEF TypeOK, Saved
    <2> DEFINE s == "publish"
    <2>5. UNCHANGED <<waiting, inFlight, acked, announced, vouched, faults, threads>>
      BY <1>2, <2>2 DEF histVars, boundVars
    <2>6. /\ work[a].step # "publish" /\ s \in Steps /\ t \in Threads \cup {NONE}
          /\ work' = [work EXCEPT ![a].step = s] /\ t = work[a].thread
          /\ s \in {"store", "row", "ledger", "publish"} => t \in Threads /\ threads'[t] # NONE
          /\ \A other \in Threads : threads[other] # NONE => threads'[other] # NONE
          /\ faults' = 0 => faults = 0
          /\ s = "publish" => ledger'[work[a].mail] # NONE
          /\ \A m \in Mails : ledger'[m] # NONE =>
                ledger'[m] = ledger[m] \/ (s = "publish" /\ m = work[a].mail /\ ledger'[m] = t)
      BY <1>1, <2>1, <2>2, <2>4, <2>5
    <2> HIDE DEF t, s
    <2>7. Handling' /\ HasThread' /\ LedgerKnown' /\ HasRow' /\ AckedIsSaved' /\ Announcing'
      BY ZenonT(60), <1>1, <2>4, <2>5, <2>6, GoesOn
    <2>8. QED
      BY <2>3, <2>7
  <1>5. QED
    BY <1>3, <1>4 DEF StoreLedger

LEMMA PublishKeeps ==
  ASSUME IInv, NEW a \in Attempts, Publish(a)
  PROVE  IInv'
  <1> USE DEF IInv
  <1>1. /\ work[a] # NONE /\ work[a].mail \in Mails /\ Saved(work[a].mail)
        /\ announced' = announced \cup {work[a].mail} /\ Finish(a, FALSE)
        /\ UNCHANGED <<dbVars, histVars, boundVars>>
    BY DEF Publish, Announces, At, HasRow, TypeOK, Handlers
  <1>2. /\ work' \in [Attempts -> Handlers \cup {NONE}]
        /\ waiting' \subseteq Attempts /\ inFlight' \subseteq Mails /\ acked' \subseteq Mails
        /\ Handling' /\ HasThread' /\ LedgerKnown' /\ HasRow' /\ AckedIsSaved' /\ Announcing'
    BY <1>1, Ends DEF dbVars, histVars, boundVars
  <1>3. TypeOK'
    BY <1>1, <1>2 DEF TypeOK, dbVars, histVars, boundVars
  <1>4. QED
    BY <1>2, <1>3

LEMMA FaultKeeps ==
  ASSUME IInv, NEW a \in Attempts, Fault(a)
  PROVE  IInv'
  <1> USE DEF IInv
  <1>1. /\ work[a] # NONE /\ Finish(a, TRUE) /\ faults' = faults + 1
        /\ faults + expiries < MaxMishaps
        /\ UNCHANGED <<dbVars, announced, vouched, late, grouped, expiries, turns>>
    BY DEF Fault
  <1>2. faults' \in Nat /\ faults' # 0 /\ faults' + expiries' <= MaxMishaps
    BY <1>1, BoundsAssumption, MaxMishapsAssumption DEF TypeOK
  <1>3. excused' \in [Mails -> Nat]
    BY DEF Fault, TypeOK
  <1>4. /\ work' \in [Attempts -> Handlers \cup {NONE}]
        /\ waiting' \subseteq Attempts /\ inFlight' \subseteq Mails /\ acked' \subseteq Mails
        /\ Handling' /\ HasThread' /\ LedgerKnown' /\ HasRow' /\ AckedIsSaved' /\ Announcing'
    BY <1>1, <1>2, Ends DEF dbVars
  <1>5. TypeOK'
    BY <1>1, <1>2, <1>3, <1>4 DEF TypeOK, dbVars
  <1>6. QED
    BY <1>4, <1>5

LEMMA CrashKeeps ==
  ASSUME IInv, Crash
  PROVE  IInv'
  <1> USE DEF IInv
  <1>1. faults' \in Nat /\ faults' # 0 /\ faults' + expiries' <= MaxMishaps
    BY BoundsAssumption, MaxMishapsAssumption DEF Crash, TypeOK
  <1>2. excused' \in [Mails -> Nat]
    <2>1. ASSUME NEW m \in Mails PROVE Cardinality({a \in Attempts : CutOff(a, m)}) \in Nat
      BY AttemptsAssumption, FS_Subset, FS_CardinalityType
    <2>2. QED
      BY <2>1 DEF Crash, TypeOK
  <1>3. TypeOK'
    BY <1>1, <1>2 DEF Crash, TypeOK, dbVars, outVars
  <1>4. Handling' /\ HasThread' /\ LedgerKnown' /\ HasRow' /\ Announcing'
    BY <1>1 DEF Crash, Handling, HasThread, LedgerKnown, Known, Saved, HasRow, Announcing, At, dbVars
  <1>5. AckedIsSaved'
    BY DEF Crash, AckedIsSaved, Saved, dbVars, outVars
  <1>6. QED
    BY <1>3, <1>4, <1>5

\* The remaining steps touch neither the handlers nor the ledger.
LEMMA OthersKeep ==
  ASSUME IInv,
         \/ \E a \in Attempts : GiveUp(a)
         \/ \E m \in Mails : Expire(m)
         \/ \E t \in Threads, open \in BOOLEAN : SetStatus(t, open)
         \/ UNCHANGED vars
  PROVE  IInv'
  <1> USE DEF IInv
  <1>1. /\ UNCHANGED <<work, shadows, contacts, rows, ledger, announced, acked, vouched,
                       late, grouped, faults>>
        /\ waiting' \subseteq waiting /\ inFlight' \subseteq inFlight
    BY DEF GiveUp, Expire, SetStatus, vars, memVars, dbVars, outVars, histVars, boundVars
  <1>2. excused' \in [Mails -> Nat]
    BY DEF GiveUp, Expire, SetStatus, TypeOK, vars, histVars
  <1>3. /\ expiries' \in Nat /\ faults' + expiries' <= MaxMishaps
        /\ turns' \in 0..MaxTurns
    BY BoundsAssumption, MaxMishapsAssumption DEF GiveUp, Expire, SetStatus, TypeOK, vars, boundVars
  <1>4. /\ threads' \in [Threads -> Conversations \cup {NONE}]
        /\ \A other \in Threads : threads[other] # NONE => threads'[other] # NONE
    <2>1. ASSUME NEW t \in Threads, NEW open \in BOOLEAN, SetStatus(t, open)
          PROVE  /\ threads' \in [Threads -> Conversations \cup {NONE}]
                 /\ \A other \in Threads : threads[other] # NONE => threads'[other] # NONE
      <3>1. threads[t] \in Conversations
        BY <2>1 DEF SetStatus, TypeOK
      <3>2. [threads[t] EXCEPT !.open = open] \in Conversations
        BY <3>1 DEF Conversations
      <3>3. QED
        BY <2>1, <3>2, NoneAssumption DEF SetStatus, TypeOK
    <2>2. QED
      BY <2>1 DEF GiveUp, Expire, TypeOK, vars, dbVars
  <1>5. TypeOK'
    BY <1>1, <1>2, <1>3, <1>4 DEF TypeOK
  <1>6. HasThread' /\ LedgerKnown'
    BY <1>1, <1>4 DEF HasThread, LedgerKnown, Known, Saved
  <1>7. Handling' /\ HasRow' /\ AckedIsSaved' /\ Announcing'
    BY <1>1 DEF Handling, Running, HasRow, At, AckedIsSaved, Announcing, Saved
  <1>8. QED
    BY <1>5, <1>6, <1>7

----------------------------------------------------------------------------
\* The inductive invariant holds in every reachable state of the webhook and
\* processInbound, whatever fails between which two statements.
THEOREM Invariance == Spec => []IInv
  <1>1. ASSUME IInv, [Next]_vars PROVE IInv'
    <2>1. ASSUME NEW a \in Attempts, Step(a) PROVE IInv'
      BY <1>1, <2>1, FindContactKeeps, CreateShadowKeeps, CreateContactKeeps, FindThreadKeeps,
         CreateThreadKeeps, CheckDuplicateKeeps, StoreRowKeeps, StoreLedgerKeeps, PublishKeeps
         DEF Step
    <2>2. QED
      BY <1>1, <2>1, DeliverKeeps, FaultKeeps, CrashKeeps, OthersKeep DEF Next
  <1>2. QED
    BY <1>1, InitHolds, PTL DEF Spec

\* Every table, map and handler keeps its type, the two bounds included.
THEOREM TypeCorrect == Spec => []TypeOK
  BY Invariance, PTL DEF IInv

\* The webhook's 200 (email.controller.ts): a mail the provider forgets is
\* in the ledger, or was answered for by the attempt it duplicated.
THEOREM AcknowledgedIsSaved == Spec => []AckedIsSaved
  BY Invariance, PTL DEF IInv

\* createInboundMessage and broadcastInboundMessage: while nothing fails a
\* saved mail nobody handles has been announced.
THEOREM SavedReachesAgents == Spec => []SavedIsAnnounced
  <1>1. IInv => SavedIsAnnounced
    BY DEF IInv, Announcing, SavedIsAnnounced, Running, At
  <1>2. QED
    BY <1>1, Invariance, PTL

----------------------------------------------------------------------------
(***************************************************************************)
(* Replies join their thread.  Whoever handles a mail sent after what it   *)
(* refers to was stored looked its thread up afterwards (Joining).         *)
(***************************************************************************)
Joins(m) ==
    /\ RefersTo[m] \in Mails /\ Saved(RefersTo[m])
    /\ Saved(m) => ledger[m] = ledger[RefersTo[m]]
    /\ \A a \in Attempts : work[a] # NONE /\ work[a].mail = m =>
          /\ work[a].step # "newThread"
          /\ work[a].step \in {"store", "row", "ledger", "publish"} =>
                work[a].thread = ledger[RefersTo[m]]

Joining == \A m \in late \ grouped : Joins(m)

\* A row of the ledger stays as it is.
LEMMA LedgerStays ==
  ASSUME IInv, [Next]_vars
  PROVE  \A m \in Mails : Saved(m) => ledger'[m] = ledger[m]
  <1>1. ledger' = ledger \/ \E a \in Attempts : StoreLedger(a)
    BY DEF Next, Step, Deliver, GiveUp, FindContact, CreateShadow, CreateContact, FindThread,
       CreateThread, CheckDuplicate, StoreRow, Publish, Fault, Crash, Expire, SetStatus, vars,
       dbVars
  <1>2. ASSUME NEW a \in Attempts, StoreLedger(a)
        PROVE  \A m \in Mails : Saved(m) => ledger'[m] = ledger[m]
    BY <1>2 DEF StoreLedger, IInv, TypeOK, Saved
  <1>3. QED
    BY <1>1, <1>2

\* A step that leaves the handlers of a mail alone, or ends them.
LEMMA JoinsStill ==
  ASSUME IInv, NEW m \in Mails, Joins(m),
         ledger'[m] = ledger[m], ledger'[RefersTo[m]] = ledger[RefersTo[m]],
         \A b \in Attempts : work'[b] = NONE \/ work'[b] = work[b] \/ work'[b].mail # m
  PROVE  Joins(m)'
  BY DEF Joins, Saved

\* A handler takes its next step.
LEMMA JoinsOnward ==
  ASSUME IInv, NEW m \in Mails, Joins(m), NEW a \in Attempts, work[a] # NONE, NEW s \in Steps,
         NEW t \in Threads \cup {NONE},
         \/ work' = [work EXCEPT ![a].step = s] /\ t = work[a].thread
         \/ work' = [work EXCEPT ![a].step = s, ![a].thread = t],
         ledger'[RefersTo[m]] = ledger[RefersTo[m]],
         ledger'[m] # NONE => ledger'[m] = ledger[RefersTo[m]],
         work[a].mail = m =>
            s # "newThread" /\ (s \in {"store", "row", "ledger", "publish"} =>
                                  t = ledger[RefersTo[m]])
  PROVE  Joins(m)'
  <1>1. /\ work'[a] # NONE /\ work'[a].mail = work[a].mail
        /\ work'[a].step = s /\ work'[a].thread = t
        /\ \A b \in Attempts \ {a} : work'[b] = work[b]
    BY Onward DEF IInv
  <1>2. QED
    BY <1>1 DEF Joins, Saved

LEMMA JoiningStep ==
  ASSUME IInv, Joining, NEW a \in Attempts, Step(a), NEW m \in Mails, m \in late, m \notin grouped'
  PROVE  Joins(m)'
  <1>1. /\ \A n \in Mails : Saved(n) => ledger'[n] = ledger[n]
        /\ m \notin grouped
    BY LedgerStays DEF Next, Step, FindContact, CreateShadow, CreateContact, FindThread,
       CreateThread, CheckDuplicate, StoreRow, StoreLedger, Publish, histVars
  <1>2. Joins(m)
    BY <1>1 DEF Joining
  <1>3. RefersTo[m] \in Mails /\ ledger'[RefersTo[m]] = ledger[RefersTo[m]]
        /\ ledger[RefersTo[m]] # NONE
    BY <1>1, <1>2 DEF Joins, Saved
  <1>4. work[a] # NONE /\ work[a] \in Handlers
    BY DEF Step, FindContact, CreateShadow, CreateContact, FindThread, CreateThread,
       CheckDuplicate, StoreRow, StoreLedger, Publish, At, IInv, TypeOK
  <1>5. work[a].thread \in Threads \cup {NONE}
    BY <1>4 DEF Handlers
  <1>6. ASSUME NEW failed, Finish(a, failed), ledger' = ledger PROVE Joins(m)'
    BY <1>2, <1>6, JoinsStill DEF Finish, IInv, TypeOK
  <1>7. ASSUME NEW s \in Steps, work' = [work EXCEPT ![a].step = s], ledger' = ledger,
               s # "newThread",
               s \in {"store", "row", "ledger", "publish"} =>
                  work[a].step \in {"store", "row", "ledger", "publish"}
        PROVE  Joins(m)'
    <2>1. ledger'[m] # NONE => ledger'[m] = ledger[RefersTo[m]]
      BY <1>2, <1>7 DEF Joins, Saved
    <2>2. work[a].mail = m => (s \in {"store", "row", "ledger", "publish"} =>
                                 work[a].thread = ledger[RefersTo[m]])
      BY <1>2, <1>4, <1>7 DEF Joins
    <2>3. QED
      BY <1>2, <1>3, <1>4, <1>5, <1>7, <2>1, <2>2, JoinsOnward
  <1>8. CASE FindContact(a) \/ CreateContact(a)
    <2>1. PICK s \in {"thread", "shadow"} : work' = [work EXCEPT ![a].step = s] /\ ledger' = ledger
      BY <1>8 DEF FindContact, CreateContact, Goto, dbVars
    <2>2. QED
      BY <1>7, <2>1 DEF Steps
  <1>9. CASE CreateShadow(a)
    <2>1. ledger' = ledger
      BY <1>9 DEF CreateShadow
    <2>2. Finish(a, TRUE) \/ work' = [work EXCEPT ![a].step = "contactRow"]
      BY <1>9 DEF CreateShadow, Goto
    <2>3. QED
      BY <1>6, <1>7, <2>1, <2>2 DEF Steps
  <1>10. CASE FindThread(a)
    <2>1. ledger' = ledger
      BY <1>10 DEF FindThread
    <2>2. CASE work[a].mail # m
      <3>1. \A b \in Attempts : work'[b] = work[b] \/ work'[b].mail # m
        <4>1. \E s, t : \/ work' = [work EXCEPT ![a].step = s]
                      \/ work' = [work EXCEPT ![a].step = s, ![a].thread = t]
          BY <1>10 DEF FindThread, Goto, Steps
        <4>2. QED
          BY <1>4, <2>2, <4>1 DEF IInv, TypeOK, Handlers
      <3>2. QED
        BY <1>2, <2>1, <3>1, JoinsStill
    <2>3. CASE work[a].mail = m
      <3>1. /\ ~(Candidates(m, {}) = {} /\ Goto(a, "newThread"))
            /\ \A t \in Candidates(m, {}) : t = ledger[RefersTo[m]]
            /\ Candidates(m, {}) = {ledger[RefersTo[m]]}
        <4>1. HasHints(m)
          BY <1>3, NoneAssumption DEF HasHints
        <4>2. Candidates(m, {}) = {ledger[RefersTo[m]]}
          BY <1>3, <4>1 DEF Candidates, ByReference, Referred, Saved
        <4>3. QED
          BY <4>2
      <3>2. \E t \in Candidates(m, {}) : work' = [work EXCEPT ![a].step = "store", ![a].thread = t]
        <4>1. PICK broken \in SUBSET {"hints", "subject"} :
                  /\ grouped' = IF broken = {} THEN grouped ELSE grouped \cup {m}
                  /\ \/ Candidates(m, broken) = {}
                     \/ \E t \in Candidates(m, broken) :
                           work' = [work EXCEPT ![a].step = "store", ![a].thread = t]
          BY <1>10, <2>3 DEF FindThread
        <4>2. broken = {}
          BY <4>1
        <4>3. QED
          BY <3>1, <4>1, <4>2
      <3>3. work' = [work EXCEPT ![a].step = "store", ![a].thread = ledger[RefersTo[m]]]
        BY <3>1, <3>2
      <3>4. ledger[RefersTo[m]] \in Threads /\ "store" \in Steps
        BY <1>3 DEF IInv, TypeOK, Steps
      <3>5. ledger'[m] # NONE => ledger'[m] = ledger[RefersTo[m]]
        BY <1>2, <2>1 DEF Joins, Saved
      <3>6. QED
        BY <1>2, <1>3, <1>4, <3>3, <3>4, <3>5, JoinsOnward
    <2>4. QED
      BY <2>2, <2>3
  <1>11. CASE CreateThread(a)
    <2>1. work[a].mail # m
      BY <1>2, <1>11 DEF CreateThread, At, Joins
    <2>2. ledger' = ledger /\ \E t : work' = [work EXCEPT ![a].step = "store", ![a].thread = t]
      BY <1>11 DEF CreateThread
    <2>3. \A b \in Attempts : work'[b] = work[b] \/ work'[b].mail # m
      BY <1>4, <2>1, <2>2 DEF IInv, TypeOK, Handlers
    <2>4. QED
      BY <1>2, <2>2, <2>3, JoinsStill
  <1>12. CASE CheckDuplicate(a)
    <2>1. ledger' = ledger /\ work[a].step = "store"
      BY <1>12 DEF CheckDuplicate, dbVars, At
    <2>2. Finish(a, FALSE) \/ work' = [work EXCEPT ![a].step = "row"]
      BY <1>12 DEF CheckDuplicate, Goto
    <2>3. QED
      BY <1>6, <1>7, <2>1, <2>2 DEF Steps
  <1>13. CASE StoreRow(a)
    <2>1. ledger' = ledger /\ work[a].step = "row" /\ work' = [work EXCEPT ![a].step = "ledger"]
      BY <1>13 DEF StoreRow, At, Goto
    <2>2. QED
      BY <1>7, <2>1 DEF Steps
  <1>14. CASE StoreLedger(a)
    <2>1. CASE ledger' = ledger /\ Finish(a, FALSE)
      BY <1>6, <2>1
    <2>2. CASE ledger' = [ledger EXCEPT ![work[a].mail] = work[a].thread]
               /\ work' = [work EXCEPT ![a].step = "publish"]
      <3>1. work[a].step = "ledger"
        BY <1>14 DEF StoreLedger, At
      <3>2. work[a].mail = m => work[a].thread = ledger[RefersTo[m]]
        BY <1>2, <1>4, <3>1 DEF Joins
      <3>3. ledger'[m] # NONE => ledger'[m] = ledger[RefersTo[m]]
        BY <1>2, <2>2, <3>2 DEF Joins, Saved, IInv, TypeOK
      <3>4. "publish" \in Steps /\ "publish" # "newThread"
        BY DEF Steps
      <3>5. QED
        BY <1>2, <1>3, <1>4, <1>5, <2>2, <3>2, <3>3, <3>4, JoinsOnward
    <2>3. QED
      BY <1>14, <2>1, <2>2 DEF StoreLedger, ThreadOf, Goto
  <1>15. CASE Publish(a)
    BY <1>6, <1>15 DEF Publish, dbVars
  <1>16. QED
    BY <1>8, <1>9, <1>10, <1>11, <1>12, <1>13, <1>14, <1>15 DEF Step

LEMMA JoiningKept ==
  ASSUME IInv, Joining, [Next]_vars
  PROVE  Joining'
  <1> SUFFICES ASSUME NEW m \in late' \ grouped' PROVE Joins(m)'
    BY DEF Joining
  <1>1. \A n \in Mails : Saved(n) => ledger'[n] = ledger[n]
    BY LedgerStays
  <1>2. ASSUME NEW a \in Attempts, Step(a) PROVE Joins(m)'
    <2>1. m \in late /\ m \in Mails
      BY <1>2 DEF Step, FindContact, CreateShadow, CreateContact, FindThread, CreateThread,
         CheckDuplicate, StoreRow, StoreLedger, Publish, histVars, IInv, TypeOK
    <2>2. QED
      BY <1>2, <2>1, JoiningStep
  <1>3. ASSUME NEW a \in Attempts, NEW n \in Mails, Deliver(a, n) PROVE Joins(m)'
    <2>1. m \notin grouped /\ ledger' = ledger
      BY <1>3 DEF Deliver, dbVars
    <2>2. work' = work \/ /\ work' = [work EXCEPT ![a] = [mail |-> n, step |-> "contact", thread |-> NONE]]
                          /\ work[a] = NONE
      BY <1>3 DEF Deliver, memVars
    <2>3. CASE m \in late
      <3>1. Joins(m) /\ m \in Mails
        BY <2>1, <2>3 DEF Joining, IInv, TypeOK
      <3>2. QED
        BY <2>1, <2>2, <3>1 DEF Joins, Saved, IInv, TypeOK
    <2>4. CASE m \notin late
      <3>1. m = n /\ ~Running(m) /\ ~Saved(m) /\ RefersTo[m] \in Mails /\ Saved(RefersTo[m])
        BY <1>3, <2>4 DEF Deliver, memVars
      <3>2. QED
        BY <2>1, <2>2, <3>1 DEF Joins, Saved, Running, IInv, TypeOK
    <2>5. QED
      BY <2>3, <2>4
  <1>4. ASSUME ledger' = ledger, late' = late, grouped' = grouped,
               \A b \in Attempts : work'[b] = NONE \/ work'[b] = work[b]
        PROVE  Joins(m)'
    <2>1. Joins(m) /\ m \in Mails
      BY <1>4 DEF Joining, IInv, TypeOK
    <2>2. QED
      BY <1>4, <2>1, JoinsStill
  <1>5. ASSUME NEW a \in Attempts, Fault(a) PROVE Joins(m)'
    BY <1>4, <1>5 DEF Fault, Finish, dbVars, IInv, TypeOK
  <1>6. CASE Crash
    BY <1>4, <1>6 DEF Crash, dbVars
  <1>7. CASE \/ \E a \in Attempts : GiveUp(a)
             \/ \E n \in Mails : Expire(n)
             \/ \E t \in Threads, open \in BOOLEAN : SetStatus(t, open)
             \/ UNCHANGED vars
    BY <1>4, <1>7 DEF GiveUp, Expire, SetStatus, vars, memVars, dbVars, histVars
  <1>8. QED
    BY <1>2, <1>3, <1>5, <1>6, <1>7 DEF Next

\* findOrCreateConversation: a mail that refers to one stored before it was
\* sent joins that one's conversation, unless a lookup failed.
THEOREM RepliesJoinThreads == Spec => []RepliesJoin
  <1>1. Init => Joining
    BY DEF Init, Joining
  <1>2. Joining => RepliesJoin
    BY DEF Joining, Joins, RepliesJoin
  <1>3. IInv /\ Joining /\ [Next]_vars => Joining'
    BY JoiningKept
  <1>4. QED
    BY <1>1, <1>2, <1>3, Invariance, PTL DEF Spec

----------------------------------------------------------------------------
(***************************************************************************)
(* No mail is stored twice.  While a mail is not in the ledger, each of    *)
(* its handlers may yet write a row, and the map or an excuse answers for  *)
(* each of them; once it is, only those past the check may.                *)
(***************************************************************************)
Before(m) == {a \in Attempts : work[a] # NONE /\ work[a].mail = m /\ work[a].step # "ledger"}
AtRow(m)  == {a \in Attempts : work[a] # NONE /\ work[a].mail = m /\ work[a].step = "row"}
One(b) == IF b THEN 1 ELSE 0

Accounted(m) ==
    IF Saved(m) THEN rows[m] + Cardinality(AtRow(m)) <= 1 + excused[m]
    ELSE rows[m] + Cardinality(Before(m)) <= excused[m] + One(m \in inFlight)

Accounts == \A m \in Mails : Accounted(m)

LEMMA Counts ==
  /\ \A m : Cardinality(Before(m)) \in Nat /\ Cardinality(AtRow(m)) \in Nat
            /\ Cardinality(AtRow(m)) <= Cardinality(Before(m))
  /\ \A m : Cardinality(Before(m))' \in Nat /\ Cardinality(AtRow(m))' \in Nat
  <1>1. ASSUME NEW m
        PROVE  /\ Cardinality(Before(m)) \in Nat /\ Cardinality(AtRow(m)) \in Nat
               /\ Cardinality(AtRow(m)) <= Cardinality(Before(m))
    <2>1. IsFiniteSet(Before(m))
      BY AttemptsAssumption, FS_Subset DEF Before
    <2>2. AtRow(m) \in SUBSET Before(m)
      BY DEF Before, AtRow
    <2>3. QED
      BY <2>1, <2>2, FS_Subset, FS_CardinalityType
  <1>2. ASSUME NEW m
        PROVE  Cardinality(Before(m))' \in Nat /\ Cardinality(AtRow(m))' \in Nat
    <2>1. Before(m)' \in SUBSET Attempts /\ AtRow(m)' \in SUBSET Attempts
      BY DEF Before, AtRow
    <2>2. QED
      BY <2>1, AttemptsAssumption, FS_Subset, FS_CardinalityType
  <1>3. QED
    BY <1>1, <1>2

\* One element more or less.
LEMMA Shifted ==
  ASSUME NEW S \in SUBSET Attempts, NEW T \in SUBSET Attempts, NEW a, S \ {a} = T \ {a}
  PROVE  /\ Cardinality(S) \in Nat /\ Cardinality(T) \in Nat
         /\ Cardinality(T) + One(a \in S) = Cardinality(S) + One(a \in T)
  <1>1. IsFiniteSet(S) /\ IsFiniteSet(T) /\ Cardinality(S) \in Nat /\ Cardinality(T) \in Nat
    BY AttemptsAssumption, FS_Subset, FS_CardinalityType
  <1>2. Cardinality(S \ {a}) = Cardinality(S) - One(a \in S)
    <2>1. Cardinality(S \ {a}) = IF a \in S THEN Cardinality(S) - 1 ELSE Cardinality(S)
      BY <1>1, FS_RemoveElement
    <2>2. QED
      BY <1>1, <2>1 DEF One
  <1>3. Cardinality(T \ {a}) = Cardinality(T) - One(a \in T)
    <2>1. Cardinality(T \ {a}) = IF a \in T THEN Cardinality(T) - 1 ELSE Cardinality(T)
      BY <1>1, FS_RemoveElement
    <2>2. QED
      BY <1>1, <2>1 DEF One
  <1>4. One(a \in S) \in Nat /\ One(a \in T) \in Nat
    BY DEF One
  <1>5. Cardinality(S) - One(a \in S) = Cardinality(T) - One(a \in T)
    BY <1>2, <1>3
  <1>6. QED
    BY <1>1, <1>4, <1>5

\* What a step of handler a alone does to the counts.
LEMMA HandlerShift ==
  ASSUME NEW a, \A b \in Attempts \ {a} : work'[b] = work[b], NEW m
  PROVE  /\ Cardinality(Before(m))' + One(a \in Before(m))
              = Cardinality(Before(m)) + One(a \in Before(m))'
         /\ Cardinality(AtRow(m))' + One(a \in AtRow(m))
              = Cardinality(AtRow(m)) + One(a \in AtRow(m))'
  <1>1. Before(m) \in SUBSET Attempts /\ Before(m)' \in SUBSET Attempts
        /\ Before(m) \ {a} = Before(m)' \ {a}
    BY DEF Before
  <1>2. AtRow(m) \in SUBSET Attempts /\ AtRow(m)' \in SUBSET Attempts
        /\ AtRow(m) \ {a} = AtRow(m)' \ {a}
    BY DEF AtRow
  <1> DEFINE B == Before(m)
             C == Before(m)'
             R == AtRow(m)
             Q == AtRow(m)'
  <1>3. Cardinality(C) + One(a \in B) = Cardinality(B) + One(a \in C)
    BY <1>1, Shifted
  <1>4. Cardinality(Q) + One(a \in R) = Cardinality(R) + One(a \in Q)
    BY <1>2, Shifted
  <1>5. QED
    BY <1>3, <1>4 DEF One

\* The arithmetic of a step: b and r say whether handler a is counted.
LEMMA AccountsStep ==
  ASSUME IInv, Accounts, NEW a, \A b \in Attempts \ {a} : work'[b] = work[b],
         NEW m \in Mails, rows'[m] \in Nat, excused'[m] \in Nat,
         Saved(m) => Saved(m)',
         \* saved before
         Saved(m) => rows'[m] + One(a \in AtRow(m))' + excused[m]
                       <= rows[m] + One(a \in AtRow(m)) + excused'[m],
         \* saved by this step
         ~Saved(m) /\ Saved(m)' => rows'[m] = rows[m] /\ excused'[m] = excused[m]
                                   /\ One(a \in Before(m)) = 0 /\ One(a \in AtRow(m))' = 0,
         \* not saved
         ~Saved(m)' => rows'[m] + One(a \in Before(m))' + excused[m] + One(m \in inFlight)
                       <= rows[m] + One(a \in Before(m)) + excused'[m] + One(m \in inFlight)'
  PROVE  Accounted(m)'
  <1> DEFINE B == Cardinality(Before(m))   Bp == Cardinality(Before(m))'
             R == Cardinality(AtRow(m))    Rp == Cardinality(AtRow(m))'
             b == One(a \in Before(m))     bp == One(a \in Before(m))'
             r == One(a \in AtRow(m))      rp == One(a \in AtRow(m))'
             f == One(m \in inFlight)      fp == One(m \in inFlight)'
             x == rows[m]  xp == rows'[m]  e == excused[m]  ep == excused'[m]
  <1>1. B \in Nat /\ Bp \in Nat /\ R \in Nat /\ Rp \in Nat /\ R <= B
    BY Counts
  <1>2. Bp + b = B + bp /\ Rp + r = R + rp
    BY HandlerShift
  <1>3. b \in {0, 1} /\ bp \in {0, 1} /\ r \in {0, 1} /\ rp \in {0, 1} /\ f \in {0, 1} /\ fp \in {0, 1}
    BY DEF One
  <1>4. x \in Nat /\ xp \in Nat /\ e \in Nat /\ ep \in Nat
    BY DEF IInv, TypeOK
  <1>5. (Saved(m) => x + R <= 1 + e) /\ (~Saved(m) => x + B <= e + f)
    BY DEF Accounts, Accounted
  <1>6. r <= b
    BY DEF One, AtRow, Before
  <1>7. /\ Saved(m) => xp + rp + e <= x + r + ep
        /\ ~Saved(m) /\ Saved(m)' => xp = x /\ ep = e /\ b = 0 /\ rp = 0
        /\ ~Saved(m)' => xp + bp + e + f <= x + b + ep + fp
        /\ Saved(m) => Saved(m)'
    OBVIOUS
  <1>8. Saved(m)' => xp + Rp <= 1 + ep
    <2> HIDE DEF B, Bp, R, Rp, b, bp, r, rp, f, fp, x, xp, e, ep
    <2>1. CASE Saved(m)
      BY <1>1, <1>2, <1>3, <1>4, <1>5, <1>7, <2>1
    <2>2. CASE ~Saved(m)
      BY <1>1, <1>2, <1>3, <1>4, <1>5, <1>6, <1>7, <2>2
    <2>3. QED
      BY <2>1, <2>2
  <1>9. ~Saved(m)' => xp + Bp <= ep + fp
    <2> HIDE DEF B, Bp, R, Rp, b, bp, r, rp, f, fp, x, xp, e, ep
    <2>1. QED
      BY <1>1, <1>2, <1>3, <1>4, <1>5, <1>7
  <1>10. QED
    BY <1>8, <1>9 DEF Accounted

\* A handler goes on without writing.
LEMMA AccountsOnward ==
  ASSUME IInv, Accounts, NEW a \in Attempts, work[a] # NONE, NEW s \in Steps,
         NEW t \in Threads \cup {NONE},
         \/ work' = [work EXCEPT ![a].step = s] /\ t = work[a].thread
         \/ work' = [work EXCEPT ![a].step = s, ![a].thread = t],
         work[a].step # "ledger", s # "ledger", work[a].step # "row",
         s = "row" => ~Saved(work[a].mail),
         rows' = rows, excused' = excused, ledger' = ledger, inFlight' = inFlight
  PROVE  Accounts'
  <1> SUFFICES ASSUME NEW m \in Mails PROVE Accounted(m)'
    BY DEF Accounts
  <1>1. /\ work'[a] # NONE /\ work'[a].mail = work[a].mail
        /\ work'[a].step = s
        /\ \A b \in Attempts \ {a} : work'[b] = work[b]
    BY Onward DEF IInv
  <1>2. (a \in Before(m))' <=> a \in Before(m)
    BY <1>1 DEF Before
  <1>3. a \notin AtRow(m) /\ ((a \in AtRow(m))' => ~Saved(m))
    BY <1>1 DEF AtRow
  <1>4. /\ One(a \in Before(m))' = One(a \in Before(m))
        /\ One(m \in inFlight)' = One(m \in inFlight)
        /\ Saved(m) => One(a \in AtRow(m)) = 0 /\ One(a \in AtRow(m))' = 0
        /\ One(a \in Before(m)) \in Nat /\ One(m \in inFlight) \in Nat
    BY <1>2, <1>3 DEF One
  <1>5. rows'[m] = rows[m] /\ excused'[m] = excused[m] /\ (Saved(m)' <=> Saved(m))
        /\ rows[m] \in Nat /\ excused[m] \in Nat
    BY DEF Saved, IInv, TypeOK
  <1>6. QED
    BY <1>1, <1>4, <1>5, AccountsStep

\* A handler ends.
LEMMA AccountsEnd ==
  ASSUME IInv, Accounts, NEW a \in Attempts, work[a] # NONE, NEW failed, Finish(a, failed),
         rows' = rows, ledger' = ledger, excused' \in [Mails -> Nat],
         \A m \in Mails : excused'[m] >= excused[m],
         work[a].step = "ledger" /\ ~Saved(work[a].mail) =>
            excused'[work[a].mail] >= excused[work[a].mail] + 1
  PROVE  Accounts'
  <1> SUFFICES ASSUME NEW m \in Mails PROVE Accounted(m)'
    BY DEF Accounts
  <1>1. /\ work'[a] = NONE
        /\ \A b \in Attempts \ {a} : work'[b] = work[b]
        /\ inFlight' = inFlight \ {work[a].mail}
    BY DEF Finish, Settle, IInv, TypeOK
  <1>2. (a \notin Before(m))' /\ (a \notin AtRow(m))'
    BY <1>1 DEF Before, AtRow
  <1>3. One(a \in Before(m))' = 0 /\ One(a \in AtRow(m))' = 0 /\ One(a \in AtRow(m)) \in Nat
        /\ One(a \in Before(m)) \in {0, 1} /\ One(m \in inFlight) \in {0, 1}
        /\ One(m \in inFlight)' \in {0, 1}
    BY <1>2 DEF One
  <1>4. rows'[m] = rows[m] /\ (Saved(m)' <=> Saved(m))
        /\ rows[m] \in Nat /\ excused[m] \in Nat /\ excused'[m] \in Nat /\ excused'[m] >= excused[m]
    BY DEF Saved, IInv, TypeOK
  <1>5. ~Saved(m) => excused[m] + One(m \in inFlight)
                       <= One(a \in Before(m)) + excused'[m] + One(m \in inFlight)'
    <2>1. CASE work[a].mail # m
      <3>1. (m \in inFlight)' <=> m \in inFlight
        BY <1>1, <2>1
      <3>2. One(m \in inFlight)' = One(m \in inFlight)
        BY <3>1 DEF One
      <3>3. QED
        BY <1>3, <1>4, <3>2
    <2>2. CASE work[a].mail = m /\ work[a].step # "ledger"
      <3>1. a \in Before(m)
        BY <2>2 DEF Before
      <3>2. One(a \in Before(m)) = 1
        BY <3>1 DEF One
      <3>3. QED
        BY <1>3, <1>4, <3>2
    <2>3. CASE work[a].mail = m /\ work[a].step = "ledger"
      <3>1. ~Saved(m) => excused'[m] >= excused[m] + 1
        BY <2>3
      <3>2. QED
        BY <1>3, <1>4, <3>1
    <2>4. QED
      BY <2>1, <2>2, <2>3
  <1>6. QED
    BY <1>1, <1>3, <1>4, <1>5, AccountsStep

LEMMA AccountsSteps ==
  ASSUME IInv, Accounts, NEW a \in Attempts, Step(a)
  PROVE  Accounts'
  <1>1. work[a] # NONE /\ work[a] \in Handlers /\ work[a].mail \in Mails
        /\ work[a].thread \in Threads \cup {NONE} /\ work[a].step \in Steps
    BY DEF Step, FindContact, CreateShadow, CreateContact, FindThread, CreateThread,
       CheckDuplicate, StoreRow, StoreLedger, Publish, At, IInv, TypeOK, Handlers
  <1>2. excused' = excused /\ excused \in [Mails -> Nat]
    BY DEF Step, FindContact, CreateShadow, CreateContact, FindThread, CreateThread,
       CheckDuplicate, StoreRow, StoreLedger, Publish, histVars, IInv, TypeOK
  <1>3. ASSUME NEW failed, Finish(a, failed), rows' = rows, ledger' = ledger,
               work[a].step = "ledger" => Saved(work[a].mail)
        PROVE  Accounts'
    <2>1. \A m \in Mails : excused'[m] >= excused[m]
      BY <1>2
    <2>2. QED
      BY <1>1, <1>2, <1>3, <2>1, AccountsEnd
  <1>4. ASSUME NEW s \in Steps \ {"ledger"}, work' = [work EXCEPT ![a].step = s],
               work[a].step \notin {"row", "ledger"}, s = "row" => ~Saved(work[a].mail),
               rows' = rows, ledger' = ledger, inFlight' = inFlight
        PROVE  Accounts'
    BY <1>1, <1>2, <1>4, AccountsOnward
  <1>5. CASE FindContact(a) \/ CreateContact(a)
    <2>1. /\ rows' = rows /\ ledger' = ledger /\ inFlight' = inFlight
          /\ work[a].step \in {"contact", "contactRow"}
          /\ \E s \in {"thread", "shadow"} : work' = [work EXCEPT ![a].step = s]
      BY <1>5 DEF FindContact, CreateContact, Goto, dbVars, At
    <2>2. QED
      BY <1>4, <2>1 DEF Steps
  <1>6. CASE CreateShadow(a)
    <2>1. rows' = rows /\ ledger' = ledger /\ work[a].step = "shadow"
      BY <1>6 DEF CreateShadow, At
    <2>2. \/ Finish(a, TRUE)
          \/ work' = [work EXCEPT ![a].step = "contactRow"] /\ inFlight' = inFlight
      BY <1>6 DEF CreateShadow, Goto
    <2>3. QED
      BY <1>3, <1>4, <2>1, <2>2 DEF Steps
  <1>7. CASE FindThread(a)
    <2>1. rows' = rows /\ ledger' = ledger /\ work[a].step = "thread" /\ inFlight' = inFlight
      BY <1>7 DEF FindThread, At, Goto
    <2>2. \/ work' = [work EXCEPT ![a].step = "newThread"]
          \/ \E t \in Threads : work' = [work EXCEPT ![a].step = "store", ![a].thread = t]
      BY <1>1, <1>7, CandidatesExist DEF FindThread, Goto
    <2>3. QED
      BY <1>1, <1>2, <1>4, <2>1, <2>2, AccountsOnward DEF Steps
  <1>8. CASE CreateThread(a)
    <2>1. rows' = rows /\ ledger' = ledger /\ work[a].step = "newThread" /\ inFlight' = inFlight
          /\ \E t \in Threads : work' = [work EXCEPT ![a].step = "store", ![a].thread = t]
      BY <1>8 DEF CreateThread, At
    <2>2. QED
      BY <1>1, <1>2, <2>1, AccountsOnward DEF Steps
  <1>9. CASE CheckDuplicate(a)
    <2>1. rows' = rows /\ ledger' = ledger /\ work[a].step = "store"
      BY <1>9 DEF CheckDuplicate, At, dbVars
    <2>2. \/ Finish(a, FALSE)
          \/ work' = [work EXCEPT ![a].step = "row"] /\ inFlight' = inFlight /\ ~Saved(work[a].mail)
      BY <1>9 DEF CheckDuplicate, Goto
    <2>3. QED
      BY <1>3, <1>4, <2>1, <2>2 DEF Steps
  <1>10. CASE Publish(a)
    BY <1>3, <1>10 DEF Publish, At, dbVars
  <1>11. CASE StoreRow(a)
    <2> SUFFICES ASSUME NEW m \in Mails PROVE Accounted(m)'
      BY DEF Accounts
    <2>1. /\ work[a].step = "row" /\ work' = [work EXCEPT ![a].step = "ledger"]
          /\ rows' = [rows EXCEPT ![work[a].mail] = @ + 1] /\ ledger' = ledger
          /\ inFlight' = inFlight
      BY <1>11 DEF StoreRow, At, Goto
    <2>2. /\ work'[a] # NONE /\ work'[a].mail = work[a].mail
          /\ work'[a].step = "ledger"
          /\ \A b \in Attempts \ {a} : work'[b] = work[b]
      <3>1. TypeOK /\ "ledger" \in Steps
        BY DEF IInv, Steps
      <3>2. QED
        BY <1>1, <2>1, <3>1, Onward
    <2>3. (a \notin Before(m))' /\ (a \notin AtRow(m))'
          /\ (a \in Before(m) <=> work[a].mail = m) /\ (a \in AtRow(m) <=> work[a].mail = m)
      BY <1>1, <2>1, <2>2 DEF Before, AtRow
    <2>4. /\ One(a \in Before(m))' = 0 /\ One(a \in AtRow(m))' = 0
          /\ One(a \in Before(m)) = One(work[a].mail = m)
          /\ One(a \in AtRow(m)) = One(work[a].mail = m)
          /\ One(m \in inFlight)' = One(m \in inFlight) /\ One(m \in inFlight) \in Nat
      BY <2>1, <2>3 DEF One
    <2>5. rows \in [Mails -> Nat] /\ (Saved(m)' <=> Saved(m))
      BY <2>1 DEF Saved, IInv, TypeOK
    <2>6. rows'[m] = rows[m] + One(work[a].mail = m) /\ rows'[m] \in Nat /\ rows[m] \in Nat
          /\ excused'[m] = excused[m] /\ excused[m] \in Nat
          /\ One(work[a].mail = m) \in Nat
      BY <1>2, <2>1, <2>5 DEF One
    <2>7. QED
      BY <2>2, <2>4, <2>5, <2>6, AccountsStep
  <1>12. CASE StoreLedger(a)
    <2>1. CASE Saved(work[a].mail) /\ ledger' = ledger /\ Finish(a, FALSE)
      BY <1>3, <1>12, <2>1 DEF StoreLedger
    <2>2. CASE ~Saved(work[a].mail) /\ ledger' = [ledger EXCEPT ![work[a].mail] = work[a].thread]
               /\ work' = [work EXCEPT ![a].step = "publish"] /\ inFlight' = inFlight
      <3> SUFFICES ASSUME NEW m \in Mails PROVE Accounted(m)'
        BY DEF Accounts
      <3>1. work[a].step = "ledger" /\ rows' = rows
        BY <1>12 DEF StoreLedger, At
      <3>2. work[a].thread # NONE
        <4>1. Known(work[a].thread)
          BY <1>1, <3>1 DEF IInv, HasThread
        <4>2. QED
          BY <4>1, NoneAssumption, BoundsAssumption DEF Known, Threads
      <3>3. /\ work'[a] # NONE /\ work'[a].mail = work[a].mail
            /\ work'[a].step = "publish"
            /\ \A b \in Attempts \ {a} : work'[b] = work[b]
        <4>1. TypeOK /\ "publish" \in Steps
          BY DEF IInv, Steps
        <4>2. QED
          BY <1>1, <2>2, <4>1, Onward
      <3>4. a \notin Before(m) /\ a \notin AtRow(m) /\ (a \notin AtRow(m))'
            /\ ((a \in Before(m))' => m = work[a].mail)
        BY <3>1, <3>3 DEF Before, AtRow
      <3>5. /\ m = work[a].mail => Saved(m)' /\ ~Saved(m)
            /\ m # work[a].mail => (Saved(m)' <=> Saved(m))
        BY <1>1, <2>2, <3>2 DEF Saved, IInv, TypeOK
      <3>6. /\ One(a \in Before(m)) = 0 /\ One(a \in AtRow(m)) = 0 /\ One(a \in AtRow(m))' = 0
            /\ m # work[a].mail => One(a \in Before(m))' = 0
            /\ One(m \in inFlight)' = One(m \in inFlight) /\ One(m \in inFlight) \in Nat
        BY <2>2, <3>4 DEF One
      <3>7. rows'[m] = rows[m] /\ rows[m] \in Nat /\ excused'[m] = excused[m] /\ excused[m] \in Nat
        BY <1>2, <3>1 DEF IInv, TypeOK
      <3>8. QED
        BY <3>3, <3>5, <3>6, <3>7, AccountsStep
    <2>3. QED
      BY <1>12, <2>1, <2>2 DEF StoreLedger, ThreadOf, Goto
  <1>13. QED
    BY <1>5, <1>6, <1>7, <1>8, <1>9, <1>10, <1>11, <1>12 DEF Step

LEMMA AccountsKept ==
  ASSUME IInv, Accounts, [Next]_vars
  PROVE  Accounts'
  <1>1. rows \in [Mails -> Nat] /\ excused \in [Mails -> Nat]
    BY DEF IInv, TypeOK
  <1>2. ASSUME NEW a \in Attempts, NEW n \in Mails, Deliver(a, n) PROVE Accounts'
    <2> SUFFICES ASSUME NEW m \in Mails PROVE Accounted(m)'
      BY DEF Accounts
    <2>1. rows' = rows /\ excused' = excused /\ ledger' = ledger
      BY <1>2 DEF Deliver, dbVars
    <2>2. CASE UNCHANGED <<work, inFlight>>
      BY <2>1, <2>2 DEF Accounts, Accounted, Saved, Before, AtRow, One
    <2>3. CASE /\ ~BeingHandled(n) /\ work[a] = NONE /\ inFlight' = inFlight \cup {n}
               /\ work' = [work EXCEPT ![a] = [mail |-> n, step |-> "contact", thread |-> NONE]]
      <3>1. /\ work'[a] = [mail |-> n, step |-> "contact", thread |-> NONE]
            /\ \A b \in Attempts \ {a} : work'[b] = work[b]
        BY <2>3 DEF IInv, TypeOK
      <3>2. a \notin Before(m) /\ a \notin AtRow(m) /\ (a \notin AtRow(m))'
            /\ ((a \in Before(m))' => m = n)
        BY <2>3, <3>1 DEF Before, AtRow
      <3>3. (n \notin inFlight) /\ (n \in inFlight)' /\ (m # n => ((m \in inFlight)' <=> m \in inFlight))
        BY <2>3 DEF BeingHandled
      <3>4. /\ One(a \in Before(m)) = 0 /\ One(a \in AtRow(m)) = 0 /\ One(a \in AtRow(m))' = 0
            /\ m # n => One(a \in Before(m))' = 0 /\ One(m \in inFlight)' = One(m \in inFlight)
            /\ m = n => One(m \in inFlight) = 0 /\ One(m \in inFlight)' = 1
            /\ One(a \in Before(m))' \in {0, 1} /\ One(m \in inFlight) \in Nat
        BY <3>2, <3>3 DEF One
      <3>5. rows'[m] = rows[m] /\ rows[m] \in Nat /\ excused'[m] = excused[m] /\ excused[m] \in Nat
            /\ (Saved(m)' <=> Saved(m))
        BY <1>1, <2>1 DEF Saved
      <3>6. QED
        BY <3>1, <3>4, <3>5, AccountsStep
    <2>4. QED
      BY <1>2, <2>2, <2>3 DEF Deliver, memVars
  <1>3. ASSUME NEW a \in Attempts, Step(a) PROVE Accounts'
    BY <1>3, AccountsSteps
  <1>4. ASSUME NEW a \in Attempts, Fault(a) PROVE Accounts'
    <2>1. /\ work[a] # NONE /\ Finish(a, TRUE) /\ rows' = rows /\ ledger' = ledger
          /\ excused' = [m \in Mails |-> IF CutOff(a, m) THEN excused[m] + 1 ELSE excused[m]]
          /\ work[a].mail \in Mails
      BY <1>4 DEF Fault, dbVars, IInv, TypeOK, Handlers
    <2>2. excused' \in [Mails -> Nat] /\ \A m \in Mails : excused'[m] >= excused[m]
      BY <1>1, <2>1
    <2>3. work[a].step = "ledger" => excused'[work[a].mail] = excused[work[a].mail] + 1
      BY <2>1 DEF CutOff, At
    <2>4. work[a].step = "ledger" => excused'[work[a].mail] >= excused[work[a].mail] + 1
      BY <1>1, <2>1, <2>3
    <2>5. QED
      BY <2>1, <2>2, <2>4, AccountsEnd
  <1>5. CASE Crash
    <2> SUFFICES ASSUME NEW m \in Mails PROVE Accounted(m)'
      BY DEF Accounts
    <2> DEFINE Cut == {a \in Attempts : CutOff(a, m)}
    <2>1. /\ rows' = rows /\ ledger' = ledger /\ inFlight' = {}
          /\ excused'[m] = excused[m] + Cardinality(Cut)
          /\ Before(m)' = {} /\ AtRow(m)' = {}
      BY <1>5 DEF Crash, dbVars, Before, AtRow
    <2>2. IsFiniteSet(Cut) /\ Cardinality(Cut) \in Nat /\ IsFiniteSet(Before(m))
          /\ Cardinality(Before(m)) \in Nat /\ Cardinality(AtRow(m)) \in Nat
      BY AttemptsAssumption, FS_Subset, FS_CardinalityType, Counts DEF Before
    <2>3. m \in inFlight => Cardinality(Cut) + Cardinality(Before(m)) >= 1
      <3>1. m \in inFlight => Cut # {} \/ Before(m) # {}
        BY DEF IInv, Handling, Running, CutOff, At, Before
      <3>2. (Cardinality(Cut) = 0 => Cut = {}) /\ (Cardinality(Before(m)) = 0 => Before(m) = {})
        BY <2>2, FS_EmptySet
      <3> HIDE DEF Cut
      <3>3. QED
        BY <2>2, <3>1, <3>2
    <2>4. Cardinality(Before(m))' = 0 /\ Cardinality(AtRow(m))' = 0 /\ One(m \in inFlight)' = 0
          /\ (m \in inFlight => One(m \in inFlight) = 1)
          /\ (m \notin inFlight => One(m \in inFlight) = 0)
      BY <2>1, FS_EmptySet DEF One
    <2>5. rows'[m] = rows[m] /\ rows[m] \in Nat /\ excused[m] \in Nat /\ (Saved(m)' <=> Saved(m))
      BY <1>1, <2>1 DEF Saved
    <2>6. Accounted(m)
      BY DEF Accounts
    <2> HIDE DEF Cut
    <2>7. Saved(m) => rows[m] <= 1 + excused'[m]
      BY <2>1, <2>2, <2>5, <2>6 DEF Accounted
    <2>8. ~Saved(m) => rows[m] <= excused'[m]
      BY <2>1, <2>2, <2>3, <2>4, <2>5, <2>6 DEF Accounted
    <2>9. QED
      BY <2>1, <2>2, <2>4, <2>5, <2>7, <2>8 DEF Accounted
  <1>6. ASSUME NEW n \in Mails, Expire(n) PROVE Accounts'
    <2> SUFFICES ASSUME NEW m \in Mails PROVE Accounted(m)'
      BY DEF Accounts
    <2>1. /\ rows' = rows /\ ledger' = ledger /\ work' = work /\ inFlight' = inFlight \ {n}
          /\ excused' = [excused EXCEPT ![n] = @ + 1]
      BY <1>6 DEF Expire, dbVars
    <2>2. Before(m)' = Before(m) /\ AtRow(m)' = AtRow(m) /\ (Saved(m)' <=> Saved(m))
      BY <2>1 DEF Before, AtRow, Saved
    <2>3. One(m \in inFlight) + excused[m] <= One(m \in inFlight)' + excused'[m]
          /\ excused'[m] >= excused[m]
      BY <1>1, <2>1 DEF One
    <2>4. rows'[m] = rows[m] /\ rows[m] \in Nat /\ excused[m] \in Nat /\ excused'[m] \in Nat
          /\ One(m \in inFlight) \in Nat /\ One(m \in inFlight)' \in Nat
          /\ Cardinality(Before(m)) \in Nat /\ Cardinality(AtRow(m)) \in Nat
      BY <1>1, <2>1, Counts DEF One
    <2>5. Accounted(m) /\ Cardinality(Before(m))' = Cardinality(Before(m))
          /\ Cardinality(AtRow(m))' = Cardinality(AtRow(m))
      BY <2>2 DEF Accounts
    <2>6. QED
      BY <2>2, <2>3, <2>4, <2>5 DEF Accounted
  <1>7. CASE \/ \E a \in Attempts : GiveUp(a)
             \/ \E t \in Threads, open \in BOOLEAN : SetStatus(t, open)
             \/ UNCHANGED vars
    <2>1. UNCHANGED <<work, inFlight, rows, ledger, excused>>
      BY <1>7 DEF GiveUp, SetStatus, vars, memVars, dbVars, histVars
    <2>2. QED
      BY <2>1 DEF Accounts, Accounted, Saved, Before, AtRow, One
  <1>8. QED
    BY <1>2, <1>3, <1>4, <1>5, <1>6, <1>7 DEF Next

\* createInboundMessage and the in-flight map: a mail has one row, and one
\* more for each attempt cut off behind it or that outlived its entry.
THEOREM MailsStoredOnce == Spec => []StoredOnce
  <1>1. Init => Accounts
    <2> SUFFICES ASSUME Init, NEW m \in Mails PROVE Accounted(m)
      BY DEF Accounts
    <2>1. Before(m) = {} /\ rows[m] = 0 /\ excused[m] = 0 /\ m \notin inFlight /\ ~Saved(m)
      BY DEF Init, Before, Saved
    <2>2. Cardinality(Before(m)) = 0
      BY <2>1, FS_EmptySet
    <2>3. QED
      BY <2>1, <2>2 DEF Accounted, One
  <1>2. IInv /\ Accounts => StoredOnce
    <2> SUFFICES ASSUME IInv, Accounts, NEW m \in Mails PROVE rows[m] <= 1 + excused[m]
      BY DEF StoredOnce
    <2>1. Accounted(m) /\ rows[m] \in Nat /\ excused[m] \in Nat
      BY DEF Accounts, IInv, TypeOK
    <2>2. One(m \in inFlight) \in {0, 1} /\ Cardinality(Before(m)) \in Nat
          /\ Cardinality(AtRow(m)) \in Nat
      BY Counts DEF One
    <2>3. QED
      BY <2>1, <2>2 DEF Accounted
  <1>3. IInv /\ Accounts /\ [Next]_vars => Accounts'
    BY AccountsKept
  <1>4. QED
    BY <1>1, <1>2, <1>3, Invariance, PTL DEF Spec

-----------------------------------------------------------------------------
(***************************************************************************)
(* Replies.                                                                *)
(***************************************************************************)

\* Steps of a reply whose e-mail has its row in email_messages.
Recorded == {"send", "mark", "clear", "tell", "markFailed", "bubble", "count",
             "flag", "done", "failed"}

EmailOnRecord(r) ==
    /\ at[r] \in Recorded \cup {"record"} => r \in Listed
    /\ at[r] \in Recorded => status[r] # NONE
    /\ r \in accepted => r \in Listed /\ status[r] # NONE
    /\ at[r] = "mark" => r \in accepted

ChatOnRecord(r) ==
    /\ at[r] \notin {"parent", "record", "mark", "markFailed", "bubble"}
    /\ at[r] \in {"clear", "store", "tell", "done"} => r \in accepted
    /\ at[r] \in {"tell", "done"} => r \in Listed
    /\ r \in Listed => r \in accepted

\* The record of each reply at each step of its request.
IRecord ==
    \A r \in Replies :
        /\ IF channel = "email" THEN EmailOnRecord(r) ELSE ChatOnRecord(r)
        /\ status[r] = "sent" => r \in accepted
        /\ at[r] = "idle" => r \notin Listed

\* What a page shows of a reply at each step of its request.
ShownTrue(p, r) ==
    r \notin missed[p] =>
        /\ \A b \in shown[p] : b.id = r =>
              at[r] \in {"count", "flag", "done", "failed", "broken"} /\ b = BubbleOf(r)
        /\ p \in Others(r) \cup {SentFrom[r]}
           /\ (at[r] = "done" \/ (channel = "email" /\ at[r] \in {"count", "flag", "failed"}))
           => BubbleOf(r) \in shown[p]

IShown == \A p \in Pages, r \in Replies : ShownTrue(p, r)

\* What the messages in an answer under way say of a reply.
AnswerTrue(a, r) ==
    /\ r \notin a.gap =>
          /\ at[r] \in {"done", "failed", "broken"}
          /\ \A b \in a.list : b.id = r => b = BubbleOf(r)
          /\ at[r] = "done" \/ (channel = "email" /\ at[r] = "failed") => BubbleOf(r) \in a.list
    /\ at[r] = "idle" => \A b \in a.list : b.id # r

IAnswers == \A a \in lists, r \in Replies : AnswerTrue(a, r)

\* What is counted is flagged, and is in an answer that was read later.
IFlags ==
    ~cleared => /\ fails >= Cardinality(Counted)
                /\ \A p \in Pages : Failed \subseteq unflagged[p] \/ flag[p] > 0
                /\ \A a \in inboxes : Replies \subseteq a.unsaid \/ a.count > 0

-----------------------------------------------------------------------------
(***************************************************************************)
(* Types.                                                                  *)
(***************************************************************************)

LEMMA LatestIsOne == ASSUME NEW s, NEW S PROVE Latest(s, S) \in S \cup {NONE}
  <1> DEFINE last == {s[i] : i \in {k \in DOMAIN s :
                        s[k] \in S /\ \A j \in DOMAIN s : j > k => s[j] \notin S}}
  <1>1. \A x \in last : x \in S
    OBVIOUS
  <1>2. CASE last = {}
    BY <1>2 DEF Latest
  <1>3. CASE last # {}
    <2>1. (CHOOSE x \in last : TRUE) \in last
      BY <1>3
    <2>2. Latest(s, S) = CHOOSE x \in last : TRUE
      BY <1>3 DEF Latest
    <2>3. QED
      BY <1>1, <2>1, <2>2
  <1>4. QED
    BY <1>2, <1>3

LEMMA ParentIsOne == ReplyParent \in Mails \cup Sendable \cup {NONE}
  BY LatestIsOne DEF ReplyParent

LEMMA BubbleTypes == ASSUME RepliesTypeOK, NEW x \in Ids PROVE BubbleOf(x) \in Bubble
  BY DEF RepliesTypeOK, BubbleOf, Bubble, StatusOf, Status

LEMMA ListedTypes == RepliesTypeOK => Listed \subseteq Ids
  BY DEF RepliesTypeOK, Listed

LEMMA AppendLists ==
  ASSUME RepliesTypeOK, NEW x \in Ids, messages' = Append(messages, x)
  PROVE  messages' \in Seq(Ids) /\ Listed' = Listed \cup {x}
  <1>1. messages \in Seq(Ids)
    BY DEF RepliesTypeOK
  <1>2. /\ messages' \in Seq(Ids)
        /\ DOMAIN messages = 1..Len(messages) /\ DOMAIN messages' = 1..(Len(messages) + 1)
        /\ Len(messages) \in Nat
        /\ \A i \in 1..Len(messages) : messages'[i] = messages[i]
        /\ messages'[Len(messages) + 1] = x
    BY <1>1
  <1>3. Listed' = {messages'[i] : i \in DOMAIN messages'}
    BY DEF Listed
  <1>4. \A y : y \in Listed' <=> \E i \in 1..(Len(messages) + 1) : y = messages'[i]
    BY <1>2, <1>3
  <1>5. \A y : y \in Listed <=> \E i \in 1..Len(messages) : y = messages[i]
    BY <1>2 DEF Listed
  <1>6. \A y : y \in Listed' <=> y \in Listed \/ y = x
    <2> TAKE y
    <2>1. ASSUME y \in Listed' PROVE y \in Listed \/ y = x
      <3>1. PICK i \in 1..(Len(messages) + 1) : y = messages'[i]
        BY <1>4, <2>1
      <3>2. CASE i = Len(messages) + 1
        BY <1>2, <3>1, <3>2
      <3>3. CASE i # Len(messages) + 1
        <4>1. i \in 1..Len(messages)
          BY <1>2, <3>3
        <4>2. QED
          BY <1>2, <1>5, <3>1, <4>1
      <3>4. QED
        BY <3>2, <3>3
    <2>2. ASSUME y \in Listed PROVE y \in Listed'
      <3>1. PICK i \in 1..Len(messages) : y = messages[i]
        BY <1>5, <2>2
      <3>2. i \in 1..(Len(messages) + 1) /\ messages'[i] = y
        BY <1>2, <3>1
      <3>3. QED
        BY <1>4, <3>2
    <2>3. x \in Listed'
      <3>1. Len(messages) + 1 \in 1..(Len(messages) + 1)
        BY <1>2
      <3>2. QED
        BY <1>2, <1>4, <3>1
    <2>4. QED
      BY <2>1, <2>2, <2>3
  <1>7. QED
    BY <1>2, <1>6

LEMMA ShowTypes ==
  ASSUME RepliesTypeOK, NEW told \in SUBSET Pages, NEW x \in Ids, ShowOn(told, x)
  PROVE  shown' \in [Pages -> SUBSET Bubble]
  <1>1. BubbleOf(x) \in Bubble
    BY BubbleTypes
  <1>2. \A p \in Pages : shown[p] \subseteq Bubble
    BY DEF RepliesTypeOK
  <1>3. \A p \in Pages : AddMessage(shown[p], BubbleOf(x)) \subseteq Bubble
    BY <1>1, <1>2 DEF AddMessage
  <1>4. QED
    BY <1>2, <1>3 DEF ShowOn

LEMMA AnnounceTypes ==
  ASSUME RepliesTypeOK, NEW r \in Replies, NEW told \in SUBSET Pages, NEW anyway \in SUBSET Pages,
         Announce(r, told, anyway)
  PROVE  /\ shown' \in [Pages -> SUBSET Bubble]
         /\ mishaps' \in 0..MaxMishaps
         /\ missed' \in [Pages -> SUBSET Replies]
  <1>1. r \in Ids
    BY DEF Ids
  <1>2. shown' \in [Pages -> SUBSET Bubble]
    <2>1. PICK heard \in SUBSET Pages : ShowOn(heard \cup anyway, r)
      BY DEF Announce
    <2>2. QED
      BY <1>1, <2>1, ShowTypes
  <1>3. mishaps' \in 0..MaxMishaps
    BY RepliesAssumption, MaxMishapsAssumption DEF Announce, Mishap, RepliesTypeOK
  <1>4. missed' \in [Pages -> SUBSET Replies]
    <2>1. \A heard : Without(missed, heard, r) \in [Pages -> SUBSET Replies]
      BY DEF Without, RepliesTypeOK
    <2>2. missed' = missed \/ \E heard : missed' = Without(missed, heard \cup anyway, r)
      BY DEF Announce
    <2>3. CASE missed' = missed
      BY <2>3 DEF RepliesTypeOK
    <2>4. CASE \E heard : missed' = Without(missed, heard \cup anyway, r)
      <3>1. PICK heard : missed' = Without(missed, heard \cup anyway, r)
        BY <2>4
      <3>2. Without(missed, heard \cup anyway, r) \in [Pages -> SUBSET Replies]
        BY <2>1
      <3>3. QED
        BY <3>1, <3>2
    <2>5. QED
      BY <2>2, <2>3, <2>4
  <1>5. QED
    BY <1>2, <1>3, <1>4

LEMMA AppendTypes ==
  ASSUME RepliesTypeOK, NEW x \in Ids
  PROVE  Append(messages, x) \in Seq(Ids) /\ Append(emails, x) \in Seq(Ids)
  BY DEF RepliesTypeOK

LEMMA TypesInit == RepliesInit => RepliesTypeOK
  <1> SUFFICES ASSUME RepliesInit PROVE RepliesTypeOK
    OBVIOUS
  <1>1. messages \in Seq(Ids) /\ emails \in Seq(Ids)
    BY DEF RepliesInit
  <1>2. mishaps \in 0..MaxMishaps /\ opens \in 0..MaxOpens
    BY RepliesAssumption, MaxMishapsAssumption DEF RepliesInit
  <1>3. /\ at \in [Replies -> Busy \cup Resting]
        /\ status \in [Replies -> Status]
        /\ letter \in [Mails -> {"idle", "reopen", "store", "record", "tell", "done"}]
    BY DEF RepliesInit, Resting, Status
  <1>4. /\ seen \in [Replies -> Nat] /\ fails \in Nat /\ flag \in [Pages -> Nat]
        /\ parent \in [Replies -> Ids \cup {NONE}]
        /\ inboxes \subseteq InboxAnswer /\ lists \subseteq ListAnswer
    BY DEF RepliesInit
  <1>5. /\ shown \in [Pages -> SUBSET Bubble] /\ missed \in [Pages -> SUBSET Replies]
        /\ accepted \subseteq Replies /\ cleared \in BOOLEAN
        /\ unflagged \in [Pages -> SUBSET Replies]
        /\ channel \in {"email", "chat"}
    BY DEF RepliesInit
  <1>6. QED
    BY <1>1, <1>2, <1>3, <1>4, <1>5 DEF RepliesTypeOK

\* What a reply's step leaves alone besides, by type.
LEMMA ReplyTypes ==
  ASSUME RepliesTypeOK, NEW r \in Replies, Reply(r)
  PROVE  RepliesTypeOK'
  <1>1. r \in Ids
    BY DEF Ids
  <1>2. \A step \in Busy \cup Resting :
            Proceed(r, step) => at' \in [Replies -> Busy \cup Resting]
    BY DEF RepliesTypeOK, Proceed
  <1>3. at' \in [Replies -> Busy \cup Resting]
    <2>1. CASE Ask(r)
      BY <1>2, <2>1 DEF Ask, Busy
    <2>2. CASE FindParent(r) \/ Store(r) \/ Record(r)
      BY <1>2, <2>2 DEF FindParent, Store, Record, Busy
    <2>3. CASE SendAccepted(r) \/ SendRefused(r) \/ SendUnheard(r)
      BY <1>2, <2>3 DEF SendAccepted, SendRefused, SendUnheard, AfterSend, AfterRefusal, Busy
    <2>4. CASE Mark(r) \/ Clear(r) \/ Tell(r)
      BY <1>2, <2>4 DEF Mark, Clear, Tell, Busy, Resting
    <2>5. CASE TellFailed(r) \/ Count(r) \/ RaiseFlag(r) \/ Break(r)
      BY <1>2, <2>5 DEF TellFailed, Count, RaiseFlag, Break, Busy, Resting
    <2>6. QED
      BY <2>1, <2>2, <2>3, <2>4, <2>5 DEF Reply
  <1>4. /\ seen' \in [Replies -> Nat]
        /\ fails' \in Nat
        /\ flag' \in [Pages -> Nat] /\ unflagged' \in [Pages -> SUBSET Replies]
    <2>1. CASE RaiseFlag(r)
      <3>1. seen[r] + 1 \in Nat
        BY DEF RepliesTypeOK
      <3>2. \A told : FlagOn(told, r) => flag' \in [Pages -> Nat]
        BY <3>1 DEF FlagOn, RepliesTypeOK
      <3>3. \A heard : Without(unflagged, heard, r) \in [Pages -> SUBSET Replies]
        BY DEF Without, RepliesTypeOK
      <3>4. QED
        BY <2>1, <3>2, <3>3 DEF RaiseFlag, RepliesTypeOK
    <2>2. CASE ~RaiseFlag(r)
      BY <2>2 DEF RepliesTypeOK, Reply, Ask, FindParent, Store, Record, SendAccepted, SendRefused,
           SendUnheard, Mark, Clear, Tell, TellFailed, Count, Break, clients, history
    <2>3. QED
      BY <2>1, <2>2
  <1>5. parent' \in [Replies -> Ids \cup {NONE}]
    BY ZenonT(60), ParentIsOne DEF RepliesTypeOK, Reply, Ask, FindParent, Store, Record, SendAccepted,
           SendRefused, SendUnheard, Mark, Clear, Tell, TellFailed, Count, RaiseFlag, Break,
           Ids, Sendable
  <1>6. /\ messages' \in Seq(Ids)
        /\ emails' \in Seq(Ids)
        /\ letter' = letter
        /\ channel' = channel
    BY <1>1, AppendTypes DEF RepliesTypeOK, Reply, Ask, FindParent, Store, Record, SendAccepted, SendRefused,
           SendUnheard, Mark, Clear, Tell, TellFailed, Count, RaiseFlag, Break
  <1>7. status' \in [Replies -> Status]
    BY DEF RepliesTypeOK, Reply, Ask, FindParent, Store, Record, SendAccepted, SendRefused,
           SendUnheard, Mark, Clear, Tell, TellFailed, Count, RaiseFlag, Break, Status
  <1>8. /\ shown' \in [Pages -> SUBSET Bubble]
        /\ mishaps' \in 0..MaxMishaps
        /\ missed' \in [Pages -> SUBSET Replies]
    <2>1. CASE Tell(r)
      <3>1. Others(r) \subseteq Pages /\ {SentFrom[r]} \subseteq Pages
        BY RepliesAssumption DEF Others
      <3>2. QED
        BY <2>1, <3>1, AnnounceTypes DEF Tell
    <2>2. CASE TellFailed(r)
      BY <2>2, AnnounceTypes DEF TellFailed
    <2>3. CASE SendUnheard(r) \/ Break(r) \/ RaiseFlag(r)
      BY <2>3, RepliesAssumption, MaxMishapsAssumption
      DEF SendUnheard, Break, RaiseFlag, Mishap, RepliesTypeOK, clients, history
    <2>4. QED
      BY <2>1, <2>2, <2>3 DEF RepliesTypeOK, Reply, Ask, FindParent, Store, Record, SendAccepted,
           SendRefused, Mark, Clear, Count, clients, history
  <1>9. /\ opens' = opens /\ inboxes' = inboxes /\ lists' = lists
        /\ accepted' \subseteq Replies /\ cleared' \in BOOLEAN
    BY DEF RepliesTypeOK, Reply, Ask, FindParent, Store, Record, SendAccepted, SendRefused,
           SendUnheard, Mark, Clear, Tell, TellFailed, Count, RaiseFlag, Break, clients, history
  <1>10. QED
    BY <1>3, <1>4, <1>5, <1>6, <1>7, <1>8, <1>9 DEF RepliesTypeOK

LEMMA LetterTypes ==
  ASSUME RepliesTypeOK, NEW m \in Mails, Letter(m)
  PROVE  RepliesTypeOK'
  <1>1. m \in Ids
    BY DEF Ids
  <1>2. letter' \in [Mails -> {"idle", "reopen", "store", "record", "tell", "done"}]
    BY DEF RepliesTypeOK, Letter, Arrive, Reopen, StoreLetter, RecordLetter, TellLetter, Turn
  <1>3. messages' \in Seq(Ids) /\ emails' \in Seq(Ids) /\ fails' \in Nat
    <2>1. Append(messages, m) \in Seq(Ids) /\ Append(emails, m) \in Seq(Ids)
      BY <1>1, AppendTypes
    <2>2. messages \in Seq(Ids) /\ emails \in Seq(Ids) /\ fails \in Nat
      BY DEF RepliesTypeOK
    <2>3. /\ messages' = messages \/ messages' = Append(messages, m)
          /\ emails' = emails \/ emails' = Append(emails, m)
          /\ fails' = fails \/ fails' = 0
      BY DEF Letter, Arrive, Reopen, StoreLetter, RecordLetter, TellLetter
    <2>4. messages' \in Seq(Ids)
      <3>1. CASE messages' = messages
        BY <2>2, <3>1
      <3>2. CASE messages' = Append(messages, m)
        BY <2>1, <3>2
      <3>3. QED
        BY <2>3, <3>1, <3>2
    <2>5. emails' \in Seq(Ids)
      <3>1. CASE emails' = emails
        BY <2>2, <3>1
      <3>2. CASE emails' = Append(emails, m)
        BY <2>1, <3>2
      <3>3. QED
        BY <2>3, <3>1, <3>2
    <2>6. fails' \in Nat
      BY <2>2, <2>3
    <2>7. QED
      BY <2>4, <2>5, <2>6
  <1>4. shown' \in [Pages -> SUBSET Bubble] /\ mishaps' \in 0..MaxMishaps
    <2>1. CASE TellLetter(m)
      <3>1. ShowOn(Pages, m) => shown' \in [Pages -> SUBSET Bubble]
        BY <1>1, ShowTypes
      <3>2. QED
        BY <2>1, <3>1, RepliesAssumption, MaxMishapsAssumption DEF TellLetter, Mishap, RepliesTypeOK
    <2>2. CASE RecordLetter(m)
      BY <2>2, RepliesAssumption, MaxMishapsAssumption DEF RecordLetter, Mishap, RepliesTypeOK, clients
    <2>3. QED
      BY <2>1, <2>2 DEF RepliesTypeOK, Letter, Arrive, Reopen, StoreLetter, clients
  <1>5. /\ UNCHANGED <<channel, at, seen, parent, status, flag, inboxes, lists, opens,
                        accepted, missed, unflagged>>
        /\ cleared' \in BOOLEAN
    BY DEF RepliesTypeOK, Letter, Arrive, Reopen, StoreLetter, RecordLetter, TellLetter, clients, history
  <1>6. QED
    BY <1>2, <1>3, <1>4, <1>5 DEF RepliesTypeOK

LEMMA ReadTypes ==
  ASSUME RepliesTypeOK, NEW p \in Pages, ReadInbox(p) \/ ReadList(p)
  PROVE  RepliesTypeOK'
  <1>1. opens' \in 0..MaxOpens /\ opens \in Nat
    BY RepliesAssumption DEF RepliesTypeOK, ReadInbox, ReadList, Load
  <1>2. inboxes' \subseteq InboxAnswer
    <2>1. [nr |-> opens, page |-> p, count |-> fails, unsaid |-> Replies \ Counted] \in InboxAnswer
      BY <1>1 DEF InboxAnswer, RepliesTypeOK
    <2>2. QED
      BY <2>1 DEF ReadInbox, ReadList, RepliesTypeOK
  <1>3. lists' \subseteq ListAnswer
    <2>1. {BubbleOf(x) : x \in Listed} \subseteq Bubble
      BY ListedTypes, BubbleTypes
    <2>2. [nr |-> opens, page |-> p, list |-> {BubbleOf(x) : x \in Listed},
           gap |-> {r \in Replies : at[r] \in Busy \cup {"idle"}}] \in ListAnswer
      BY <1>1, <2>1 DEF ListAnswer
    <2>3. QED
      BY <2>2 DEF ReadInbox, ReadList, RepliesTypeOK
  <1>4. QED
    BY <1>1, <1>2, <1>3 DEF RepliesTypeOK, ReadInbox, ReadList, server, history

LEMMA InboxTypes ==
  ASSUME RepliesTypeOK, NEW a \in inboxes, InboxArrives(a)
  PROVE  RepliesTypeOK'
  <1>1. a \in InboxAnswer
    BY DEF RepliesTypeOK
  <1>2. a.count \in Nat /\ {r \in a.unsaid : at[r] = "failed"} \subseteq Replies
    BY <1>1 DEF InboxAnswer
  <1>3. flag' \in [Pages -> Nat] /\ unflagged' \in [Pages -> SUBSET Replies]
    BY <1>2 DEF RepliesTypeOK, InboxArrives
  <1>4. inboxes' \subseteq InboxAnswer
    BY DEF RepliesTypeOK, InboxArrives
  <1>5. QED
    BY <1>3, <1>4 DEF RepliesTypeOK, InboxArrives, server

LEMMA ListTypes ==
  ASSUME RepliesTypeOK, NEW a \in lists, ListArrives(a)
  PROVE  RepliesTypeOK'
  <1>1. a \in ListAnswer
    BY DEF RepliesTypeOK
  <1>2. a.list \subseteq Bubble /\ {r \in a.gap : at[r] # "idle"} \subseteq Replies
    BY <1>1 DEF ListAnswer
  <1>3. shown' \in [Pages -> SUBSET Bubble] /\ missed' \in [Pages -> SUBSET Replies]
    BY <1>2 DEF RepliesTypeOK, ListArrives
  <1>4. lists' \subseteq ListAnswer
    BY DEF RepliesTypeOK, ListArrives
  <1>5. QED
    BY <1>3, <1>4 DEF RepliesTypeOK, ListArrives, server

\* A page that reads or is answered leaves the replies and the tables alone.
Browse ==
    \/ \E p \in Pages : ReadInbox(p) \/ ReadList(p)
    \/ \E a \in inboxes : InboxArrives(a)
    \/ \E a \in lists : ListArrives(a)

LEMMA BrowseFrame == Browse => UNCHANGED <<channel, server, accepted, cleared>>
  BY DEF Browse, ReadInbox, ReadList, InboxArrives, ListArrives, history

LEMMA TypesNext == ASSUME RepliesTypeOK, [RepliesNext]_repliesVars PROVE RepliesTypeOK'
  <1>1. CASE \E r \in Replies : Reply(r)
    BY <1>1, ReplyTypes
  <1>2. CASE \E m \in Mails : Letter(m)
    BY <1>2, LetterTypes
  <1>3. CASE Browse
    BY <1>3, ReadTypes, InboxTypes, ListTypes DEF Browse
  <1>4. CASE UNCHANGED repliesVars
    BY <1>4 DEF RepliesTypeOK, repliesVars, server, clients, history
  <1>5. QED
    BY <1>1, <1>2, <1>3, <1>4 DEF RepliesNext, Browse

\* Every request, table and page keeps its type.
THEOREM RepliesTypeCorrect == RepliesSpec => []RepliesTypeOK
  <1>1. RepliesInit => RepliesTypeOK
    BY TypesInit
  <1>2. RepliesTypeOK /\ [RepliesNext]_repliesVars => RepliesTypeOK'
    BY TypesNext
  <1>3. QED
    BY <1>1, <1>2, PTL DEF RepliesSpec

-----------------------------------------------------------------------------
(***************************************************************************)
(* The record.                                                             *)
(***************************************************************************)

LEMMA RecordInit == RepliesInit => IRecord
  <1> SUFFICES ASSUME RepliesInit, NEW r \in Replies
               PROVE  /\ IF channel = "email" THEN EmailOnRecord(r) ELSE ChatOnRecord(r)
                      /\ status[r] = "sent" => r \in accepted
                      /\ at[r] = "idle" => r \notin Listed
    BY DEF IRecord
  <1>1. DOMAIN messages = {}
    BY DEF RepliesInit
  <1>2. Listed = {}
    BY <1>1 DEF Listed
  <1>3. at[r] = "idle" /\ status[r] # "sent" /\ accepted = {}
    BY RepliesAssumption DEF RepliesInit
  <1>4. QED
    BY <1>2, <1>3 DEF EmailOnRecord, ChatOnRecord, Recorded

\* A step that lists nothing new and takes no reply to a later step.
LEMMA RecordFrame ==
  ASSUME IRecord, UNCHANGED <<channel, at, status, accepted>>, Listed' \cap Replies = Listed \cap Replies
  PROVE  IRecord'
  <1>1. \A r \in Replies : r \in Listed' <=> r \in Listed
    OBVIOUS
  <1>2. QED
    BY <1>1 DEF IRecord, EmailOnRecord, ChatOnRecord

\* The other replies keep their record.
LEMMA RecordOthers ==
  ASSUME RepliesTypeOK, IRecord, NEW r \in Replies, NEW s \in Replies \ {r},
         at'[s] = at[s], status'[s] = status[s], channel' = channel,
         accepted' = accepted \/ accepted' = accepted \cup {r},
         s \in Listed' <=> s \in Listed
  PROVE  /\ IF channel' = "email" THEN EmailOnRecord(s)' ELSE ChatOnRecord(s)'
         /\ status'[s] = "sent" => s \in accepted'
         /\ at'[s] = "idle" => s \notin Listed'
  BY DEF IRecord, EmailOnRecord, ChatOnRecord

LEMMA RecordReply ==
  ASSUME RepliesTypeOK, IRecord, NEW r \in Replies, Reply(r)
  PROVE  IRecord'
  <1>1. r \in Ids
    BY DEF Ids
  <1>2. /\ channel' = channel
        /\ accepted' = accepted \/ accepted' = accepted \cup {r}
        /\ messages' = messages \/ messages' = Append(messages, r)
    BY DEF Reply, Ask, FindParent, Store, Record, SendAccepted, SendRefused, SendUnheard,
           Mark, Clear, Tell, TellFailed, Count, RaiseFlag, Break, history
  <1>3. \A s \in Replies \ {r} : at'[s] = at[s] /\ status'[s] = status[s]
    BY DEF Reply, Ask, FindParent, Store, Record, SendAccepted, SendRefused, SendUnheard,
           Mark, Clear, Tell, TellFailed, Count, RaiseFlag, Break, Proceed, RepliesTypeOK
  <1>4. Listed' = Listed \/ Listed' = Listed \cup {r}
    BY <1>1, <1>2, AppendLists DEF Listed
  <1>5. \A s \in Replies \ {r} :
            /\ IF channel' = "email" THEN EmailOnRecord(s)' ELSE ChatOnRecord(s)'
            /\ status'[s] = "sent" => s \in accepted'
            /\ at'[s] = "idle" => s \notin Listed'
    BY <1>2, <1>3, <1>4, RecordOthers
  <1>6. /\ IF channel = "email" THEN EmailOnRecord(r) ELSE ChatOnRecord(r)
        /\ status[r] = "sent" => r \in accepted
        /\ at[r] = "idle" => r \notin Listed
    BY DEF IRecord
  <1>7. \A step : Proceed(r, step) => at'[r] = step
    BY DEF Proceed, RepliesTypeOK
  <1> DEFINE Mine == /\ IF channel' = "email" THEN EmailOnRecord(r)' ELSE ChatOnRecord(r)'
                     /\ status'[r] = "sent" => r \in accepted'
                     /\ at'[r] = "idle" => r \notin Listed'
  <1>8. Mine
    <2>1. CASE Ask(r)
      BY <1>2, <1>6, <1>7, <2>1 DEF Ask, EmailOnRecord, ChatOnRecord, Recorded, Listed, history
    <2>2. CASE FindParent(r)
      BY <1>2, <1>6, <1>7, <2>2 DEF FindParent, EmailOnRecord, ChatOnRecord, Recorded, Listed, history
    <2>3. CASE Store(r)
      <3>1. Listed' = Listed \cup {r}
        BY <1>1, <2>3, AppendLists DEF Store
      <3>2. QED
        BY <1>6, <1>7, <2>3, <3>1 DEF Store, EmailOnRecord, ChatOnRecord, Recorded, history
    <2>4. CASE Record(r)
      <3>1. status'[r] = "pending"
        BY <2>4 DEF Record, RepliesTypeOK
      <3>2. QED
        BY <1>6, <1>7, <2>4, <3>1, RepliesAssumption DEF Record, EmailOnRecord, ChatOnRecord, Recorded, Listed, history
    <2>5. CASE SendAccepted(r) \/ SendRefused(r) \/ SendUnheard(r)
      BY <1>6, <1>7, <2>5 DEF SendAccepted, SendRefused, SendUnheard, AfterSend, AfterRefusal,
         EmailOnRecord, ChatOnRecord, Recorded, Listed, history
    <2>6. CASE Mark(r)
      <3>1. status'[r] = IF at[r] = "mark" THEN "sent" ELSE "failed"
        BY <2>6 DEF Mark, RepliesTypeOK
      <3>2. QED
        BY <1>6, <1>7, <2>6, <3>1, RepliesAssumption DEF Mark, EmailOnRecord, ChatOnRecord, Recorded, Listed, history
    <2>7. CASE Clear(r) \/ Tell(r)
      BY <1>6, <1>7, <2>7 DEF Clear, Tell, EmailOnRecord, ChatOnRecord, Recorded, Listed
    <2>8. CASE TellFailed(r) \/ Count(r) \/ RaiseFlag(r) \/ Break(r)
      BY <1>6, <1>7, <2>8 DEF TellFailed, Count, RaiseFlag, Break, EmailOnRecord, ChatOnRecord,
         Recorded, Busy, Listed, history
    <2>9. QED
      BY <2>1, <2>2, <2>3, <2>4, <2>5, <2>6, <2>7, <2>8 DEF Reply
  <1>9. QED
    BY <1>5, <1>8 DEF IRecord

LEMMA RecordNext == ASSUME RepliesTypeOK, IRecord, [RepliesNext]_repliesVars PROVE IRecord'
  <1>1. CASE \E r \in Replies : Reply(r)
    BY <1>1, RecordReply
  <1>2. ASSUME NEW m \in Mails, Letter(m) PROVE IRecord'
    <2>1. UNCHANGED <<channel, at, status, accepted>>
      BY <1>2 DEF Letter, Arrive, Reopen, StoreLetter, RecordLetter, TellLetter, history
    <2>2. messages' = messages \/ messages' = Append(messages, m)
      BY <1>2 DEF Letter, Arrive, Reopen, StoreLetter, RecordLetter, TellLetter
    <2>3. Listed' = Listed \/ Listed' = Listed \cup {m}
      BY <2>2, AppendLists DEF Ids, Listed
    <2>4. Listed' \cap Replies = Listed \cap Replies
      BY <2>3, RepliesAssumption
    <2>5. QED
      BY <2>1, <2>4, RecordFrame
  <1>3. CASE Browse \/ UNCHANGED repliesVars
    <2>1. UNCHANGED <<channel, at, status, accepted>> /\ Listed' = Listed
      BY <1>3, BrowseFrame DEF repliesVars, server, history, Listed
    <2>2. QED
      BY <2>1, RecordFrame
  <1>4. QED
    BY <1>1, <1>2, <1>3 DEF RepliesNext, Browse

LEMMA RecordSays == ASSUME RepliesTypeOK, IRecord PROVE RepliesOnRecord
  BY DEF RepliesTypeOK, IRecord, EmailOnRecord, ChatOnRecord, RepliesOnRecord

\* Whatever breaks and however replies overlap: every mail that has left is on the
\* inbox, what says "sent" was accepted, and a channel's reply on record was taken.
THEOREM RepliesAreOnRecord == RepliesSpec => []RepliesOnRecord
  <1>1. RepliesInit => RepliesTypeOK /\ IRecord
    BY TypesInit, RecordInit
  <1>2. RepliesTypeOK /\ IRecord /\ [RepliesNext]_repliesVars => RepliesTypeOK' /\ IRecord'
    BY TypesNext, RecordNext
  <1>3. RepliesTypeOK /\ IRecord => RepliesOnRecord
    BY RecordSays
  <1>4. QED
    BY <1>1, <1>2, <1>3, PTL DEF RepliesSpec

LEMMA ParentNext ==
  ASSUME RepliesTypeOK, IRecord, ParentWasReceived, [RepliesNext]_repliesVars
  PROVE  ParentWasReceived'
  <1>1. accepted \subseteq accepted'
    BY DEF RepliesNext, Reply, Ask, FindParent, Store, Record, SendAccepted, SendRefused, SendUnheard,
       Mark, Clear, Tell, TellFailed, Count, RaiseFlag, Break, Letter, Arrive, Reopen,
       StoreLetter, RecordLetter, TellLetter, ReadInbox, ReadList, InboxArrives,
       ListArrives, repliesVars, history
  <1>2. CASE \E r \in Replies : FindParent(r)
    <2>1. PICK r \in Replies : FindParent(r)
      BY <1>2
    <2>2. parent'[r] = ReplyParent /\ \A s \in Replies \ {r} : parent'[s] = parent[s]
      BY <2>1 DEF FindParent, RepliesTypeOK
    <2>3. Sendable \subseteq accepted
      BY DEF IRecord, Sendable
    <2>4. QED
      BY <1>1, <2>2, <2>3, ParentIsOne DEF ParentWasReceived
  <1>3. CASE ~\E r \in Replies : FindParent(r)
    <2>1. parent' = parent
      BY <1>3 DEF RepliesNext, Reply, Ask, Store, Record, SendAccepted, SendRefused, SendUnheard,
         Mark, Clear, Tell, TellFailed, Count, RaiseFlag, Break, Letter, Arrive, Reopen,
         StoreLetter, RecordLetter, TellLetter, ReadInbox, ReadList, InboxArrives,
         ListArrives, repliesVars, server
    <2>2. QED
      BY <1>1, <2>1 DEF ParentWasReceived
  <1>4. QED
    BY <1>2, <1>3

\* No reply answers a mail the customer neither wrote nor received.
THEOREM ParentsAreReceived == RepliesSpec => []ParentWasReceived
  <1>1. RepliesInit => RepliesTypeOK /\ IRecord /\ ParentWasReceived
    <2>1. RepliesInit => ParentWasReceived
      BY DEF RepliesInit, ParentWasReceived
    <2>2. QED
      BY <2>1, TypesInit, RecordInit
  <1>2. RepliesTypeOK /\ IRecord /\ ParentWasReceived /\ [RepliesNext]_repliesVars
            => RepliesTypeOK' /\ IRecord' /\ ParentWasReceived'
    BY TypesNext, RecordNext, ParentNext
  <1>3. QED
    BY <1>1, <1>2, PTL DEF RepliesSpec
-----------------------------------------------------------------------------
(***************************************************************************)
(* Delivery failures.                                                      *)
(***************************************************************************)

LEMMA CountedIsFinite == IsFiniteSet(Counted) /\ Cardinality(Counted) \in Nat
  <1>1. IsFiniteSet(Replies)
    BY RepliesAssumption
  <1>2. Counted \subseteq Replies
    BY DEF Counted
  <1>3. QED
    BY <1>1, <1>2, FS_Subset, FS_CardinalityType

LEMMA FlagsInit == RepliesInit => IFlags
  <1> SUFFICES ASSUME RepliesInit PROVE IFlags
    OBVIOUS
  <1>1. Counted = {} /\ Failed = {}
    BY DEF RepliesInit, Counted, Failed
  <1>2. Cardinality(Counted) = 0
    BY <1>1, FS_EmptySet
  <1>3. QED
    BY <1>1, <1>2 DEF RepliesInit, IFlags

\* A step that counts, fails and unflags nothing.
LEMMA FlagsFrame ==
  ASSUME RepliesTypeOK, IFlags, UNCHANGED <<fails, flag, inboxes, unflagged, cleared>>,
         Failed' = Failed, Counted' \subseteq Counted
  PROVE  IFlags'
  <1>1. Cardinality(Counted') <= Cardinality(Counted) /\ Cardinality(Counted') \in Nat
    BY CountedIsFinite, FS_Subset, FS_CardinalityType
  <1>2. fails \in Nat /\ Cardinality(Counted) \in Nat
    BY CountedIsFinite DEF RepliesTypeOK
  <1>3. ~cleared => fails >= Cardinality(Counted')
    BY <1>1, <1>2 DEF IFlags
  <1>4. QED
    BY <1>3 DEF IFlags

\* A page reads the count, or shows the one it read.
LEMMA FlagsBrowse == ASSUME RepliesTypeOK, IFlags, Browse PROVE IFlags'
  <1>1. at' = at /\ fails' = fails /\ cleared' = cleared
    BY BrowseFrame DEF server
  <1>2. Failed' = Failed /\ Counted' = Counted
    BY <1>1 DEF Failed, Counted
  <1>3. CASE \E p \in Pages : ReadInbox(p)
    <2>1. PICK p \in Pages : ReadInbox(p)
      BY <1>3
    <2>2. ~cleared => Counted = {} \/ fails > 0
      <3>1. SUFFICES ASSUME ~cleared, Counted # {} PROVE fails > 0
        OBVIOUS
      <3>2. Cardinality(Counted) # 0
        BY <3>1, CountedIsFinite, FS_EmptySet
      <3>3. fails \in Nat /\ fails >= Cardinality(Counted) /\ Cardinality(Counted) \in Nat
        BY <3>1, CountedIsFinite DEF IFlags, RepliesTypeOK
      <3>4. QED
        BY <3>2, <3>3
    <2>3. \A a \in inboxes' : \/ a \in inboxes
                             \/ (a.unsaid = Replies \ Counted /\ a.count = fails)
      BY <2>1 DEF ReadInbox
    <2>4. ~cleared => \A a \in inboxes' : Replies \subseteq a.unsaid \/ a.count > 0
      BY <2>2, <2>3 DEF IFlags
    <2>5. UNCHANGED <<flag, unflagged>>
      BY <2>1 DEF ReadInbox, history
    <2>6. Cardinality(Counted') = Cardinality(Counted)
      BY <1>2
    <2>7. QED
      BY <1>1, <1>2, <2>4, <2>5, <2>6 DEF IFlags
  <1>4. CASE \E a \in inboxes : InboxArrives(a)
    <2>1. PICK a \in inboxes : InboxArrives(a)
      BY <1>4
    <2>2. ASSUME ~cleared, NEW p \in Pages PROVE Failed \subseteq unflagged'[p] \/ flag'[p] > 0
      <3>1. CASE p # a.page
        <4>1. flag'[p] = flag[p] /\ unflagged'[p] = unflagged[p]
          BY <2>1, <3>1 DEF InboxArrives, RepliesTypeOK
        <4>2. QED
          BY <2>2, <4>1 DEF IFlags
      <3>2. CASE p = a.page
        <4>1. flag'[p] = a.count /\ unflagged'[p] = {r \in a.unsaid : at[r] = "failed"}
          BY <2>1, <3>2 DEF InboxArrives, RepliesTypeOK
        <4>2. Replies \subseteq a.unsaid \/ a.count > 0
          BY <2>2 DEF IFlags
        <4>3. QED
          BY <4>1, <4>2 DEF Failed
      <3>3. QED
        BY <3>1, <3>2
    <2>3. inboxes' \subseteq inboxes
      BY <2>1 DEF InboxArrives
    <2>4. Cardinality(Counted') = Cardinality(Counted)
      BY <1>2
    <2>5. QED
      BY <1>1, <1>2, <2>2, <2>3, <2>4 DEF IFlags
  <1>5. CASE (\E p \in Pages : ReadList(p)) \/ (\E a \in lists : ListArrives(a))
    <2>1. UNCHANGED <<flag, inboxes, unflagged>>
      BY <1>5 DEF ReadList, ListArrives, history
    <2>2. QED
      BY <1>1, <1>2, <2>1, FlagsFrame
  <1>6. QED
    BY <1>3, <1>4, <1>5 DEF Browse

LEMMA FlagsReply == ASSUME RepliesTypeOK, IFlags, NEW r \in Replies, Reply(r) PROVE IFlags'
  <1>1. \A s \in Replies \ {r} : at'[s] = at[s]
    BY DEF Reply, Ask, FindParent, Store, Record, SendAccepted, SendRefused, SendUnheard,
           Mark, Clear, Tell, TellFailed, Count, RaiseFlag, Break, Proceed, RepliesTypeOK
  <1>2. \A step : Proceed(r, step) => at'[r] = step
    BY DEF Proceed, RepliesTypeOK
  <1>3. CASE Count(r)
    <2>1. Counted' = Counted \cup {r} /\ r \notin Counted /\ Failed' = Failed
      BY <1>1, <1>2, <1>3 DEF Count, Counted, Failed
    <2>2. Cardinality(Counted') = Cardinality(Counted) + 1
      BY <2>1, CountedIsFinite, FS_AddElement
    <2>3. fails \in Nat /\ fails' = fails + 1 /\ Cardinality(Counted) \in Nat
      BY <1>3, CountedIsFinite DEF Count, RepliesTypeOK
    <2>4. ~cleared => fails' >= Cardinality(Counted')
      BY <2>2, <2>3 DEF IFlags
    <2>5. UNCHANGED <<flag, inboxes, unflagged, cleared>>
      BY <1>3 DEF Count, clients, history
    <2>6. QED
      BY <2>1, <2>4, <2>5 DEF IFlags
  <1>4. CASE RaiseFlag(r)
    <2>1. Counted' = Counted
      BY <1>1, <1>2, <1>4 DEF RaiseFlag, Counted
    <2>2. Failed' = Failed \cup {r}
      BY <1>1, <1>2, <1>4 DEF RaiseFlag, Failed
    <2>3. seen[r] + 1 > 0
      BY DEF RepliesTypeOK
    <2>4. PICK heard \in SUBSET Pages :
              FlagOn(heard, r) /\ (unflagged' = Without(unflagged, heard, r)
                                   \/ (heard = Pages /\ unflagged' = unflagged))
      <3>1. Pages \in SUBSET Pages
        OBVIOUS
      <3>2. QED
        BY <1>4, <3>1 DEF RaiseFlag
    <2>5. ASSUME ~cleared, NEW p \in Pages PROVE Failed' \subseteq unflagged'[p] \/ flag'[p] > 0
      <3>1. CASE p \in heard
        BY <2>3, <2>4, <3>1 DEF FlagOn
      <3>2. CASE p \notin heard
        <4>1. flag'[p] = flag[p] /\ unflagged'[p] = unflagged[p] \cup {r}
          BY <2>4, <3>2 DEF FlagOn, Without
        <4>2. QED
          BY <2>2, <2>5, <4>1 DEF IFlags
      <3>3. QED
        BY <3>1, <3>2
    <2>6. UNCHANGED <<fails, inboxes, cleared>>
      BY <1>4 DEF RaiseFlag
    <2>7. Cardinality(Counted') = Cardinality(Counted)
      BY <2>1
    <2>8. QED
      BY <2>5, <2>6, <2>7 DEF IFlags
  <1>5. CASE Clear(r)
    BY <1>5 DEF Clear, IFlags
  <1>6. CASE Ask(r) \/ FindParent(r) \/ Store(r) \/ Record(r) \/ Mark(r) \/ Tell(r)
             \/ SendAccepted(r) \/ SendRefused(r) \/ SendUnheard(r)
    <2>1. at[r] \notin {"flag", "failed"} /\ at'[r] \notin {"flag", "failed"}
      BY <1>2, <1>6 DEF Ask, FindParent, Store, Record, Mark, Tell, SendAccepted, SendRefused,
         SendUnheard, AfterSend, AfterRefusal
    <2>2. Failed' = Failed /\ Counted' = Counted
      BY <1>1, <2>1 DEF Failed, Counted
    <2>3. UNCHANGED <<fails, flag, inboxes, unflagged, cleared>>
      BY <1>6 DEF Ask, FindParent, Store, Record, Mark, Tell, SendAccepted, SendRefused,
         SendUnheard, clients, history
    <2>4. QED
      BY <2>2, <2>3, FlagsFrame
  <1>7. CASE TellFailed(r) \/ Break(r)
    <2>1. at[r] # "failed" /\ at'[r] \notin {"flag", "failed"}
      BY <1>2, <1>7 DEF TellFailed, Break, Busy
    <2>2. Failed' = Failed /\ Counted' \subseteq Counted
      BY <1>1, <2>1 DEF Failed, Counted
    <2>3. UNCHANGED <<fails, flag, inboxes, unflagged, cleared>>
      BY <1>7 DEF TellFailed, Break, clients, history
    <2>4. QED
      BY <2>2, <2>3, FlagsFrame
  <1>8. QED
    BY <1>3, <1>4, <1>5, <1>6, <1>7 DEF Reply

LEMMA FlagsLetter == ASSUME RepliesTypeOK, IFlags, NEW m \in Mails, Letter(m) PROVE IFlags'
  <1>1. CASE Reopen(m)
    BY <1>1 DEF Reopen, IFlags
  <1>2. CASE ~Reopen(m)
    <2>1. UNCHANGED <<fails, flag, inboxes, unflagged, cleared, at>>
      BY <1>2 DEF Letter, Arrive, StoreLetter, RecordLetter, TellLetter, clients, history
    <2>2. Failed' = Failed /\ Counted' = Counted
      BY <2>1 DEF Failed, Counted
    <2>3. QED
      BY <2>1, <2>2, FlagsFrame
  <1>3. QED
    BY <1>1, <1>2

LEMMA FlagsNext == ASSUME RepliesTypeOK, IFlags, [RepliesNext]_repliesVars PROVE IFlags'
  <1>1. CASE UNCHANGED repliesVars
    <2>1. UNCHANGED <<fails, flag, inboxes, unflagged, cleared, at>>
      BY <1>1 DEF repliesVars, server, clients, history
    <2>2. Failed' = Failed /\ Counted' = Counted
      BY <2>1 DEF Failed, Counted
    <2>3. QED
      BY <2>1, <2>2, FlagsFrame
  <1>2. QED
    BY <1>1, FlagsReply, FlagsLetter, FlagsBrowse DEF RepliesNext, Browse

LEMMA FlagsSay == ASSUME RepliesTypeOK, IFlags PROVE FailuresAreFlagged
  <1>1. Failed \subseteq Counted
    BY DEF Failed, Counted
  <1>2. Cardinality(Failed) <= Cardinality(Counted) /\ Cardinality(Failed) \in Nat
    BY <1>1, CountedIsFinite, FS_Subset, FS_CardinalityType
  <1>3. fails \in Nat /\ Cardinality(Counted) \in Nat
    BY CountedIsFinite DEF RepliesTypeOK
  <1>4. QED
    BY <1>2, <1>3 DEF IFlags, FailuresAreFlagged

\* Failures of any number of overlapping replies are all counted, and flagged on every
\* page but where an event was not heard or an older answer arrived over it.
THEOREM AllFailuresAreFlagged == RepliesSpec => []FailuresAreFlagged
  <1>1. RepliesInit => RepliesTypeOK /\ IFlags
    BY TypesInit, FlagsInit
  <1>2. RepliesTypeOK /\ IFlags /\ [RepliesNext]_repliesVars => RepliesTypeOK' /\ IFlags'
    BY TypesNext, FlagsNext
  <1>3. RepliesTypeOK /\ IFlags => FailuresAreFlagged
    BY FlagsSay
  <1>4. QED
    BY <1>1, <1>2, <1>3, PTL DEF RepliesSpec
-----------------------------------------------------------------------------
(***************************************************************************)
(* What the pages show.                                                    *)
(***************************************************************************)

LEMMA ShownInit == RepliesInit => IShown
  BY DEF RepliesInit, IShown, ShownTrue

\* A broadcast of one message changes nothing about another.
LEMMA ShowKeeps ==
  ASSUME NEW told \in SUBSET Pages, NEW x \in Ids, ShowOn(told, x), NEW p \in Pages, NEW c,
         c.id # x
  PROVE  c \in shown'[p] <=> c \in shown[p]
  BY DEF ShowOn, AddMessage, BubbleOf

\* It puts the message on each page told that has none of this id.
LEMMA ShowAdds ==
  ASSUME RepliesTypeOK, NEW told \in SUBSET Pages, NEW x \in Ids, ShowOn(told, x), NEW p \in Pages,
         \A b \in shown[p] : b.id # x
  PROVE  /\ \A b \in shown'[p] : b.id = x => b = BubbleOf(x)
         /\ p \in told => BubbleOf(x) \in shown'[p]
  BY DEF ShowOn, AddMessage, BubbleOf

LEMMA ShownFrame ==
  ASSUME IShown, NEW p \in Pages, NEW s \in Replies,
         channel' = channel, at'[s] = at[s], status'[s] = status[s],
         s \in missed[p] => s \in missed'[p],
         \A c : c.id = s => (c \in shown'[p] <=> c \in shown[p])
  PROVE  ShownTrue(p, s)'
  <1>1. ShownTrue(p, s)
    BY DEF IShown
  <1>2. BubbleOf(s)' = BubbleOf(s) /\ BubbleOf(s).id = s
    BY DEF BubbleOf, StatusOf
  <1>3. Others(s)' = Others(s)
    BY DEF Others
  <1>4. QED
    BY <1>1, <1>2, <1>3 DEF ShownTrue

LEMMA ShownReply == ASSUME RepliesTypeOK, IShown, NEW r \in Replies, Reply(r) PROVE IShown'
  <1> SUFFICES ASSUME NEW p \in Pages PROVE \A s \in Replies : ShownTrue(p, s)'
    BY DEF IShown
  <1>1. r \in Ids /\ Others(r) \subseteq Pages /\ SentFrom[r] \in Pages
    BY RepliesAssumption DEF Ids, Others
  <1>2. \A s \in Replies \ {r} : at'[s] = at[s] /\ status'[s] = status[s]
    BY DEF Reply, Ask, FindParent, Store, Record, SendAccepted, SendRefused, SendUnheard,
           Mark, Clear, Tell, TellFailed, Count, RaiseFlag, Break, Proceed, RepliesTypeOK
  <1>3. channel' = channel
    BY DEF Reply, Ask, FindParent, Store, Record, SendAccepted, SendRefused, SendUnheard,
           Mark, Clear, Tell, TellFailed, Count, RaiseFlag, Break
  <1>4. \A step : Proceed(r, step) => at'[r] = step
    BY DEF Proceed, RepliesTypeOK
  <1>5. BubbleOf(r).id = r /\ Others(r)' = Others(r)
        /\ (status'[r] = status[r] => BubbleOf(r)' = BubbleOf(r))
    BY DEF BubbleOf, StatusOf, Others
  <1>6. ShownTrue(p, r)
    BY DEF IShown
  <1>7. CASE Tell(r) \/ TellFailed(r)
    <2>1. status' = status
      BY <1>7 DEF Tell, TellFailed
    <2>2. r \notin missed[p] => \A b \in shown[p] : b.id # r
      BY <1>6, <1>7 DEF ShownTrue, Tell, TellFailed
    <2>3. PICK told \in SUBSET Pages :
              /\ ShowOn(told, r)
              /\ missed[p] \subseteq missed'[p]
              /\ p \in told \/ r \in missed'[p] \/ (Tell(r) /\ p \notin Others(r) \cup {SentFrom[r]})
      <3> DEFINE Heard(told, anyway) ==
            \E heard \in SUBSET told :
              /\ ShowOn(heard \cup anyway, r)
              /\ missed' = Without(missed, heard \cup anyway, r)
      <3>1. CASE Tell(r)
        <4>1. Others(r) \cup {SentFrom[r]} \in SUBSET Pages
          BY <1>1
        <4>2. CASE ShowOn(Others(r) \cup {SentFrom[r]}, r) /\ UNCHANGED <<mishaps, missed>>
          BY <3>1, <4>1, <4>2
        <4>3. CASE Heard(Others(r), {SentFrom[r]})
          <5>1. PICK heard \in SUBSET Others(r) :
                    /\ ShowOn(heard \cup {SentFrom[r]}, r)
                    /\ missed' = Without(missed, heard \cup {SentFrom[r]}, r)
            BY <4>3
          <5>2. heard \cup {SentFrom[r]} \in SUBSET Pages
            BY <4>1
          <5>3. /\ missed[p] \subseteq missed'[p]
                /\ p \in heard \cup {SentFrom[r]} \/ r \in missed'[p]
            BY <5>1 DEF Without
          <5>4. QED
            BY <5>1, <5>2, <5>3
        <4>4. QED
          BY <3>1, <4>2, <4>3 DEF Tell, Announce
      <3>2. CASE TellFailed(r)
        <4>1. CASE ShowOn(Pages \cup {}, r) /\ UNCHANGED <<mishaps, missed>>
          BY <4>1
        <4>2. CASE Heard(Pages, {})
          <5>1. PICK heard \in SUBSET Pages :
                    ShowOn(heard \cup {}, r) /\ missed' = Without(missed, heard \cup {}, r)
            BY <4>2
          <5>2. heard \cup {} \in SUBSET Pages
            OBVIOUS
          <5>3. missed[p] \subseteq missed'[p] /\ (p \in heard \cup {} \/ r \in missed'[p])
            BY <5>1 DEF Without
          <5>4. QED
            BY <5>1, <5>2, <5>3
        <4>3. QED
          BY <3>2, <4>1, <4>2 DEF TellFailed, Announce
      <3>3. QED
        BY <1>7, <3>1, <3>2
    <2>4. ASSUME NEW s \in Replies \ {r} PROVE ShownTrue(p, s)'
      <3>1. \A c : c.id = s => (c \in shown'[p] <=> c \in shown[p])
        BY <1>1, <2>3, <2>4, ShowKeeps
      <3>2. QED
        BY <1>2, <1>3, <2>3, <2>4, <3>1, ShownFrame
    <2>5. ShownTrue(p, r)'
      <3>1. SUFFICES ASSUME r \notin missed'[p]
                     PROVE  /\ \A b \in shown'[p] : b.id = r =>
                                 at'[r] \in {"count", "flag", "done", "failed", "broken"}
                                 /\ b = BubbleOf(r)'
                            /\ p \in Others(r)' \cup {SentFrom[r]}
                               /\ (at'[r] = "done"
                                   \/ (channel' = "email" /\ at'[r] \in {"count", "flag", "failed"}))
                               => BubbleOf(r)' \in shown'[p]
        BY DEF ShownTrue
      <3>2. \A b \in shown[p] : b.id # r
        BY <2>2, <2>3, <3>1
      <3>3. /\ \A b \in shown'[p] : b.id = r => b = BubbleOf(r)
            /\ p \in told => BubbleOf(r) \in shown'[p]
        BY <1>1, <2>3, <3>2, ShowAdds
      <3>4. at'[r] \in {"done", "count"}
        BY <1>4, <1>7 DEF Tell, TellFailed
      <3>5. QED
        BY <1>5, <2>1, <2>3, <3>1, <3>3, <3>4
    <2>6. QED
      BY <2>4, <2>5
  <1>8. CASE ~Tell(r) /\ ~TellFailed(r)
    <2>1. shown' = shown /\ missed' = missed
      BY <1>8 DEF Reply, Ask, FindParent, Store, Record, SendAccepted, SendRefused, SendUnheard,
         Mark, Clear, Count, RaiseFlag, Break, clients, history
    <2>2. \A s \in Replies \ {r} : ShownTrue(p, s)'
      BY <1>2, <1>3, <2>1, ShownFrame
    <2>3. ASSUME Ask(r) \/ FindParent(r) \/ Store(r) \/ Record(r) \/ SendAccepted(r)
                 \/ SendRefused(r) \/ SendUnheard(r) \/ Mark(r) \/ Clear(r)
          PROVE  ShownTrue(p, r)'
      <3>1. at[r] \notin {"count", "flag", "done", "failed", "broken"}
        BY <2>3 DEF Ask, FindParent, Store, Record, SendAccepted, SendRefused, SendUnheard,
           Mark, Clear
      <3>2. at'[r] \notin {"flag", "done", "failed"} /\ (at'[r] = "count" => channel # "email")
        BY <1>4, <2>3 DEF Ask, FindParent, Store, Record, SendAccepted, SendRefused,
           SendUnheard, Mark, Clear, AfterSend, AfterRefusal
      <3>3. r \notin missed'[p] => \A b \in shown'[p] : b.id # r
        BY <1>6, <2>1, <3>1 DEF ShownTrue
      <3>4. ~(at'[r] = "done" \/ (channel' = "email" /\ at'[r] \in {"count", "flag", "failed"}))
        BY <1>3, <3>2
      <3>5. QED
        BY <3>3, <3>4 DEF ShownTrue
    <2>4. ASSUME Count(r) \/ RaiseFlag(r) \/ Break(r)
          PROVE  ShownTrue(p, r)'
      <3>1. status' = status
        BY <2>4 DEF Count, RaiseFlag, Break
      <3>2. \/ at[r] \in {"count", "flag"} /\ at'[r] \in {"flag", "failed"}
            \/ at'[r] = "broken"
        BY <1>4, <2>4 DEF Count, RaiseFlag, Break
      <3>3. BubbleOf(r)' = BubbleOf(r) /\ Others(r)' = Others(r)
        BY <1>5, <3>1
      <3>4. r \notin missed'[p] => \A b \in shown'[p] : b.id = r =>
                at'[r] \in {"flag", "failed", "broken"} /\ b = BubbleOf(r)'
        BY <1>6, <2>1, <3>2, <3>3 DEF ShownTrue
      <3>5. r \notin missed'[p] =>
                (p \in Others(r)' \cup {SentFrom[r]}
                 /\ (at'[r] = "done" \/ (channel' = "email" /\ at'[r] \in {"count", "flag", "failed"}))
                 => BubbleOf(r)' \in shown'[p])
        BY <1>3, <1>6, <2>1, <3>2, <3>3 DEF ShownTrue
      <3>6. QED
        BY <3>4, <3>5 DEF ShownTrue
    <2>5. ShownTrue(p, r)'
      BY <1>8, <2>3, <2>4 DEF Reply
    <2>6. QED
      BY <2>2, <2>5
  <1>9. QED
    BY <1>7, <1>8

LEMMA ShownLetter == ASSUME RepliesTypeOK, IShown, NEW m \in Mails, Letter(m) PROVE IShown'
  <1> SUFFICES ASSUME NEW p \in Pages, NEW s \in Replies PROVE ShownTrue(p, s)'
    BY DEF IShown
  <1>1. m \in Ids /\ m # s
    BY RepliesAssumption DEF Ids
  <1>2. UNCHANGED <<channel, at, status, missed>>
    BY DEF Letter, Arrive, Reopen, StoreLetter, RecordLetter, TellLetter, history
  <1>3. shown' = shown \/ ShowOn(Pages, m)
    BY DEF Letter, Arrive, Reopen, StoreLetter, RecordLetter, TellLetter, clients
  <1>4. \A c : c.id = s => (c \in shown'[p] <=> c \in shown[p])
    BY <1>1, <1>3, ShowKeeps
  <1>5. QED
    BY <1>2, <1>4, ShownFrame

\* Answers under way stay true: what has ended changes no more.
LEMMA AnswersInit == RepliesInit => IAnswers
  BY DEF RepliesInit, IAnswers

LEMMA AnswersFrame ==
  ASSUME NEW a, NEW r \in Replies, AnswerTrue(a, r), channel' = channel,
         at'[r] = at[r], status'[r] = status[r]
  PROVE  AnswerTrue(a, r)'
  <1>1. BubbleOf(r)' = BubbleOf(r)
    BY DEF BubbleOf, StatusOf
  <1>2. QED
    BY <1>1 DEF AnswerTrue

LEMMA AnswersReply == ASSUME RepliesTypeOK, IAnswers, NEW r \in Replies, Reply(r) PROVE IAnswers'
  <1>1. \A s \in Replies \ {r} : at'[s] = at[s] /\ status'[s] = status[s]
    BY DEF Reply, Ask, FindParent, Store, Record, SendAccepted, SendRefused, SendUnheard,
           Mark, Clear, Tell, TellFailed, Count, RaiseFlag, Break, Proceed, RepliesTypeOK
  <1>2. channel' = channel /\ lists' = lists
    BY DEF Reply, Ask, FindParent, Store, Record, SendAccepted, SendRefused, SendUnheard,
           Mark, Clear, Tell, TellFailed, Count, RaiseFlag, Break, clients
  <1>3. at[r] \notin {"done", "failed", "broken"}
    BY DEF Reply, Ask, FindParent, Store, Record, SendAccepted, SendRefused, SendUnheard,
           Mark, Clear, Tell, TellFailed, Count, RaiseFlag, Break, Busy
  <1>4. at'[r] # "idle"
    <2>1. \A step : Proceed(r, step) => at'[r] = step
      BY DEF Proceed, RepliesTypeOK
    <2>2. QED
      BY <2>1 DEF Reply, Ask, FindParent, Store, Record, SendAccepted, SendRefused, SendUnheard,
         Mark, Clear, Tell, TellFailed, Count, RaiseFlag, Break, AfterSend, AfterRefusal
  <1>5. ASSUME NEW a \in lists, NEW s \in Replies PROVE AnswerTrue(a, s)'
    <2>1. AnswerTrue(a, s)
      BY DEF IAnswers
    <2>2. CASE s # r
      BY <1>1, <1>2, <2>1, <2>2, AnswersFrame
    <2>3. CASE s = r
      BY <1>3, <1>4, <2>1, <2>3 DEF AnswerTrue
    <2>4. QED
      BY <2>2, <2>3
  <1>6. QED
    BY <1>2, <1>5 DEF IAnswers

\* What is read of a reply, and what is old in it when it began meanwhile.
LEMMA AnswersRead == ASSUME RepliesTypeOK, IRecord, IAnswers, Browse PROVE IAnswers'
  <1>1. UNCHANGED <<channel, at, status>>
    BY BrowseFrame DEF server
  <1>2. ASSUME NEW a \in lists, NEW s \in Replies PROVE AnswerTrue(a, s)'
    <2>1. AnswerTrue(a, s)
      BY DEF IAnswers
    <2>2. QED
      BY <1>1, <2>1, AnswersFrame
  <1>3. ASSUME NEW p \in Pages, ReadList(p), NEW a \in lists' \ lists, NEW s \in Replies
        PROVE AnswerTrue(a, s)'
    <2>1. a.list = {BubbleOf(x) : x \in Listed}
          /\ a.gap = {r \in Replies : at[r] \in Busy \cup {"idle"}}
      BY <1>3 DEF ReadList
    <2>2. /\ \A x : BubbleOf(x).id = x
          /\ BubbleOf(s)' = BubbleOf(s)
      BY <1>1 DEF BubbleOf, StatusOf
    <2>3. \A b \in a.list : b.id = s => s \in Listed /\ b = BubbleOf(s)
      BY <2>1, <2>2
    <2>4. s \notin a.gap => at[s] \in {"done", "failed", "broken"}
      BY <2>1 DEF RepliesTypeOK, Resting
    <2>5. /\ at[s] = "idle" => s \notin Listed
          /\ at[s] = "done" \/ (channel = "email" /\ at[s] = "failed") => s \in Listed
      BY DEF IRecord, EmailOnRecord, ChatOnRecord, Recorded
    <2>6. AnswerTrue(a, s)
      BY <2>1, <2>3, <2>4, <2>5 DEF AnswerTrue
    <2>7. QED
      BY <1>1, <2>6, AnswersFrame
  <1>4. \A a \in lists' : a \in lists \/ \E p \in Pages : ReadList(p)
    BY DEF Browse, ReadInbox, InboxArrives, ListArrives
  <1>5. QED
    BY <1>2, <1>3, <1>4 DEF IAnswers

LEMMA AnswersNext ==
  ASSUME RepliesTypeOK, IRecord, IAnswers, [RepliesNext]_repliesVars PROVE IAnswers'
  <1>1. CASE UNCHANGED repliesVars \/ \E m \in Mails : Letter(m)
    <2>1. UNCHANGED <<channel, at, status, lists>>
      BY <1>1 DEF repliesVars, server, clients, Letter, Arrive, Reopen, StoreLetter, RecordLetter,
         TellLetter
    <2>2. \A a \in lists, s \in Replies : AnswerTrue(a, s)'
      BY <2>1, AnswersFrame DEF IAnswers
    <2>3. QED
      BY <2>1, <2>2 DEF IAnswers
  <1>2. QED
    BY <1>1, AnswersReply, AnswersRead DEF RepliesNext, Browse

LEMMA ShownBrowse == ASSUME RepliesTypeOK, IAnswers, IShown, Browse PROVE IShown'
  <1> SUFFICES ASSUME NEW p \in Pages, NEW s \in Replies PROVE ShownTrue(p, s)'
    BY DEF IShown
  <1>1. UNCHANGED <<channel, at, status>>
    BY BrowseFrame DEF server
  <1>2. ASSUME shown'[p] = shown[p], missed'[p] = missed[p] PROVE ShownTrue(p, s)'
    BY <1>1, <1>2, ShownFrame
  <1>3. ASSUME NEW a \in lists, ListArrives(a), p = a.page PROVE ShownTrue(p, s)'
    <2>1. shown'[p] = a.list /\ missed'[p] = {r \in a.gap : at[r] # "idle"}
      BY <1>3 DEF ListArrives, RepliesTypeOK
    <2>2. AnswerTrue(a, s)
      BY DEF IAnswers
    <2>3. BubbleOf(s)' = BubbleOf(s)
      BY <1>1 DEF BubbleOf, StatusOf
    <2>4. QED
      BY <1>1, <2>1, <2>2, <2>3 DEF ShownTrue, AnswerTrue
  <1>4. ASSUME NEW a \in lists, ListArrives(a), p # a.page PROVE ShownTrue(p, s)'
    <2>1. shown'[p] = shown[p] /\ missed'[p] = missed[p]
      BY <1>4 DEF ListArrives, RepliesTypeOK
    <2>2. QED
      BY <1>2, <2>1
  <1>5. ASSUME (\E q \in Pages : ReadInbox(q) \/ ReadList(q)) \/ (\E a \in inboxes : InboxArrives(a))
        PROVE  ShownTrue(p, s)'
    <2>1. shown' = shown /\ missed' = missed
      BY <1>5 DEF ReadInbox, ReadList, InboxArrives, history
    <2>2. QED
      BY <1>2, <2>1
  <1>6. QED
    BY <1>3, <1>4, <1>5 DEF Browse

LEMMA ShownNext == ASSUME RepliesTypeOK, IAnswers, IShown, [RepliesNext]_repliesVars PROVE IShown'
  <1>1. CASE UNCHANGED repliesVars
    <2>1. UNCHANGED <<channel, at, status, shown, missed>>
      BY <1>1 DEF repliesVars, server, clients, history
    <2>2. \A p \in Pages, s \in Replies : ShownTrue(p, s)'
      BY <2>1, ShownFrame
    <2>3. QED
      BY <2>2 DEF IShown
  <1>2. QED
    BY <1>1, ShownReply, ShownLetter, ShownBrowse DEF RepliesNext, Browse

LEMMA ShownSays == ASSUME IShown PROVE PagesShowTheOutcome
  <1>1. \A r \in Replies : Others(r) \cup {SentFrom[r]} \subseteq Pages
    BY RepliesAssumption DEF Others
  <1>2. QED
    BY <1>1 DEF IShown, ShownTrue, PagesShowTheOutcome

\* For any number of pages and agents: when nothing runs, a page that saw a reply
\* begin and was told of it shows it with the status the table has.
THEOREM OutcomesAreShown == RepliesSpec => []PagesShowTheOutcome
  <1> DEFINE Inv == RepliesTypeOK /\ IRecord /\ IAnswers /\ IShown
  <1>1. RepliesInit => Inv
    BY TypesInit, RecordInit, AnswersInit, ShownInit
  <1>2. Inv /\ [RepliesNext]_repliesVars => Inv'
    BY TypesNext, RecordNext, AnswersNext, ShownNext
  <1>3. Inv => PagesShowTheOutcome
    BY ShownSays
  <1>4. QED
    BY <1>1, <1>2, <1>3, PTL DEF RepliesSpec
=============================================================================
