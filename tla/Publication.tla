----------------------------- MODULE Publication -----------------------------
(***************************************************************************)
(* What announcements promise their audience, and all of it: each is       *)
(* written once, as a draft or live; a draft may go live, what is live     *)
(* never becomes a draft again, and what was removed does not return.      *)
(* Recipients are notified of what has gone live only, and by the          *)
(* scheduler once.  Module Announcements implements it with requests,      *)
(* overlapping runs, failures and restarts between their statements.       *)
(***************************************************************************)
EXTENDS Naturals

CONSTANT Ids

VARIABLES
    stage,      \* of each announcement
    heard,      \* those recipients were notified of
    runs        \* how many runs of the scheduler announced each

Init ==
    /\ stage = [i \in Ids |-> "none"]
    /\ heard = {}
    /\ runs = [i \in Ids |-> 0]

Become(i, s) ==
    /\ stage' = [stage EXCEPT ![i] = s]
    /\ UNCHANGED <<heard, runs>>

Write(i) == stage[i] = "none" /\ \E s \in {"draft", "live"} : Become(i, s)
Publish(i) == stage[i] = "draft" /\ Become(i, "live")
Remove(i) == stage[i] \in {"draft", "live"} /\ Become(i, "gone")

\* whoever notifies may come after a removal
Public(i) == stage[i] \in {"live", "gone"}

Tell(i) ==
    /\ Public(i)
    /\ heard' = heard \cup {i}
    /\ UNCHANGED <<stage, runs>>

TellFromRun(i) ==
    /\ Public(i)
    /\ runs[i] = 0
    /\ heard' = heard \cup {i}
    /\ runs' = [runs EXCEPT ![i] = 1]
    /\ UNCHANGED stage

Next == \E i \in Ids : \/ Write(i) \/ Publish(i) \/ Remove(i)
                       \/ Tell(i) \/ TellFromRun(i)

Spec == Init /\ [][Next]_<<stage, heard, runs>>
=============================================================================
