----------------------------- MODULE MCReminders -----------------------------
\* Two reminders of Ann's, or two tasks she may be given.
EXTENDS Reminders

CONSTANTS ann, r1, r2, p1, p2

MCOwner == [k \in Keys |-> ann]
=============================================================================
