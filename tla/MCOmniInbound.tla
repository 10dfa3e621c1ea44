--------------------------- MODULE MCOmniInbound ---------------------------
\* A customer writes, and refers to that mail in a second one.
EXTENDS OmniInbound, TLC

CONSTANTS a1, a2, ann, m1, m2, s1

MCSymmetry == Permutations(Attempts)

MCSentBy == [m \in Mails |-> ann]
MCSubject == [m \in Mails |-> s1]
MCRefersTo == [m \in Mails |-> IF m = m2 THEN m1 ELSE NONE]
=============================================================================
