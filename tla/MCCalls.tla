------------------------------ MODULE MCCalls ------------------------------
\* Calls between Ann, on one tab, and Bob, on a tab each.
EXTENDS Calls

CONSTANTS ann, bob, a1, b1, k1, k2

MCUserOf == [c \in Clients |-> IF c = a1 THEN ann ELSE bob]
\* The first call is Ann's; the second is her next one or Bob's.
MCMadeBy == [k \in CallIds |-> IF k = k1 THEN {a1} ELSE {a1, b1}]
=============================================================================
