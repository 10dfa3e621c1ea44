--------------------------- MODULE MCOmniReplies ---------------------------
\* Ann and Bob, each on a page of the inbox, answer one customer.
EXTENDS OmniReplies

CONSTANTS ann, bob, p1, p2, r1, r2, m1

MCSentFrom == [r \in Replies |-> IF r = r1 THEN p1 ELSE p2]
MCAgentOf == [p \in Pages |-> IF p = p1 THEN ann ELSE bob]

\* The agents trade places, with their pages and replies, or do not.
Agents == {ann, bob, p1, p2, r1, r2}
Other(x) == CASE x = ann -> bob [] x = p1 -> p2 [] x = r1 -> r2
              [] x = bob -> ann [] x = p2 -> p1 [] x = r2 -> r1
MCSymmetry == {[x \in Agents |-> IF swap THEN Other(x) ELSE x] : swap \in BOOLEAN}
=============================================================================
