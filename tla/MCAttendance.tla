---------------------------- MODULE MCAttendance ----------------------------
\* Eve, with two requests at once, and Max, who decides and looks at two dashboards.
EXTENDS Attendance, TLC

CONSTANTS eve, max, h1, h2, h3

MCUserOf == h1 :> eve @@ h2 :> eve @@ h3 :> max
MCSymmetry == {p @@ q : p \in Permutations({h1, h2}), q \in Permutations(Fills)}
=============================================================================
