------------------------------ MODULE WorkDay -------------------------------
(***************************************************************************)
(* What the attendance part promises of one employee's day                 *)
(* (Attendance.service.ts:5-13, docs/IMPLEMENTATION_STATUS.md:182-185):    *)
(* one clock-in, breaks that do not overlap and lie inside the day, one    *)
(* clock-out, and nothing that was recorded is recorded again.  Every step *)
(* is one indivisible change of one employee's day; Attendance shows that  *)
(* the chains of statements of the service implement it until two clock or *)
(* break requests of an employee overlap.                                  *)
(***************************************************************************)
EXTENDS Naturals

CONSTANTS
    Employees,
    Last        \* the last moment of the day

VARIABLES
    phase,      \* where the day of each employee is
    clockIn,    \* when it began, 0 before
    clockOut    \* when it ended, 0 before

dayVars == <<phase, clockIn, clockOut>>

Phases == {"new", "working", "break", "done"}

DayInit ==
    /\ phase = [e \in Employees |-> "new"]
    /\ clockIn = [e \in Employees |-> 0]
    /\ clockOut = [e \in Employees |-> 0]

Arrive(e) ==
    /\ phase[e] = "new"
    /\ phase' = [phase EXCEPT ![e] = "working"]
    /\ \E t \in 1..Last : clockIn' = [clockIn EXCEPT ![e] = t]
    /\ UNCHANGED clockOut

Pause(e) ==
    /\ phase[e] = "working"
    /\ phase' = [phase EXCEPT ![e] = "break"]
    /\ UNCHANGED <<clockIn, clockOut>>

Resume(e) ==
    /\ phase[e] = "break"
    /\ phase' = [phase EXCEPT ![e] = "working"]
    /\ UNCHANGED <<clockIn, clockOut>>

\* nobody leaves from a break, or before having come
Leave(e) ==
    /\ phase[e] = "working"
    /\ phase' = [phase EXCEPT ![e] = "done"]
    /\ \E t \in 1..Last : t >= clockIn[e] /\ clockOut' = [clockOut EXCEPT ![e] = t]
    /\ UNCHANGED clockIn

DayNext == \E e \in Employees : Arrive(e) \/ Pause(e) \/ Resume(e) \/ Leave(e)

DaySpec == DayInit /\ [][DayNext]_dayVars
=============================================================================
