------------------------- MODULE MCResumeAccounting -------------------------
(* ResumeAccounting under three configurations: capped effort, capped cost  *)
(* and capped time.                                                         *)
EXTENDS ResumeAccounting

EffortCaps == [turns |-> 3, calls |-> 2, cost |-> NoCap, time |-> FALSE]
SpendCap == [turns |-> NoCap, calls |-> NoCap, cost |-> 2, time |-> FALSE]
TimeCap == [turns |-> NoCap, calls |-> NoCap, cost |-> NoCap, time |-> TRUE]

AllCaps == {EffortCaps, SpendCap, TimeCap}
OnlyEffort == {EffortCaps}
OnlySpend == {SpendCap}
=============================================================================
