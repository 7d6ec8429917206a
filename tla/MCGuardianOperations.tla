------------------------ MODULE MCGuardianOperations ------------------------
(* Small instances of GuardianOperations: one sleeve, two requests at a      *)
(* time, the kill switch as the way to halt.                                 *)
EXTENDS GuardianOperations, TLC

TargetFractions == {50}
ReportedEquities == {10}
ProposedCosts == {}
\* The kill switch is the limit that trips here; all limits raise a halt alike.
ReportedDrawdowns == {0}
Reliable == {TRUE}
LoopOnly == {"check"}
WorkerSymmetry == Permutations(Workers)
=============================================================================
