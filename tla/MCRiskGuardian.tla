--------------------------- MODULE MCRiskGuardian ---------------------------
(* Small instances of RiskGuardian.  One time unit stands for the common    *)
(* divisor of the windows; equity 8 of 10 is a breach of the 20 % limits.   *)
EXTENDS RiskGuardian

\* A target at the position limit and one beyond it.
TargetFractions == {50, 90}
\* Equity at the start, at the loss limit, and wiped out.
ReportedEquities == {0, 8, 10}
EquitiesAroundTheLimit == {8, 10}
\* An order within half of an equity of 10, and one beyond it.
ProposedCosts == {4, 8}
ReportedDrawdowns == {0, 20}
Reliable == {TRUE}
LoopOnly == {"check"}
EveryCaller == {"check", "order", "equity"}
=============================================================================
