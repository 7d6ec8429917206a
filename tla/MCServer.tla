------------------------------ MODULE MCServer ------------------------------
\* What the live server depends on: the guardian its loop asks, and the model that
\* approvals swap into it.  They share no state: one of them is explored at a time,
\* while the other stays at its first state.
EXTENDS MCRiskGuardian, MCPromotionPipeline

VARIABLE topic

ServerInit == topic \in {"guardian", "model"} /\ Init /\ PromotionInit

ServerNext ==
    /\ UNCHANGED topic
    /\ \/ topic = "guardian" /\ Next          /\ UNCHANGED promotionVars
       \/ topic = "model"    /\ PromotionNext /\ UNCHANGED vars

\* The fairness of FairPromotionSpec, for the pipeline.
ServerFairness == \A p \in Approvers : WF_promotionVars(topic = "model" /\ ApproverStep(p))

ServerSpec == ServerInit /\ [][ServerNext]_<<topic, vars, promotionVars>> /\ ServerFairness
=============================================================================
