------------------------ MODULE MCPromotionPipeline ------------------------
(* Two agents of different algorithms, each named after its own. *)
EXTENDS PromotionPipeline

CONSTANTS ppo, dqn

MCAlgorithm == [a \in {ppo, dqn} |-> a]
=============================================================================
