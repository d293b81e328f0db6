-------------------------- MODULE MCAnswerPipeline --------------------------
(* A small instance of AnswerPipeline: every session has its own session id. *)
EXTENDS AnswerPipeline

MCSessionId == [k \in Keys |-> k]
=============================================================================
