---------------------------- MODULE MCKafkaClients --------------------------
(* Three callers, so that a commit, a close and a registration can meet one listener. *)
EXTENDS KafkaClients
=============================================================================
