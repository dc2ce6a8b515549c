---------------------- MODULE MCJmsConsumerController -----------------------
(***************************************************************************)
(* Instance of JmsConsumerController for TLC.                              *)
(***************************************************************************)
EXTENDS JmsConsumerController
=============================================================================
