---------------------------- MODULE MCSubscriber ----------------------------
(* The instance of Subscriber for TLC. *)
EXTENDS Subscriber
=============================================================================
