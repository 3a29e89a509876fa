---------------------------- MODULE MCBroadcast ----------------------------
(* Small instances of Broadcast for TLC. *)
EXTENDS Broadcast, TLC

CONSTANTS f1, p1

HubOfClient == f1 :> "full" @@ p1 :> "public"
=============================================================================
