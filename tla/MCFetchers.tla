----------------------------- MODULE MCFetchers -----------------------------
(* Small instances of Fetchers for TLC. *)
EXTENDS Fetchers
=============================================================================
