---------------------------- MODULE MCQuarantine ----------------------------
(* Small instances of Quarantine for TLC. *)
EXTENDS Quarantine

\* Failures that are retried, by the broker or by the next request, or that
\* only leave a mark unset.
Retried == {"redeliver", "analyse", "analyserCrash", "analyserMark",
            "upsert", "markPromoted", "check", "load", "promoterPublish",
            "promoterMark",
            "listenerCrash"}
=============================================================================
