------------------------------ MODULE MCIngest ------------------------------
(* Small instances of Ingest for TLC. *)
EXTENDS Ingest, TLC

\* Requests and sources are interchangeable; payloads are not (one image is bad).
Interchangeable == Permutations(Requests) \cup Permutations(Sources)
=============================================================================
