----------------------------- MODULE MCLogFiles -----------------------------
(* Model values for model-checking LogFiles. *)
EXTENDS LogFiles, TLC

CONSTANTS c1, c2, c3, NULL

Clients == {c1, c2, c3}
Interchangeable == Permutations(Clients)
=============================================================================
