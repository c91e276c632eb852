-------------------------------- MODULE MCFlow --------------------------------
(* Model values for model-checking Flow. *)
EXTENDS Flow

CONSTANTS c1, c2, NULL

TwoClients == {c1, c2}
=============================================================================
