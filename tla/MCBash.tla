-------------------------------- MODULE MCBash --------------------------------
(* Model values and addresses for model-checking Bash. *)
EXTENDS Bash

CONSTANTS d1, d2, p1, p2, p3, p4, NULL

TwoDevices == {d1, d2}
OwnAddr == [d \in TwoDevices |-> d]
TwoMacs == [d \in TwoDevices |-> IF d = d1 THEN <<0, 17>> ELSE <<0, 18>>]
ThreeProcs == {p1, p2, p3}
FourProcs == {p1, p2, p3, p4}
=============================================================================
