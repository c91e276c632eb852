------------------------------ MODULE MCServer ------------------------------
(* Model values and symmetry for model-checking Server. *)
EXTENDS Server

CONSTANTS c1, c2, k1, k2, n1, n2, m1, NULL

TwoConn == {c1, c2}
Objs == {k1, k2}
TwoNames == {n1, n2}
OneMac == {m1}
OneObj == {k1}
OneName == {n1}

(* The three kinds of addresses and names are interchangeable. *)
Interchangeable ==
  Permutations(Conn) \cup Permutations(ClassObj) \cup Permutations(Name)
=============================================================================
