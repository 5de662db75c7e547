-------------------------- MODULE MCClientInstall ---------------------------
(* Instance of ClientInstall for TLC.                                       *)
EXTENDS ClientInstall

CONSTANTS c1, c2, d1, d2, t1, t2, k1, k2, k3, a1, a2, a3

Hostnames == [c \in Client |-> IF c = c1 THEN d1 ELSE d2]
=============================================================================
