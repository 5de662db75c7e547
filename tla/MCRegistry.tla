----------------------------- MODULE MCRegistry -----------------------------
(* Instance of Registry for TLC: interchangeable devices, keys and tokens. *)
EXTENDS Registry, TLC

Interchangeable ==
    Permutations(Device) \cup Permutations(Key) \cup Permutations(Token)
=============================================================================
