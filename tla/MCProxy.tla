------------------------------ MODULE MCProxy ------------------------------
(* Small instances of the proxy for TLC. *)
EXTENDS ProxyProperties, TLC

ProxySymmetry == Permutations(Slots) \cup Permutations(Keys) \cup Permutations(Threads)
=============================================================================
