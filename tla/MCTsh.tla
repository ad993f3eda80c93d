------------------------------- MODULE MCTsh -------------------------------
(* Small instances of the tiny shell for TLC. *)
EXTENDS TshProperties, TLC

PidSymmetry == Permutations(Pids)
=============================================================================
