----------------------------- MODULE MCEthBridge -----------------------------
(* Bounds for model-checking EthBridge. *)
EXTENDS EthBridge, TLC

Symmetry == Permutations(Packets)
=============================================================================
