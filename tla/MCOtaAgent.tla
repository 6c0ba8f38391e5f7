----------------------------- MODULE MCOtaAgent -----------------------------
(* Small instances of the OTA agent for TLC: the buffers are alike. *)
EXTENDS OtaAgent, TLC

Symmetry == Permutations(Buffers)
=============================================================================
