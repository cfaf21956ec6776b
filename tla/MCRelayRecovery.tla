---------------------------- MODULE MCRelayRecovery ----------------------------
(***************************************************************************)
(* Symmetry for the safety runs of RelayRecovery: which PeerId and which   *)
(* connection id the Relay draws does not matter.                          *)
(***************************************************************************)
EXTENDS RelayRecovery, TLC

Symmetry == Permutations(ControlPeers) \cup Permutations(ConnIds)
================================================================================
