----------------------------- MODULE MCRelayState ------------------------------
(***************************************************************************)
(* Model values and symmetry for the runs of RelayState.  Control peers,   *)
(* connections, addresses and sessions are interchangeable; identities are *)
(* too, since the state only compares them.                                *)
(***************************************************************************)
EXTENDS RelayState, TLC

Symmetry ==
    Permutations(ControlPeers) \cup Permutations(ConnIds) \cup
    Permutations(Sessions) \cup Permutations(SteamIds) \cup Permutations(Addrs)

================================================================================
