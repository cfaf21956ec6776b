----------------------------- MODULE MCRelayServer -----------------------------
(***************************************************************************)
(* Symmetry and bounds for the runs of RelayServer.                        *)
(***************************************************************************)
EXTENDS RelayServer

Symmetry ==
    Permutations(ControlPeers) \cup Permutations(ConnIds) \cup Permutations(SteamIds)

(* Data, probes and the UDP profile belong to the behaviours of one seat,  *)
(* whose control connections overlap; two players share a room on the TCP  *)
(* profile, where presence goes to and fro.                                *)
Seats == UNION {{peers[s][c] : c \in Members(s)} : s \in Sessions} \ {None}

Joins == {pending[p] : p \in ControlPeers} \ {None}

Bounded ==
    \/ Cardinality(drawn) < 2 /\ Cardinality({x.steam : x \in Seats \cup Joins}) < 2
    \/ /\ \A x \in Seats \cup Joins : x.profile = "Tcp"
       /\ \A seat \in Seats : seat.budget.packets = 0 /\ seat.frames.highest = NoFrame
================================================================================
