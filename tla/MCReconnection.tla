---------------------------- MODULE MCReconnection -----------------------------
(***************************************************************************)
(* The two kinds of control connections that fail and are made again, in   *)
(* one run: a client's to the Relay, and those of the nodes of a LAN room  *)
(* among each other.  A behaviour is one of the two, `part', and the other *)
(* one keeps its first state.                                              *)
(***************************************************************************)
EXTENDS MCRelayRecovery, LanLinks

VARIABLE part

ReconnectionInit ==
    /\ part \in {"relay", "lan"}
    /\ RecoveryInit
    /\ part = "lan" => profile = "Tcp"
    /\ LinksInit

ReconnectionNext ==
    /\ UNCHANGED part
    /\ \/ part = "relay" /\ RecoveryNext /\ UNCHANGED linksVars
       \/ part = "lan" /\ LinksNext /\ UNCHANGED recoveryVars

ReconnectionSpec ==
    ReconnectionInit /\ [][ReconnectionNext]_<<part, recoveryVars, linksVars>>

(* Nodes 1 and 2 are two players of a LAN room, node 3 is the room handle  *)
(* the second player opens after the first one is gone.                    *)
Accounts == [n \in Nodes |-> IF n = 1 THEN "a" ELSE "b"]

(* The new instance can call the first player but not be called.           *)
Open == {<<1, 2>>, <<2, 1>>, <<3, 1>>}
================================================================================
