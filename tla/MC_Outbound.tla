---------------------------- MODULE MC_Outbound ----------------------------
(* Outbound instantiated for TLC: two workload IPs, two nodes, one port. *)
EXTENDS Outbound, TLC

CONSTANTS c1, c2, i1, i2, n1, n2, lo, none

MCIPs == {i1, i2}
MCNodes == {n1, n2}
=============================================================================
