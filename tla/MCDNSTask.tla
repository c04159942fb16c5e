------------------------------ MODULE MCDNSTask ------------------------------
(***************************************************************************)
(* A node and a site of one cluster.                                       *)
(***************************************************************************)
EXTENDS DNSTask, TLC

CONSTANTS n1, s1

MCNodes   == {n1}
MCServers == {s1}
NoServers == {}
==============================================================================
