---------------------------- MODULE MCDhcpRunner ----------------------------
(* DhcpRunner for TLC: DHCP on with two configurations, and off with a lease  *)
(* file.                                                                     *)
EXTENDS DhcpRunner, TLC
CONSTANTS c1, c2
MCSaved == {[on |-> TRUE, cfg |-> c1, file |-> FALSE], [on |-> TRUE, cfg |-> c2, file |-> TRUE],
            [on |-> FALSE, cfg |-> c1, file |-> TRUE]}
=============================================================================
