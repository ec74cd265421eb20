---------------------------- MODULE MCDhcpServer ----------------------------
(* DhcpServer for TLC: a pool of three addresses, one of them the gateway's,  *)
(* and a fourth outside the subnet; or a pool of one and an address beside it *)
(* that is reserved.                                                          *)
EXTENDS DhcpServer, TLC
MCPool == 1 .. 3
MCAddrs == 1 .. 4
MCProtected == {1}
NoneReserved == {[m \in Macs |-> NoAddr]}
\* The address beside the pool is reserved for one client, then for another.
OneAddr == {1}
TwoAddrs == 1 .. 2
MovingReservation == {[m \in Macs |-> IF m = n THEN 2 ELSE NoAddr] : n \in Macs}
\* No definition tells the clients apart, and the reservations are the same for any two.
Symm == Permutations(Handlers) \cup Permutations(Macs)
=============================================================================
