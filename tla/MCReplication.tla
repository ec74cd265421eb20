--------------------------- MODULE MCReplication ---------------------------
(* Replication for TLC. *)
EXTENDS Replication, TLC

CONSTANTS p1, p2

\* p1 changes while it is followed; p2 is a primary to be joined instead.
VersionBound == p1 :> 2 @@ p2 :> 1
============================================================================
