----------------------------- MODULE MCWorkers -----------------------------
(* Workers for TLC. *)
EXTENDS Workers

\* The loops share no state: each is explored with the other one not running.
OneAtATime == {{"health"}, {"leases"}}

\* None, one under a name, the same renewed, and another name.
FourSets == {NoLeases} \cup {[names |-> {"n"}, rest |-> {r}] : r \in {"old", "renewed"}}
                       \cup {[names |-> {"m"}, rest |-> {"old"}]}
============================================================================
