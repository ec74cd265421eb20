---------------------------- MODULE MCForwarder ----------------------------
(* Forwarder for TLC: an upstream over TLS and a plain one. *)
EXTENDS Forwarder, TLC

a1 == <<"a", 1>>
b1 == <<"b", 1>>

MCFirstList == <<a1, b1>>

\* A list that keeps one of the instances, and the first one applied again.
MCLists == {<<b1>>, <<a1, b1>>}

\* One query asks one question for ever, the others that one or a second.
Questions ==
    LET one == CHOOSE q \in Queries : TRUE
    IN  [q \in Queries |-> IF q = one THEN {"k"} ELSE {"k", "l"}]
=============================================================================
