----------------------------- MODULE MCRegistry -----------------------------
(* Registry for TLC: two nested prefixes, a client in each and one outside;  *)
(* services that share a MAC, a name and an address; records that chain,     *)
(* circle and clash.                                                         *)
EXTENDS Registry

CONSTANTS a0, a1, a2, a6, m, m2, x, near, far, guest, wide, narrow

MCBits == [s \in Subnets |-> IF s = wide THEN 8 ELSE 24]
MCCovers == [s \in Subnets |-> IF s = wide THEN {near, far} ELSE {near}]

For(a, v) == [addr |-> a, view |-> v]
Svc(n, addrs, aliases, proxy, mac) ==
    [name |-> n, addrs |-> addrs, aliases |-> aliases, proxy |-> proxy,
     route |-> proxy # None, mac |-> mac]
Rec(n, t, v, view) == [name |-> n, type |-> t, value |-> v, view |-> view]
Doc(vs, ss, rs) == [views |-> vs, services |-> ss, records |-> rs]

MCServiceDocs == {Svc(1, <<For(a1, None)>>, {2}, None, m),
                  Svc(2, <<For(a2, "v"), For(a6, None)>>, {}, None, m)}
MCPatches == {[addrs |-> <<For(a2, "w")>>], [addrs |-> <<>>, aliases |-> {}],
              [proxy |-> a2, route |-> TRUE], [name |-> 3]}
MCAddressForms == {For(a2, "v"), For(a0, None)}
MCRecordDocs == {Rec(1, "CNAME", 2, None), Rec(2, "CNAME", 1, None), Rec(3, "A", a2, "v"),
                 Rec(1, "A", a1, None), Rec(1, "CNAME", x, None)}
MCViewDocs == {[name |-> "w", subnets |-> {narrow}], [name |-> "w", subnets |-> {wide}]}

Empty == Doc(<<>>, <<>>, <<>>)
\* One view, one service with an address of its own in it.
Split == Doc("v" :> {wide}, <<Svc(2, <<For(a1, None), For(a2, "v")>>, {3}, None, m)>>, <<>>)
\* Nested views, a chain of names, a PTR.
Chain == Doc("v" :> {wide} @@ "w" :> {narrow},
             <<Svc(1, <<For(a2, None), For(a6, "w")>>, {}, None, m2)>>,
             <<Rec(3, "CNAME", 2, None), Rec(a1, "PTR", 3, None)>>)
\* Two services that claim one name.
Crossed == Doc(<<>>, <<Svc(1, <<For(a1, None)>>, {2}, None, m),
                       Svc(2, <<For(a2, None)>>, {}, None, None)>>, <<>>)
MCDocuments == {Empty, Split, Chain, Crossed}
MCLeaseSets == {<<>>, <<[host |-> 3, addr |-> a1, mac |-> m]>>}
Symm == Permutations(Writers)
=============================================================================
