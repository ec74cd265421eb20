-------------------------------- MODULE Zone --------------------------------
(***************************************************************************)
(* What a zone snapshot is built from, and what a query gets from it:      *)
(* zone.Build with its view matcher, and ServeDNS with the authoritative   *)
(* lookup.  No state: Registry holds the inputs and the live snapshot.     *)
(*                                                                         *)
(* A name under the private zone is a number, numbered in text order; the  *)
(* reverse name of an address is the address itself (arpaName and          *)
(* addrFromArpa are inverses).  A prefix is known by its length and by the *)
(* clients it contains.  TTLs, message sizes, logging and counters are     *)
(* left out.  None is every empty string: no tag, the default view, no     *)
(* proxy, no MAC.                                                          *)
(***************************************************************************)
EXTENDS Integers, Sequences, FiniteSets, SequencesExt

CONSTANTS
    Names,            \* names under the private zone, a set of numbers
    Apex,             \* the private zone itself
    Outside,          \* names of other zones
    Listed,           \* names the blocklists block (module Policy)
    Addrs, V6,        \* addresses, and the IPv6 ones among them
    ReverseZones,     \* the addresses inside the configured reverse zones
    Clients, Allowed, \* query sources, and the ones allow_query admits
    Subnets,
    Bits,             \* [Subnets -> prefix length]
    Covers,           \* [Subnets -> the clients inside]
    CnameChaseDepth,
    None

\* Prefixes that share an address are nested, the longer one inside.
ASSUME ZoneAssumption ==
    /\ Names \subseteq Nat /\ CnameChaseDepth \in Nat
    /\ Listed \subseteq Names \cup Outside
    /\ V6 \subseteq Addrs /\ ReverseZones \subseteq Addrs /\ Allowed \subseteq Clients
    /\ \A s, t \in Subnets : s # t =>
         \/ Covers[s] \cap Covers[t] = {}
         \/ Bits[s] < Bits[t] /\ Covers[t] \subseteq Covers[s]
         \/ Bits[t] < Bits[s] /\ Covers[s] \subseteq Covers[t]

----------------------------------------------------------------------------
(* zone.Build *)

\* The entries tagged for the view if there are any, otherwise the untagged ones.
Pick(view, all) ==
    LET tagged   == SelectSeq(all, LAMBDA e : view # None /\ e.view = view)
        untagged == SelectSeq(all, LAMBDA e : e.view = None)
    IN  IF tagged # <<>> THEN tagged ELSE untagged

AddrType(a) == IF a \in V6 THEN "AAAA" ELSE "A"
RR(a) == [type |-> AddrType(a), value |-> a]
Override(f, g) == [x \in DOMAIN f \cup DOMAIN g |-> IF x \in DOMAIN g THEN g[x] ELSE f[x]]
At(x, y) == [z \in {x} |-> y]
DerivePTR(rev, a, n) == IF a \in ReverseZones THEN Override(rev, At(a, n)) ELSE rev

\* One turn of each loop of buildIndex.
LeaseStep(idx, l) ==
    [idx EXCEPT !.fwd = Override(@, At(l.host, <<RR(l.addr)>>)),
                !.rev = DerivePTR(@, l.addr, l.host)]

\* A routed service answers with its proxy; its PTRs name the real host.
ServiceStep(view, idx, svc) ==
    LET addrs  == Pick(view, svc.addrs)
        answer == IF svc.route /\ svc.proxy # None THEN <<RR(svc.proxy)>>
                  ELSE [i \in DOMAIN addrs |-> RR(addrs[i].addr)]
    IN  IF addrs = <<>> THEN idx
        ELSE [idx EXCEPT
                !.fwd = Override(@, [n \in {svc.name} \cup svc.aliases |-> answer]),
                !.rev = FoldLeft(LAMBDA rev, a : DerivePTR(rev, a.addr, svc.name), @, addrs)]

\* The first manual record at a name displaces the layers below, later ones add.
RecordStep(idx, r) ==
    LET rr == [type |-> r.type, value |-> r.value]
    IN  IF r.type = "PTR" THEN [idx EXCEPT !.rev = Override(@, At(r.name, r.value))]
        ELSE [idx EXCEPT
                !.fwd = Override(@, At(r.name, IF r.name \in idx.claimed
                                               THEN Append(@[r.name], rr) ELSE <<rr>>)),
                !.claimed = @ \cup {r.name}]

\* Mutant: the manual records are laid down first.
BuildIndexManualFirst(in, view) ==
    LET manual == FoldLeft(RecordStep, [fwd |-> <<>>, rev |-> <<>>, claimed |-> {}],
                           Pick(view, in.records))
        leases == FoldLeft(LeaseStep, manual, in.leases)
    IN  FoldLeft(LAMBDA idx, svc : ServiceStep(view, idx, svc), leases, in.services)

\* Ascending priority, later layers replacing earlier ones.
BuildIndex(in, view) ==
    LET leases   == FoldLeft(LeaseStep, [fwd |-> <<>>, rev |-> <<>>, claimed |-> {}], in.leases)
        services == FoldLeft(LAMBDA idx, svc : ServiceStep(view, idx, svc), leases, in.services)
    IN  FoldLeft(RecordStep, services, Pick(view, in.records))

\* A CNAME may not coexist with anything at its name.
CnameAlone(fwd) ==
    \A n \in DOMAIN fwd : (\E i \in DOMAIN fwd[n] : fwd[n][i].type = "CNAME") => Len(fwd[n]) = 1

\* NewMatcher refuses a prefix that two views claim, buildIndex a shared CNAME.
Builds(in) ==
    /\ \A v, w \in DOMAIN in.views : v # w => in.views[v] \cap in.views[w] = {}
    /\ \A v \in DOMAIN in.views \cup {None} : CnameAlone(BuildIndex(in, v).fwd)

Build(in) == [views |-> in.views,
              index |-> [v \in DOMAIN in.views \cup {None} |-> BuildIndex(in, v)]]

----------------------------------------------------------------------------
(* Matcher *)

\* Mutant: shortest prefix first.
MatchShortest(views, c) ==
    LET entries == {e \in (DOMAIN views) \X Subnets : e[2] \in views[e[1]] /\ c \in Covers[e[2]]}
    IN  IF entries = {} THEN None
        ELSE (CHOOSE e \in entries : \A f \in entries : Bits[e[2]] <= Bits[f[2]])[1]

\* Entries are scanned by prefix length descending; the first that contains the
\* client wins.
Match(views, c) ==
    LET entries == {e \in (DOMAIN views) \X Subnets : e[2] \in views[e[1]] /\ c \in Covers[e[2]]}
    IN  IF entries = {} THEN None
        ELSE (CHOOSE e \in entries : \A f \in entries : Bits[e[2]] >= Bits[f[2]])[1]

----------------------------------------------------------------------------
(* The authoritative answer *)

Get(f, x, default) == IF x \in DOMAIN f THEN f[x] ELSE default
Lookup(snap, view, n) == Get(snap.index[view].fwd, n, <<>>)
LookupPTR(snap, view, n) == Get(snap.index[view].rev, n, None)
Owns(n) == n \in Names \cup {Apex} \cup ReverseZones

\* toRR over the records at a name: the ones of the type asked for, or all.
Converted(n, rrs, qtype) ==
    LET wanted == SelectSeq(rrs, LAMBDA rr : rr.type \in {"A", "AAAA"} /\ qtype \in {rr.type, "ANY"})
    IN  [i \in DOMAIN wanted |-> [name |-> n, type |-> wanted[i].type, value |-> wanted[i].value]]

\* Mutant: the depth cap is one hop early.
ChaseOneShort(snap, view, name, qtype) ==
    LET chase[d \in 0 .. CnameChaseDepth, n \in Names] ==
          LET t    == Lookup(snap, view, n)[1].value
              next == Lookup(snap, view, t)
          IN  <<[name |-> n, type |-> "CNAME", value |-> t]>> \o
              IF d + 1 >= CnameChaseDepth \/ qtype = "CNAME" \/ ~Owns(t) THEN <<>>
              ELSE IF next # <<>> /\ next[1].type = "CNAME" THEN chase[d + 1, t]
              ELSE Converted(t, next, qtype)
    IN  chase[0, name]

\* chase follows targets inside the zone, up to the depth cap.
Chase(snap, view, name, qtype) ==
    LET chase[d \in 0 .. CnameChaseDepth, n \in Names] ==
          LET t    == Lookup(snap, view, n)[1].value
              next == Lookup(snap, view, t)
          IN  <<[name |-> n, type |-> "CNAME", value |-> t]>> \o
              IF d >= CnameChaseDepth \/ qtype = "CNAME" \/ ~Owns(t) THEN <<>>
              ELSE IF next # <<>> /\ next[1].type = "CNAME" THEN chase[d + 1, t]
              ELSE Converted(t, next, qtype)
    IN  chase[0, name]

Reply(source, rcode, answer) == [source |-> source, rcode |-> rcode, answer |-> answer]
Local(rcode, answer) == Reply("authoritative", rcode, answer)

\* Answer for a name this server owns.
Answer(snap, view, q) ==
    LET rrs == Lookup(snap, view, q.name)
        ptr == LookupPTR(snap, view, q.name)
    IN  CASE q.name = Apex ->
               Local("NOERROR", IF q.type \in {"SOA", "NS"}
                                THEN <<[name |-> Apex, type |-> q.type, value |-> None]>> ELSE <<>>)
          [] q.name # Apex /\ q.type = "PTR" ->
               IF ptr # None THEN Local("NOERROR", <<[name |-> q.name, type |-> "PTR", value |-> ptr]>>)
               ELSE Local("NXDOMAIN", <<>>)
          [] OTHER ->
               IF rrs = <<>> THEN Local("NXDOMAIN", <<>>)
               ELSE Local("NOERROR", IF rrs[1].type = "CNAME" THEN Chase(snap, view, q.name, q.type)
                                     ELSE Converted(q.name, rrs, q.type))

\* ServeDNS: the checks on the message, the ACL, the view of the client, the zone's own
\* names, then policy and forwarding for everything else.  resolves says whether
\* Forwarder.Resolve returns an answer (module Forwarder) rather than an error.
ServeDNS(snap, c, q, resolves) ==
    CASE q.form = "opcode" -> Reply("opcode", "NOTIMP", <<>>)
      [] q.form = "question" -> Reply("question", "FORMERR", <<>>)
      [] q.form = "class" -> Reply("class", "REFUSED", <<>>)
      [] q.form = "query" ->
           IF c \notin Allowed THEN Reply("acl", "REFUSED", <<>>)
           ELSE IF Owns(q.name) THEN Answer(snap, Match(snap.views, c), q)
           ELSE IF q.name \in Listed THEN Reply("blocked", "NXDOMAIN", <<>>)
           ELSE Reply("forward", IF resolves THEN "NOERROR" ELSE "SERVFAIL", <<>>)

----------------------------------------------------------------------------
(* Reservations: a MAC and the one address of its service inside the DHCP *)
(* subnet, where the pairing is one-to-one.  edge is the subnet's network  *)
(* and broadcast address.                                                  *)

LanOf(svc, lan) == {a \in lan : \E i \in DOMAIN svc.addrs : svc.addrs[i].addr = a}

\* The claims that stand before addresses are compared: a MAC no other service has,
\* and one address a device may be given.
Standing(svcs, lan, edge) ==
    LET claims == {i \in DOMAIN svcs : svcs[i].mac # None}
    IN  {i \in claims : /\ Cardinality(LanOf(svcs[i], lan)) = 1
                        /\ LanOf(svcs[i], lan) \cap edge = {}
                        /\ \A j \in claims \ {i} : svcs[j].mac # svcs[i].mac}
Pair(svc, lan) == <<svc.mac, CHOOSE a \in LanOf(svc, lan) : TRUE>>

\* Mutant: contested addresses are not looked for.
ReservationsContested(svcs, lan, edge) == {Pair(svcs[i], lan) : i \in Standing(svcs, lan, edge)}

Reservations(svcs, lan, edge) ==
    LET standing  == Standing(svcs, lan, edge)
        contested == {i \in standing : \E j \in standing \ {i} : LanOf(svcs[j], lan) = LanOf(svcs[i], lan)}
    IN  {Pair(svcs[i], lan) : i \in standing \ contested}
=============================================================================
