-------------------------- MODULE DhcpServerProofs --------------------------
(***************************************************************************)
(* DhcpServer for every pool, every number of clients and handlers, every  *)
(* set of reservations and every fault.  BindingsAgree is inductive next   *)
(* to the types; RowsAgree is needed with it, because a restore builds the *)
(* allocator's maps from the lease table.  The promises to the clients     *)
(* hold under conditions on the faults (NeverRestored, Steady), for which  *)
(* Placed says where leases are and Promised what answers are under way.   *)
(***************************************************************************)
EXTENDS DhcpServer, TLAPS, WellFoundedInduction

\* Rule 4 finds the lowest address of any non-empty set of free ones.
LEMMA LowestIn == ASSUME NEW S \in SUBSET Nat, S # {} PROVE Lowest(S) \in S
<1> DEFINE R == {ss \in Nat \X Nat : ss[1] < ss[2]}
<1>1. IsWellFoundedOn(R, Nat)
  <2>1. OpToRel(<, Nat) = R BY Zenon DEF OpToRel
  <2> HIDE DEF R
  <2> QED BY <2>1, NatLessThanWellFounded
<1> HIDE DEF R
<1>2. PICK a \in S : \A b \in S : ~(<<b, a>> \in R) BY <1>1, WFMin
<1>3. ASSUME NEW b \in S, ~(a <= b) PROVE FALSE
  <2>1. a \in Nat /\ b \in Nat /\ b < a BY <1>3
  <2>2. <<b, a>> \in R BY <2>1 DEF R
  <2> QED BY <1>2, <2>2
<1> QED BY <1>3 DEF Lowest

\* An outcome of the rules: an address is committed only when it is one.
IsOutcome(d) ==
    /\ d.do \in {"commit", "promise", "none"}
    /\ d.do = "commit" => d.ip \in Addrs
    /\ d.fresh \in BOOLEAN
    /\ d.fresh => d.do = "commit"

\* Rules 3 and 4 commit an address of the subnet or give nothing.
LEMMA DynamicOK ==
    ASSUME TypeOK, NEW m \in Macs, NEW requested \in Addrs \cup {NoAddr}
    PROVE  IsOutcome(Dynamic(m, requested))
<1>1. FreeFor(m) \in SUBSET Addrs /\ FreeFor(m) \in SUBSET Nat
  BY DhcpAssumption DEF FreeFor
<1>2. FreeFor(m) # {} => Lowest(FreeFor(m)) \in Addrs BY <1>1, LowestIn
<1> QED BY <1>2 DEF Dynamic, IsOutcome, Commit, Nothing

\* Rule 2 renews an address of the pool, or keeps, or goes on to rules 3 and 4.
LEMMA RenewOK ==
    ASSUME TypeOK, NEW m \in Macs, NEW requested \in Addrs \cup {NoAddr}, NEW tentative \in BOOLEAN
    PROVE  IsOutcome(Renew(m, requested, tentative))
<1>1. Usable(byMAC[m].ip) => byMAC[m].ip \in Addrs BY DhcpAssumption DEF Usable
<1>2. Held(m) \in BOOLEAN BY DEF Held, Live
<1> QED BY <1>1, <1>2, DynamicOK DEF Renew, IsOutcome, Commit, Promise

\* Whatever rule of allocate applies, what it commits is an address.
LEMMA DecideOK ==
    ASSUME TypeOK, NEW m \in Macs, NEW requested \in Addrs \cup {NoAddr}, NEW tentative \in BOOLEAN
    PROVE  IsOutcome(Decide(m, requested, tentative))
<1>1. reserved[m] \in Addrs \cup {NoAddr} BY DhcpAssumption DEF TypeOK
<1> QED BY <1>1, RenewOK DEF Decide, IsOutcome, Commit, Promise

\* The lease commit stores is one on the address that was decided.
LEMMA GrantedOK ==
    ASSUME TypeOK, NEW m \in Macs, NEW a \in Addrs, NEW name \in Names \cup {NoName},
           NEW ttl \in Nat, NEW tentative \in BOOLEAN
    PROVE  /\ Granted(m, a, name, ttl, tentative) \in Lease
           /\ Granted(m, a, name, ttl, tentative).ip = a
BY DEF TypeOK, Granted, Lease, Later

\* commit keeps the two maps inverse: the evicted holder and the client's old
\* address go with it.
LEMMA StoreLeaseOK ==
    ASSUME TypeOK, BindingsAgree, NEW m \in Macs, NEW l \in Lease, l.ip \in Addrs, StoreLease(m, l)
    PROVE  byMAC' \in [Macs -> Lease] /\ byIP' \in [Addrs -> Macs \cup {NoMac}] /\ BindingsAgree'
<1>1. NoLease \in Lease BY DEF NoLease, Lease
<1>2. byMAC' \in [Macs -> Lease] BY <1>1 DEF StoreLease, TypeOK
<1>3. byIP' \in [Addrs -> Macs \cup {NoMac}] BY DEF StoreLease, TypeOK
<1>4. ASSUME NEW n \in Macs, byMAC'[n].ip # NoAddr PROVE byIP'[byMAC'[n].ip] = n
  BY <1>4, DhcpAssumption DEF StoreLease, BindingsAgree, TypeOK, Has, NoLease, Lease
<1>5. ASSUME NEW a \in Addrs, byIP'[a] # NoMac PROVE byMAC'[byIP'[a]].ip = a
  BY <1>5, DhcpAssumption DEF StoreLease, BindingsAgree, TypeOK, Has, NoLease, Lease
<1> QED BY <1>2, <1>3, <1>4, <1>5 DEF BindingsAgree, Has

\* So does dropping a lease from both maps.
LEMMA DropOK ==
    ASSUME TypeOK, BindingsAgree, NEW m \in Macs, Has(m), Drop(m)
    PROVE  byMAC' \in [Macs -> Lease] /\ byIP' \in [Addrs -> Macs \cup {NoMac}] /\ BindingsAgree'
<1>1. NoLease \in Lease BY DEF NoLease, Lease
<1>2. byMAC' \in [Macs -> Lease] BY <1>1 DEF Drop, TypeOK
<1>3. byIP' \in [Addrs -> Macs \cup {NoMac}] BY DEF Drop, TypeOK
<1>4. ASSUME NEW n \in Macs, byMAC'[n].ip # NoAddr PROVE byIP'[byMAC'[n].ip] = n
  BY <1>4, DhcpAssumption DEF Drop, BindingsAgree, TypeOK, Has, NoLease, Lease
<1>5. ASSUME NEW a \in Addrs, byIP'[a] # NoMac PROVE byMAC'[byIP'[a]].ip = a
  BY <1>5, DhcpAssumption DEF Drop, BindingsAgree, TypeOK, Has, NoLease, Lease
<1> QED BY <1>2, <1>3, <1>4, <1>5 DEF BindingsAgree, Has

\* Seconds and ticks are natural numbers.
LEMMA UnixNat == ASSUME NEW t \in Nat PROVE Unix(t) \in Nat /\ FromUnix(t) \in Nat
<1>1. Second \in Nat /\ Second > 0 BY DhcpAssumption
<1>2. t * Second \in Nat BY <1>1
<1>3. t \div Second \in Nat BY <1>1
<1> QED BY <1>2, <1>3 DEF Unix, FromUnix

\* A restore builds inverse maps from a table with one row per address.
LEMMA RestoreOK ==
    ASSUME TypeOK, RowsAgree, Restore
    PROVE  /\ byMAC' \in [Macs -> Lease] /\ byIP' \in [Addrs -> Macs \cup {NoMac}]
           /\ rows' \in [Macs -> Lease] /\ quarantine' \in [Addrs -> Nat]
           /\ BindingsAgree' /\ RowsAgree'
<1> DEFINE kept == [m \in Macs |-> IF rows[m].expires <= Unix(now) THEN NoLease ELSE rows[m]]
           loaded == [m \in Macs |-> [kept[m] EXCEPT !.expires = FromUnix(@)]]
<1>1. NoLease \in Lease BY DEF NoLease, Lease
<1>2. kept \in [Macs -> Lease] BY <1>1 DEF TypeOK
<1>3. \A m, n \in Macs : kept[m].ip = kept[n].ip /\ kept[m].ip # NoAddr => m = n
  BY DEF RowsAgree, UniqueIP, NoLease
<1>4. /\ rows' = kept /\ byMAC' = loaded /\ quarantine' \in [Addrs -> Nat]
      /\ byIP' = [a \in Addrs |-> IF \E m \in Macs : kept[m].ip = a
                                  THEN CHOOSE m \in Macs : kept[m].ip = a ELSE NoMac]
  BY DEF Restore
<1> HIDE DEF kept
<1>5. byIP' \in [Addrs -> Macs \cup {NoMac}] BY <1>4
<1>6. ASSUME NEW n \in Macs
      PROVE  loaded[n] \in Lease /\ loaded[n].ip = kept[n].ip
  <2>1. PICK k \in Lease : k = kept[n] BY <1>2
  <2>2. FromUnix(k.expires) \in Nat BY UnixNat DEF Lease
  <2>3. loaded[n] = [k EXCEPT !.expires = FromUnix(k.expires)] BY <2>1
  <2> QED BY <2>1, <2>2, <2>3 DEF Lease
<1>7. loaded \in [Macs -> Lease] BY <1>6
<1> HIDE DEF loaded
<1>8. ASSUME NEW n \in Macs, kept[n].ip # NoAddr PROVE byIP'[kept[n].ip] = n
  <2>1. kept[n].ip \in Addrs BY <1>2, <1>8 DEF Lease
  <2> QED BY <1>3, <1>4, <1>8, <2>1
<1>9. ASSUME NEW a \in Addrs, byIP'[a] # NoMac PROVE byIP'[a] \in Macs /\ kept[byIP'[a]].ip = a
  BY <1>4, <1>9
<1>10. BindingsAgree' BY <1>4, <1>6, <1>8, <1>9 DEF BindingsAgree, Has
<1>11. RowsAgree' BY <1>3, <1>4 DEF RowsAgree, UniqueIP
<1> QED BY <1>2, <1>4, <1>5, <1>7, <1>10, <1>11

\* An offer commits or leaves the maps alone.
LEMMA OfferOK ==
    ASSUME TypeOK, BindingsAgree, NEW m \in Macs, NEW d, IsOutcome(d), Offer(m, d)
    PROVE  byMAC' \in [Macs -> Lease] /\ byIP' \in [Addrs -> Macs \cup {NoMac}] /\ BindingsAgree'
<1>1. CASE d.do = "commit"
  <2> DEFINE l == Granted(m, d.ip, NoName, OfferHold, TRUE)
  <2>1. d.ip \in Addrs BY <1>1 DEF IsOutcome
  <2>2. OfferHold \in Nat BY DhcpAssumption
  <2>4. l \in Lease /\ l.ip = d.ip BY <2>1, <2>2, GrantedOK
  <2>3. StoreLease(m, l) BY <1>1 DEF Offer
  <2> HIDE DEF l
  <2> QED BY <2>1, <2>3, <2>4, StoreLeaseOK
<1>2. CASE d.do # "commit"
  <2>1. UNCHANGED <<byMAC, byIP>> BY <1>2 DEF Offer
  <2> QED BY <2>1 DEF TypeOK, BindingsAgree, Has
<1> QED BY <1>1, <1>2

\* A DISCOVER.
LEMMA DiscoverStep ==
    ASSUME IndInv, NEW h \in Handlers, NEW m \in Macs, NEW a \in Addrs \cup {NoAddr},
           Discover(h, m, a)
    PROVE  IndInv'
<1> DEFINE d == Decide(m, a, TRUE)
<1>1. TypeOK /\ BindingsAgree BY DEF IndInv
<1>2. IsOutcome(d) BY <1>1, DecideOK
<1>3. Offer(m, d) BY DEF Discover
<1>4. task' = [task EXCEPT ![h] = IF d.fresh
                 THEN [do |-> "probe", mac |-> m, lease |-> [NoLease EXCEPT !.ip = d.ip]]
                 ELSE Idle]
  BY DEF Discover, Become
<1>5. UNCHANGED <<now, reserved, quarantine, rows, waits, using>> BY DEF Discover
<1> HIDE DEF d
<1>6. byMAC' \in [Macs -> Lease] /\ byIP' \in [Addrs -> Macs \cup {NoMac}] /\ BindingsAgree'
  BY <1>1, <1>2, <1>3, OfferOK
<1>7. d.fresh => d.ip \in Addrs BY <1>2 DEF IsOutcome
<1>8. TypeOK'
  BY <1>1, <1>4, <1>5, <1>6, <1>7 DEF TypeOK, Idle, NoLease, Lease
<1>9. TaskOK' BY <1>1, <1>4, <1>7 DEF IndInv, TaskOK, TypeOK, Idle, NoLease
<1> QED BY <1>5, <1>6, <1>8, <1>9 DEF IndInv, RowsAgree

\* A probe nobody answered.
LEMMA ProbeMissStep == ASSUME IndInv, NEW h \in Handlers, ProbeMiss(h) PROVE IndInv'
<1> USE DEF IndInv, ProbeMiss, Done, Become, allocVars, TypeOK, TaskOK
<1>1. TypeOK' BY DEF Idle, NoLease, Lease
<1>2. TaskOK' BY DEF Idle
<1> QED BY <1>1, <1>2 DEF BindingsAgree, Has, RowsAgree

\* A probe that was answered: only the quarantine changes.
LEMMA ProbeHitStep == ASSUME IndInv, NEW h \in Handlers, ProbeHit(h) PROVE IndInv'
<1>1. now + QuarantineFor \in Nat BY DhcpAssumption DEF IndInv, TypeOK
<1>2. quarantine' \in [Addrs -> Nat] BY <1>1 DEF IndInv, TypeOK, ProbeHit
<1>3. TypeOK' BY <1>2 DEF IndInv, TypeOK, ProbeHit, Become
<1>4. TaskOK' BY DEF IndInv, TypeOK, TaskOK, ProbeHit, Become
<1> QED BY <1>3, <1>4 DEF IndInv, ProbeHit, BindingsAgree, Has, RowsAgree

\* The hold is released if it is still there.
LEMMA ProbeDropStep == ASSUME IndInv, NEW h \in Handlers, ProbeDrop(h) PROVE IndInv'
<1> DEFINE m == task[h].mac
<1>1. m \in Macs /\ task[h].lease.ip \in Addrs BY DEF IndInv, TaskOK, ProbeDrop
<1>2. byMAC' \in [Macs -> Lease] /\ byIP' \in [Addrs -> Macs \cup {NoMac}] /\ BindingsAgree'
  <2>1. CASE byMAC[m].ip = task[h].lease.ip /\ Drop(m)
    BY <1>1, <2>1, DropOK, DhcpAssumption DEF IndInv, Has
  <2>2. CASE UNCHANGED <<byMAC, byIP>> BY <2>2 DEF IndInv, TypeOK, BindingsAgree, Has
  <2> QED BY <2>1, <2>2 DEF ProbeDrop
<1>3. TypeOK' BY <1>2 DEF IndInv, TypeOK, ProbeDrop, Become
<1>4. TaskOK' BY DEF IndInv, TypeOK, TaskOK, ProbeDrop, Become
<1> QED BY <1>2, <1>3, <1>4 DEF IndInv, RowsAgree, ProbeDrop

\* The second offer after a probe was answered.
LEMMA ReofferStep == ASSUME IndInv, NEW h \in Handlers, Reoffer(h) PROVE IndInv'
<1> DEFINE d == Decide(task[h].mac, NoAddr, TRUE)
<1>1. TypeOK /\ BindingsAgree /\ task[h].mac \in Macs BY DEF IndInv, TaskOK, Reoffer
<1>2. IsOutcome(d) BY <1>1, DecideOK
<1>3. Offer(task[h].mac, d) BY DEF Reoffer
<1> HIDE DEF d
<1>4. byMAC' \in [Macs -> Lease] /\ byIP' \in [Addrs -> Macs \cup {NoMac}] /\ BindingsAgree'
  BY <1>1, <1>2, <1>3, OfferOK
<1>5. TypeOK' BY <1>4 DEF IndInv, TypeOK, Reoffer, Done, Become, Idle, NoLease, Lease
<1>6. TaskOK' BY DEF IndInv, TypeOK, TaskOK, Reoffer, Done, Become, Idle
<1> QED BY <1>4, <1>5, <1>6 DEF IndInv, RowsAgree, Reoffer

\* A NAK, delivered or lost.
LEMMA NakOK ==
    ASSUME TypeOK, NEW m \in Macs, Nak(m)
    PROVE  using' \in [Macs -> Lease] /\ waits' \in [Macs -> Handlers \cup {NoMac}]
BY DEF TypeOK, Nak, NoLease, Lease

\* A REQUEST: refused, committed and NAKed, or committed and left to persist.
LEMMA RequestStep ==
    ASSUME IndInv, NEW h \in Handlers, NEW m \in Macs, NEW name \in Names \cup {NoName},
           NEW a \in Addrs \cup {NoAddr}, NEW c, Request(h, m, name, a, c)
    PROVE  IndInv'
<1> DEFINE asked == AskedFor(a, c)
           d == Decide(m, a, FALSE)
           l == Granted(m, d.ip, name, LeaseTime, FALSE)
<1>1. TypeOK /\ TaskOK /\ BindingsAgree /\ RowsAgree BY DEF IndInv
<1>2. UNCHANGED <<now, reserved, quarantine, rows>> BY DEF Request
<1>3. ASSUME UNCHANGED <<byMAC, byIP, task>>, Nak(m) PROVE IndInv'
  BY <1>1, <1>2, <1>3, NakOK DEF IndInv, TypeOK, TaskOK, BindingsAgree, Has, RowsAgree
<1>4. ASSUME d.do = "commit", StoreLease(m, l)
      PROVE  /\ byMAC' \in [Macs -> Lease] /\ byIP' \in [Addrs -> Macs \cup {NoMac}]
             /\ BindingsAgree' /\ l \in Lease /\ l.ip \in Addrs
  <2>1. d.ip \in Addrs BY <1>1, <1>4, DecideOK DEF IsOutcome
  <2>2. LeaseTime \in Nat BY DhcpAssumption
  <2> HIDE DEF d
  <2>3. l \in Lease /\ l.ip = d.ip BY <1>1, <2>1, <2>2, GrantedOK
  <2> HIDE DEF l
  <2> QED BY <1>1, <1>4, <2>1, <2>3, StoreLeaseOK
<1>5. ASSUME d.do = "commit", StoreLease(m, l), Nak(m), UNCHANGED task PROVE IndInv'
  <2>1. TypeOK' BY <1>1, <1>2, <1>4, <1>5, NakOK DEF TypeOK
  <2>2. TaskOK' BY <1>1, <1>5 DEF TaskOK
  <2> QED BY <1>1, <1>2, <1>4, <1>5, <2>1, <2>2 DEF IndInv, RowsAgree
<1>6. ASSUME d.do = "commit", StoreLease(m, l),
             task' = [task EXCEPT ![h] = [do |-> "put", mac |-> m, lease |-> l]],
             waits' = [waits EXCEPT ![m] = h], UNCHANGED using
      PROVE  IndInv'
  <2> HIDE DEF l, d
  <2>1. TypeOK' BY <1>1, <1>2, <1>4, <1>6 DEF TypeOK
  <2>2. TaskOK' BY <1>1, <1>4, <1>6 DEF TaskOK, TypeOK
  <2> QED BY <1>1, <1>2, <1>4, <1>6, <2>1, <2>2 DEF IndInv, RowsAgree
<1>7. RequestOutside(m, asked) \/ RequestAllocate(h, m, name, a, asked) BY DEF Request
<1> HIDE DEF asked
<1> QED BY <1>3, <1>5, <1>6, <1>7 DEF RequestOutside, RequestAllocate, Become

\* The row is written, or not, and the ACK sent.
LEMMA AckStep == ASSUME IndInv, NEW h \in Handlers, Ack(h) PROVE IndInv'
<1> DEFINE m == task[h].mac
           l == task[h].lease
<1>1. m \in Macs /\ l \in Lease /\ l.ip \in Addrs BY DEF IndInv, TypeOK, TaskOK, Ack
<1>2. rows' \in [Macs -> Lease] /\ RowsAgree'
  <2>1. CASE PutDHCPLease(m, l)
    <3> DEFINE deleted == [n \in Macs |-> IF n # m /\ rows[n].ip = l.ip THEN NoLease ELSE rows[n]]
               put == [deleted EXCEPT ![m] = [l EXCEPT !.expires = Unix(l.expires)]]
    <3>1. rows' = IF UniqueIP(put) THEN put ELSE rows BY <2>1 DEF PutDHCPLease
    <3>2. [l EXCEPT !.expires = Unix(l.expires)] \in Lease BY <1>1, UnixNat DEF Lease
    <3>3. deleted \in [Macs -> Lease] BY DEF IndInv, TypeOK, NoLease, Lease
    <3>4. put \in [Macs -> Lease] BY <3>2, <3>3
    <3> HIDE DEF put
    <3> QED BY <3>1, <3>4 DEF IndInv, TypeOK, RowsAgree
  <2>2. CASE rows' = rows BY <2>2 DEF IndInv, TypeOK, RowsAgree
  <2> QED BY <2>1, <2>2 DEF Ack
<1>3. using' \in [Macs -> Lease] /\ waits' \in [Macs -> Handlers \cup {NoMac}]
  <2>1. [l EXCEPT !.name = NoName] \in Lease BY <1>1 DEF Lease
  <2> QED BY <1>1, <2>1 DEF IndInv, TypeOK, Ack
<1>4. TypeOK'
  BY <1>2, <1>3 DEF IndInv, TypeOK, Ack, Done, Become, allocVars, Idle, NoLease, Lease
<1>5. TaskOK' BY DEF IndInv, TypeOK, TaskOK, Ack, Done, Become, Idle
<1> QED BY <1>2, <1>4, <1>5 DEF IndInv, Ack, allocVars, BindingsAgree, Has

\* A RELEASE, of the client's own binding or ignored.
LEMMA ReleaseStep ==
    ASSUME IndInv, NEW h \in Handlers, NEW m \in Macs, Release(h, m) PROVE IndInv'
<1>1. using' \in [Macs -> Lease] /\ waits' \in [Macs -> Handlers \cup {NoMac}]
  BY DEF IndInv, TypeOK, Release, GiveUp, NoLease, Lease
<1>2. byMAC' \in [Macs -> Lease] /\ byIP' \in [Addrs -> Macs \cup {NoMac}] /\ BindingsAgree'
  <2>1. CASE byMAC[m].ip = using[m].ip /\ Drop(m)
    BY <2>1, DropOK DEF IndInv, Has, Release
  <2>2. CASE UNCHANGED <<byMAC, byIP>> BY <2>2 DEF IndInv, TypeOK, BindingsAgree, Has
  <2> QED BY <2>1, <2>2 DEF Release
<1>3. TypeOK'
  <2>1. NoLease \in Lease BY DEF NoLease, Lease
  <2> QED BY <1>1, <1>2, <2>1 DEF IndInv, TypeOK, Release, Become
<1>4. TaskOK' BY DEF IndInv, TypeOK, TaskOK, Release, Become
<1> QED BY <1>2, <1>3, <1>4 DEF IndInv, RowsAgree, Release

\* A DECLINE, of the client's own binding or ignored.
LEMMA DeclineStep ==
    ASSUME IndInv, NEW h \in Handlers, NEW m \in Macs, Decline(h, m) PROVE IndInv'
<1>1. using' \in [Macs -> Lease] /\ waits' \in [Macs -> Handlers \cup {NoMac}]
  BY DEF IndInv, TypeOK, Decline, GiveUp, NoLease, Lease
<1>2. using[m].ip \in Addrs BY DEF IndInv, TypeOK, Decline, Lease
<1>3. /\ byMAC' \in [Macs -> Lease] /\ byIP' \in [Addrs -> Macs \cup {NoMac}] /\ BindingsAgree'
      /\ quarantine' \in [Addrs -> Nat]
  <2>1. ASSUME byIP[using[m].ip] = m, byMAC' = [byMAC EXCEPT ![m] = NoLease],
               byIP' = [byIP EXCEPT ![using[m].ip] = NoMac]
        PROVE  byMAC' \in [Macs -> Lease] /\ byIP' \in [Addrs -> Macs \cup {NoMac}] /\ BindingsAgree'
    <3>1. byMAC[m].ip = using[m].ip
      BY <1>2, <2>1, DhcpAssumption DEF IndInv, BindingsAgree
    <3>2. Drop(m) /\ Has(m) BY <2>1, <3>1 DEF Drop, Has, Decline
    <3> QED BY <3>2, DropOK DEF IndInv
  <2>2. quarantine' \in [Addrs -> Nat] BY <1>2, DhcpAssumption DEF IndInv, TypeOK, Decline, allocVars
  <2>3. CASE UNCHANGED <<byMAC, byIP>> BY <2>2, <2>3 DEF IndInv, TypeOK, BindingsAgree, Has
  <2> QED BY <2>1, <2>2, <2>3 DEF Decline, allocVars
<1>4. TypeOK'
  <2>1. NoLease \in Lease BY DEF NoLease, Lease
  <2> QED BY <1>1, <1>3, <2>1 DEF IndInv, TypeOK, Decline, Become, allocVars
<1>5. TaskOK' BY DEF IndInv, TypeOK, TaskOK, Decline, Become
<1> QED BY <1>3, <1>4, <1>5 DEF IndInv, RowsAgree, Decline

\* The row of a released or declined lease is deleted, or not.
LEMMA DeleteStep == ASSUME IndInv, NEW h \in Handlers, DeleteDHCPLease(h) PROVE IndInv'
<1>1. NoLease \in Lease BY DEF NoLease, Lease
<1>2. rows' \in [Macs -> Lease] /\ RowsAgree'
  <2>1. CASE rows' = rows BY <2>1 DEF IndInv, TypeOK, RowsAgree
  <2>2. CASE rows' = [rows EXCEPT ![task[h].mac] = NoLease]
    BY <1>1, <2>2 DEF IndInv, TypeOK, RowsAgree, UniqueIP, NoLease
  <2> QED BY <2>1, <2>2 DEF DeleteDHCPLease
<1>3. TypeOK'
  BY <1>1, <1>2 DEF IndInv, TypeOK, DeleteDHCPLease, Done, Become, allocVars, Idle
<1>4. TaskOK' BY DEF IndInv, TypeOK, TaskOK, DeleteDHCPLease, Done, Become, Idle
<1> QED BY <1>2, <1>3, <1>4 DEF IndInv, DeleteDHCPLease, allocVars, BindingsAgree, Has

\* Time passes, or reservations change: no lease does.
LEMMA QuietStep ==
    ASSUME IndInv, Tick \/ \E r \in Reservations : SetReservations(r)
    PROVE  IndInv'
<1>1. NoLease \in Lease BY DEF NoLease, Lease
<1>2. TypeOK' BY <1>1 DEF IndInv, TypeOK, Tick, SetReservations, allocVars
<1> QED BY <1>2 DEF IndInv, Tick, SetReservations, allocVars, TaskOK, BindingsAgree, Has, RowsAgree

\* A new process or a new listener restores the table.
LEMMA RestartStep == ASSUME IndInv, Reboot \/ Reconfigure PROVE IndInv'
<1>1. Restore BY DEF Reboot, Reconfigure
<1>2. UNCHANGED <<now, reserved, waits, using>> BY DEF Reboot, Reconfigure
<1>3. \A h \in Handlers : task'[h] \in {task[h], Idle} BY DEF Reboot, Reconfigure
<1>4. Idle \in [do : {"idle", "probe", "drop", "reoffer", "put", "delete"},
                mac : Macs \cup {NoMac}, lease : Lease]
  BY DEF Idle, NoLease, Lease
<1>5. task' = [h \in Handlers |-> task'[h]] BY DEF Reboot, Reconfigure
<1>6. task' \in [Handlers -> [do : {"idle", "probe", "drop", "reoffer", "put", "delete"},
                              mac : Macs \cup {NoMac}, lease : Lease]]
  BY <1>3, <1>4, <1>5 DEF IndInv, TypeOK
<1>7. TypeOK' BY <1>1, <1>2, <1>6, RestoreOK DEF IndInv, TypeOK
<1>8. TaskOK' BY <1>3 DEF IndInv, TaskOK, Idle
<1> QED BY <1>1, <1>7, <1>8, RestoreOK DEF IndInv

\* An empty allocator and an empty table.
LEMMA InitIndInv == Init => IndInv
<1> SUFFICES ASSUME Init PROVE IndInv OBVIOUS
<1> USE DEF Init, NoLease, Idle
<1>1. TypeOK BY DEF TypeOK, Lease
<1> QED BY <1>1 DEF IndInv, TaskOK, BindingsAgree, Has, RowsAgree, UniqueIP

\* Every step of the handlers, the clock, the registry and the operator preserves
\* IndInv.
LEMMA NextIndInv == IndInv /\ [Next]_vars => IndInv'
<1> SUFFICES ASSUME IndInv, [Next]_vars PROVE IndInv' OBVIOUS
<1>1. CASE Next
  BY <1>1, DiscoverStep, ProbeMissStep, ProbeHitStep, ProbeDropStep, ReofferStep, RequestStep,
     AckStep, ReleaseStep, DeclineStep, DeleteStep, QuietStep, RestartStep DEF Next
<1>2. CASE UNCHANGED vars
  BY <1>2 DEF vars, IndInv, TypeOK, TaskOK, BindingsAgree, Has, RowsAgree
<1> QED BY <1>1, <1>2

\* The allocator's maps and the lease table agree in every reachable state.
THEOREM Inductive == Spec => []IndInv
<1> QED BY InitIndInv, NextIndInv, PTL DEF Spec

\* No address ever has two holders, and no holder an address that is not in the other
\* map, whatever rules, evictions, releases, declines and restores the allocator has been
\* through.
THEOREM OneHolderPerAddress == Spec => []BindingsAgree
<1>1. IndInv => BindingsAgree BY DEF IndInv
<1> QED BY <1>1, Inductive, PTL

\* A tentative hold commits only an address nobody else is using, and for a client
\* with a live lease only the address of that lease.
LEMMA TentativeCommit ==
    ASSUME TypeOK, BindingsAgree, NEW m \in Macs, NEW a \in Addrs \cup {NoAddr},
           Decide(m, a, TRUE).do = "commit"
    PROVE  /\ ~HeldByAnother(Decide(m, a, TRUE).ip, m)
           /\ Held(m) /\ byMAC[m].ip \notin Protected => Decide(m, a, TRUE).ip = byMAC[m].ip
<1>1. Dynamic(m, a).do = "commit" => ~HeldByAnother(Dynamic(m, a).ip, m)
  <2>1. FreeFor(m) \in SUBSET Nat BY DhcpAssumption DEF FreeFor
  <2>2. FreeFor(m) # {} => Free(Lowest(FreeFor(m)), m) BY <2>1, LowestIn DEF FreeFor
  <2> QED BY <2>2 DEF Dynamic, Commit, Nothing, Free
<1>2. Has(m) => ~HeldByAnother(byMAC[m].ip, m) BY DEF BindingsAgree, HeldByAnother
<1>3. Renew(m, a, TRUE).do = "commit" =>
        /\ ~HeldByAnother(Renew(m, a, TRUE).ip, m)
        /\ Held(m) /\ byMAC[m].ip \notin Protected => Renew(m, a, TRUE).ip = byMAC[m].ip
  BY <1>1, <1>2 DEF Renew, Commit, Promise
<1> QED BY <1>3 DEF Decide, Commit, Promise

\* So an offer weakens no live lease.
LEMMA OfferKeepsLeases ==
    ASSUME IndInv, NEW m \in Macs, NEW a \in Addrs \cup {NoAddr},
           Offer(m, Decide(m, a, TRUE)), NEW n \in Macs
    PROVE  ~Weakened(n)
<1> DEFINE d == Decide(m, a, TRUE)
           l == Granted(m, d.ip, NoName, OfferHold, TRUE)
<1> SUFFICES ASSUME Held(n), byMAC[n].ip \notin Protected
             PROVE  byMAC'[n].ip = byMAC[n].ip /\ byMAC'[n].name = byMAC[n].name
                    /\ ~(byMAC'[n].expires < byMAC[n].expires)
  BY DEF Weakened
<1>1. TypeOK /\ BindingsAgree /\ Offer(m, d) BY DEF IndInv
<1>2. byMAC[n].expires \in Nat BY <1>1 DEF TypeOK, Lease
<1>3. CASE d.do # "commit"
  <2>1. byMAC' = byMAC BY <1>1, <1>3 DEF Offer
  <2> QED BY <1>2, <2>1
<1>4. CASE d.do = "commit"
  <2>1. d.ip \in Addrs BY <1>1, <1>4, DecideOK DEF IsOutcome
  <2>2. /\ ~HeldByAnother(d.ip, m)
        /\ Held(m) /\ byMAC[m].ip \notin Protected => d.ip = byMAC[m].ip
    BY <1>1, <1>4, TentativeCommit
  <2>3. StoreLease(m, l) BY <1>1, <1>4 DEF Offer
  <2>4. OfferHold \in Nat BY DhcpAssumption
  <2> HIDE DEF d
  <2>5. l.ip = d.ip BY DEF Granted
  <2>6. CASE n # m
    <3>1. n # byIP[d.ip] BY <2>2, <2>6, DhcpAssumption DEF HeldByAnother
    <3>2. byMAC'[n] = byMAC[n] BY <2>3, <2>5, <2>6, <3>1 DEF StoreLease
    <3> QED BY <1>2, <3>2
  <2>7. CASE n = m
    <3>1. byMAC'[n] = l BY <2>3, <2>7 DEF StoreLease
    <3>2. l = [ip |-> d.ip, name |-> byMAC[n].name,
               expires |-> Later(byMAC[n].expires, now + OfferHold)]
      BY <2>2, <2>7 DEF Granted
    <3>3. ~(Later(byMAC[n].expires, now + OfferHold) < byMAC[n].expires)
      BY <1>1, <1>2, <2>4 DEF Later, TypeOK
    <3>4. d.ip = byMAC[n].ip BY <2>2, <2>7
    <3> HIDE DEF l
    <3> QED BY <3>1, <3>2, <3>3, <3>4
  <2> QED BY <2>6, <2>7
<1> QED BY <1>3, <1>4

\* The release after a probe takes one address from one client.
LEMMA ProbeDropTakesBack ==
    ASSUME IndInv, NEW h \in Handlers, NEW n \in Macs, ProbeDrop(h), Weakened(n)
    PROVE  TakesBack(h, n)
<1>1. byMAC[n].expires \in Nat /\ task[h].mac \in Macs
  BY DEF IndInv, TypeOK, TaskOK, Lease, ProbeDrop
<1>2. byMAC'[n] # byMAC[n] BY <1>1 DEF Weakened
<1>3. /\ byMAC[task[h].mac].ip = task[h].lease.ip
      /\ byMAC' = [byMAC EXCEPT ![task[h].mac] = NoLease]
  BY <1>2 DEF ProbeDrop, Drop
<1>4. n = task[h].mac BY <1>1, <1>2, <1>3 DEF IndInv, TypeOK
<1> QED BY <1>3, <1>4 DEF TakesBack

\* No step of a DISCOVER, before, during or after its probe, weakens a live lease of any
\* client, but for the address it probed, which it takes back from the client it was
\* offered to.
THEOREM DiscoverTakesBackOnly == Spec => OfferHarmless
<1>1. ASSUME IndInv, NEW h \in Handlers, NEW n \in Macs, Weakened(n), Offering(h)
      PROVE  TakesBack(h, n)
  <2>1. CASE Reoffer(h)
    <3>1. task[h].mac \in Macs BY <1>1, <2>1 DEF IndInv, TaskOK, Reoffer
    <3>2. Offer(task[h].mac, Decide(task[h].mac, NoAddr, TRUE)) BY <2>1 DEF Reoffer
    <3> QED BY <1>1, <3>1, <3>2, OfferKeepsLeases
  <2>2. ASSUME NEW m \in Macs, NEW a \in Addrs \cup {NoAddr}, Discover(h, m, a) PROVE FALSE
    <3>1. Offer(m, Decide(m, a, TRUE)) BY <2>2 DEF Discover
    <3> QED BY <1>1, <3>1, OfferKeepsLeases
  <2>3. CASE ProbeMiss(h) \/ ProbeHit(h)
    <3>1. byMAC' = byMAC BY <2>3 DEF ProbeMiss, ProbeHit, allocVars
    <3>2. byMAC[n].expires \in Nat BY <1>1 DEF IndInv, TypeOK, Lease
    <3> QED BY <1>1, <3>1, <3>2 DEF Weakened
  <2>4. CASE ProbeDrop(h) BY <1>1, <2>4, ProbeDropTakesBack
  <2> QED BY <1>1, <2>1, <2>2, <2>3, <2>4 DEF Offering
<1>2. IndInv => [\A h \in Handlers, m \in Macs : Weakened(m) /\ Offering(h) => TakesBack(h, m)]_vars
  BY <1>1
<1> QED BY <1>2, Inductive, PTL DEF OfferHarmless

----------------------------------------------------------------------------
(* Hostnames, while one listener runs. *)

\* The two things a step does to the allocator's leases: commit one, or drop some.
Stores ==
    /\ now' = now
    /\ \E m \in Macs, a \in Addrs, name \in Names \cup {NoName}, ttl \in {OfferHold, LeaseTime},
          tentative \in BOOLEAN : StoreLease(m, Granted(m, a, name, ttl, tentative))
Keeps == now <= now' /\ \A m \in Macs : byMAC'[m] \in {byMAC[m], NoLease}

LEMMA AllocatorSteps == ASSUME IndInv, NeverRestored, [Next]_vars PROVE Stores \/ Keeps
<1>1. TypeOK /\ TaskOK /\ now \in Nat BY DEF IndInv, TypeOK
<1>2. CASE now' = now /\ byMAC' = byMAC BY <1>1, <1>2 DEF Keeps
<1>3. ASSUME NEW m \in Macs, NEW a \in Addrs \cup {NoAddr}, Offer(m, Decide(m, a, TRUE)), now' = now
      PROVE  Stores \/ Keeps
  <2> DEFINE d == Decide(m, a, TRUE)
  <2>1. IsOutcome(d) BY <1>1, DecideOK
  <2>2. Offer(m, d) BY <1>3
  <2> HIDE DEF d
  <2>3. CASE d.do = "commit" BY <1>3, <2>1, <2>2, <2>3 DEF Offer, Stores, IsOutcome
  <2>4. CASE d.do # "commit" BY <1>2, <1>3, <2>2, <2>4 DEF Offer
  <2> QED BY <2>3, <2>4
<1>4. ASSUME NEW h \in Handlers, NEW m \in Macs, NEW name \in Names \cup {NoName},
             NEW a \in Addrs \cup {NoAddr}, NEW c, Request(h, m, name, a, c)
      PROVE  Stores \/ Keeps
  <2> DEFINE d == Decide(m, a, FALSE)
  <2>1. IsOutcome(d) BY <1>1, DecideOK
  <2>2. now' = now BY <1>4 DEF Request
  <2>3. \/ byMAC' = byMAC
        \/ d.do = "commit" /\ StoreLease(m, Granted(m, d.ip, name, LeaseTime, FALSE))
    BY <1>4 DEF Request, RequestOutside, RequestAllocate
  <2> HIDE DEF d
  <2> QED BY <1>2, <2>1, <2>2, <2>3 DEF Stores, IsOutcome
<1>5. ASSUME NEW m \in Macs, byMAC' = [byMAC EXCEPT ![m] = NoLease], now' = now PROVE Keeps
  BY <1>1, <1>5 DEF TypeOK, Keeps
<1>6. ASSUME NEW h \in Handlers, NEW m \in Macs, Release(h, m) \/ Decline(h, m) PROVE Stores \/ Keeps
  BY <1>2, <1>5, <1>6 DEF Release, Decline, Drop, allocVars
<1>7. ASSUME NEW h \in Handlers, ProbeMiss(h) \/ ProbeHit(h) \/ Ack(h) \/ DeleteDHCPLease(h)
      PROVE  Stores \/ Keeps
  BY <1>2, <1>7 DEF ProbeMiss, ProbeHit, Ack, DeleteDHCPLease, allocVars
<1>8. ASSUME NEW h \in Handlers, ProbeDrop(h) PROVE Stores \/ Keeps
  <2>1. task[h].mac \in Macs BY <1>1, <1>8 DEF TaskOK, ProbeDrop
  <2> QED BY <1>2, <1>5, <1>8, <2>1 DEF ProbeDrop, Drop
<1>9. ASSUME NEW h \in Handlers, Reoffer(h) PROVE Stores \/ Keeps
  <2>1. task[h].mac \in Macs BY <1>1, <1>9 DEF TaskOK, Reoffer
  <2> QED BY <1>3, <1>9, <2>1 DEF Reoffer
<1>10. ASSUME NEW h \in Handlers, NEW m \in Macs, NEW a \in Addrs \cup {NoAddr}, Discover(h, m, a)
       PROVE  Stores \/ Keeps
  BY <1>3, <1>10 DEF Discover
<1>11. CASE Tick BY <1>1, <1>11 DEF Tick, Keeps, allocVars
<1>12. ASSUME NEW r \in Reservations, SetReservations(r) PROVE Stores \/ Keeps
  BY <1>2, <1>12 DEF SetReservations, allocVars
<1>13. ~Reboot /\ ~Reconfigure BY DEF NeverRestored, Reboot, Reconfigure
<1>14. CASE UNCHANGED vars BY <1>2, <1>14 DEF vars
<1> QED BY <1>4, <1>6, <1>7, <1>8, <1>9, <1>10, <1>11, <1>12, <1>13, <1>14 DEF Next

\* A commit keeps the client's own name or takes one no live lease has.
LEMMA StoreNames == ASSUME IndInv, NamesUnique, Stores PROVE NamesUnique'
<1>1. PICK m \in Macs, a \in Addrs, name \in Names \cup {NoName}, ttl \in {OfferHold, LeaseTime},
           tentative \in BOOLEAN : StoreLease(m, Granted(m, a, name, ttl, tentative))
  BY DEF Stores
<1> DEFINE l == Granted(m, a, name, ttl, tentative)
<1>2. now' = now BY DEF Stores
<1>3. l.name # NoName => \A n \in Macs \ {m} : Held(n) => byMAC[n].name # l.name
  <2>1. CASE tentative /\ Held(m) /\ byMAC[m].ip = a
    <3>1. l.name = byMAC[m].name BY <2>1 DEF Granted
    <3> QED BY <2>1, <3>1 DEF NamesUnique
  <2>2. CASE ~(tentative /\ Held(m) /\ byMAC[m].ip = a)
    <3>1. l.name = IF NameTaken(name, m) THEN NoName ELSE name BY <2>2 DEF Granted
    <3> QED BY <3>1 DEF NameTaken
  <2> QED BY <2>1, <2>2
<1>4. byMAC'[m] = l /\ \A n \in Macs \ {m} : byMAC'[n] \in {byMAC[n], NoLease}
  BY <1>1 DEF StoreLease
<1> HIDE DEF l
<1>5. \A n \in Macs \ {m} : Held(n)' => Held(n) /\ byMAC'[n] = byMAC[n]
  BY <1>2, <1>4 DEF Held, Live, NoLease
<1> SUFFICES ASSUME NEW p \in Macs, NEW n \in Macs, Held(p)', Held(n)',
                    byMAC'[p].name = byMAC'[n].name, byMAC'[p].name # NoName
             PROVE  p = n
  BY DEF NamesUnique
<1>6. CASE p # m /\ n # m BY <1>5, <1>6 DEF NamesUnique
<1>7. CASE p = m /\ n # m BY <1>3, <1>4, <1>5, <1>7
<1>8. CASE p # m /\ n = m BY <1>3, <1>4, <1>5, <1>8
<1> QED BY <1>6, <1>7, <1>8

\* Dropped and expired leases free their names.
LEMMA KeepNames == ASSUME IndInv, now' \in Nat, NamesUnique, Keeps PROVE NamesUnique'
<1>1. \A n \in Macs : Held(n)' => Held(n) /\ byMAC'[n] = byMAC[n]
  <2> SUFFICES ASSUME NEW n \in Macs, Held(n)' PROVE Held(n) /\ byMAC'[n] = byMAC[n] OBVIOUS
  <2>1. byMAC'[n] = byMAC[n] BY DEF Keeps, Held, Live, NoLease
  <2>2. byMAC[n].expires \in Nat /\ now \in Nat BY DEF IndInv, TypeOK, Lease
  <2>3. byMAC[n].expires > now' /\ now <= now' BY <2>1 DEF Held, Live, Keeps
  <2> QED BY <2>1, <2>2, <2>3 DEF Held, Live
<1> QED BY <1>1 DEF NamesUnique

\* No two live leases claim one hostname while one listener runs, whatever is reserved, lost
\* or not written, and whoever renews late (nameTakenLocked, commit).
THEOREM NamesAreUnique == NeverRestored => (Spec => []NamesUnique)
<1> SUFFICES ASSUME NeverRestored PROVE Spec => []NamesUnique OBVIOUS
<1>1. Init => NamesUnique BY DEF Init, NamesUnique, Held, Live, NoLease
<1>2. IndInv /\ IndInv' /\ NamesUnique /\ [Next]_vars => NamesUnique'
  <2> SUFFICES ASSUME IndInv, IndInv', NamesUnique, [Next]_vars PROVE NamesUnique' OBVIOUS
  <2>1. now' \in Nat BY DEF IndInv, TypeOK
  <2> QED BY <2>1, AllocatorSteps, StoreNames, KeepNames
<1> QED BY <1>1, <1>2, Inductive, PTL DEF Spec

----------------------------------------------------------------------------
(* What clients were ACKed, while nothing disturbs the listener. *)

\* With steady reservations nobody else can be on a client's reservation, and a client that
\* has a lease is given the same address again.
LEMMA SteadyDecide ==
    ASSUME TypeOK, BindingsAgree, Placed, NEW m \in Macs,
           NEW requested \in Addrs \cup {NoAddr}, NEW tentative \in BOOLEAN
    PROVE  LET d == Decide(m, requested, tentative)
           IN  /\ d.do \in {"commit", "none"}
               /\ Has(m) => d.do = "commit" /\ d.ip = byMAC[m].ip
               /\ d.do = "commit" => d.ip \in Addrs /\ WellPlaced(m, d.ip) /\ ~HeldByAnother(d.ip, m)
<1> DEFINE r == reserved[m]
<1>1. reserved \in [Macs -> Subnet \cup {NoAddr}] /\ \A n, k \in Macs : reserved[n] = reserved[k] /\ reserved[n] # NoAddr => n = k
  BY DhcpAssumption DEF TypeOK
<1>2. Has(m) => byMAC[m].ip \in Addrs /\ WellPlaced(m, byMAC[m].ip) /\ ~HeldByAnother(byMAC[m].ip, m)
  BY DEF Has, Placed, BindingsAgree, HeldByAnother, TypeOK, Lease
<1>3. CASE Pinned(m)
  <2>1. r \in Addrs /\ r # NoAddr /\ r \notin Protected BY <1>1, <1>3, DhcpAssumption DEF Pinned
  <2>2. ~HeldByAnother(r, m)
    <3> SUFFICES ASSUME byIP[r] \notin {NoMac, m} PROVE FALSE BY DEF HeldByAnother
    <3> DEFINE n == byIP[r]
    <3>1. n \in Macs /\ byMAC[n].ip = r BY <2>1 DEF TypeOK, BindingsAgree
    <3>2. WellPlaced(n, r) BY <2>1, <3>1 DEF Placed, Has
    <3>3. CASE Pinned(n) BY <1>1, <2>1, <3>1, <3>2, <3>3 DEF WellPlaced
    <3>4. CASE ~Pinned(n) BY <3>2, <3>4 DEF WellPlaced, ReservedTo
    <3> QED BY <3>3, <3>4
  <2>3. Has(m) => byMAC[m].ip = r BY <1>2, <1>3 DEF WellPlaced
  <2>4. Held(m) => Has(m) BY DEF Held, Live, Has
  <2>5. Decide(m, requested, tentative) = Commit(r, FALSE)
    BY <2>1, <2>2, <2>3, <2>4 DEF Decide
  <2>6. WellPlaced(m, r) BY <1>3 DEF WellPlaced
  <2> QED BY <2>1, <2>2, <2>3, <2>5, <2>6 DEF Commit
<1>4. CASE ~Pinned(m)
  <2>1. Decide(m, requested, tentative) = Renew(m, requested, tentative) BY <1>4 DEF Decide, Pinned
  <2>2. CASE Has(m)
    <3>1. Usable(byMAC[m].ip) /\ ReservedTo(byMAC[m].ip) = {} BY <1>2, <1>4, <2>2 DEF WellPlaced
    <3>2. Renew(m, requested, tentative) = Commit(byMAC[m].ip, ~Held(m)) BY <2>2, <3>1 DEF Renew
    <3> QED BY <1>2, <2>1, <2>2, <3>2 DEF Commit
  <2>3. CASE ~Has(m)
    <3>1. Renew(m, requested, tentative) = Dynamic(m, requested)
      BY <2>3 DEF Renew, Held, Live, Has
    <3>2. ASSUME NEW a, Free(a, m) PROVE a \in Addrs /\ WellPlaced(m, a) /\ ~HeldByAnother(a, m)
      <4>1. a \in Addrs /\ a \notin Protected /\ Usable(a) BY <3>2, DhcpAssumption DEF Free, Usable
      <4>2. ReservedTo(a) = {}
        <5>1. ReservedTo(a) \subseteq {m} BY <3>2 DEF Free
        <5>2. m \notin ReservedTo(a) BY <1>4, <4>1, DhcpAssumption DEF Pinned, ReservedTo
        <5> QED BY <5>1, <5>2
      <4> QED BY <1>4, <3>2, <4>1, <4>2 DEF WellPlaced, Free
    <3>3. FreeFor(m) # {} => Free(Lowest(FreeFor(m)), m)
      <4>1. FreeFor(m) \in SUBSET Nat BY DhcpAssumption DEF FreeFor
      <4> QED BY <4>1, LowestIn DEF FreeFor
    <3> QED BY <2>1, <2>3, <3>1, <3>2, <3>3 DEF Dynamic, Commit, Nothing
  <2> QED BY <2>2, <2>3
<1> QED BY <1>3, <1>4

\* What the client of a lease may rely on stays through the commits of everybody: its own
\* extend its lease, another's takes an address only after the lease ran out.
CoveredStays(n) ==
    \A u \in Lease : u.expires <= now + LeaseTime /\ Covered(n, u) => Covered(n, u)'

LEMMA SteadyStore ==
    ASSUME TypeOK, BindingsAgree, Placed, NEW m \in Macs, NEW a \in Addrs,
           NEW name \in Names \cup {NoName}, NEW ttl \in Nat, NEW tentative \in BOOLEAN,
           Has(m) => a = byMAC[m].ip, WellPlaced(m, a), ~HeldByAnother(a, m),
           tentative \/ ttl = LeaseTime,
           StoreLease(m, Granted(m, a, name, ttl, tentative)), now' = now, reserved' = reserved
    PROVE  /\ Placed' /\ \A n \in Macs : CoveredStays(n)
           /\ byMAC'[m] = Granted(m, a, name, ttl, tentative)
<1> DEFINE l == Granted(m, a, name, ttl, tentative)
<1>1. l \in Lease /\ l.ip = a BY GrantedOK
<1>2. StoreLease(m, l) OBVIOUS
<1>3. Held(m) => /\ tentative => byMAC[m].expires <= l.expires
                 /\ ~tentative => l.expires = now + LeaseTime
  <2>1. byMAC[m].expires \in Nat /\ now + ttl \in Nat BY DEF TypeOK, Lease
  <2>2. CASE tentative /\ Held(m)
    <3>1. l.expires = Later(byMAC[m].expires, now + ttl) BY <2>2 DEF Granted, Held, Live, Has
    <3>2. byMAC[m].expires <= Later(byMAC[m].expires, now + ttl) BY <2>1 DEF Later
    <3> QED BY <2>2, <3>1, <3>2
  <2>3. CASE ~tentative BY <2>3 DEF Granted
  <2> QED BY <2>2, <2>3
<1> HIDE DEF l
<1>4. byMAC'[m] = l /\ \A n \in Macs \ {m} : byMAC'[n] = IF n = byIP[a] THEN NoLease ELSE byMAC[n]
  BY <1>1, <1>2 DEF StoreLease
<1>5. \A n \in Macs : \A b : WellPlaced(n, b)' <=> WellPlaced(n, b)
  BY DEF WellPlaced, Pinned, ReservedTo
<1>6. Placed' BY <1>1, <1>4, <1>5 DEF Placed, Has, NoLease
<1>7. ASSUME NEW n \in Macs, NEW u \in Lease, u.expires <= now + LeaseTime, Covered(n, u)
      PROVE  Covered(n, u)'
  <2> SUFFICES ASSUME Live(u) PROVE byMAC'[n].ip = u.ip /\ u.expires <= byMAC'[n].expires
    BY DEF Covered, Live
  <2>1. byMAC[n].ip = u.ip /\ u.expires <= byMAC[n].expires /\ u.ip # NoAddr /\ u.expires > now
    BY <1>7 DEF Covered, Live
  <2>2. byMAC[n].expires \in Nat /\ u.expires \in Nat /\ now \in Nat BY DEF TypeOK, Lease
  <2>3. Held(n) /\ Has(n) BY <2>1, <2>2 DEF Held, Live, Has
  <2>4. CASE n # m
    <3>1. n # byIP[a] BY <2>3, <2>4, DhcpAssumption DEF HeldByAnother
    <3> QED BY <1>4, <2>1, <2>4, <3>1
  <2>5. CASE n = m
    <3>1. l.ip = u.ip BY <1>1, <2>1, <2>3, <2>5
    <3>2. l.expires \in Nat BY <1>1 DEF Lease
    <3>3. u.expires <= l.expires BY <1>3, <1>7, <2>1, <2>2, <2>3, <2>5, <3>2
    <3> QED BY <1>4, <2>5, <3>1, <3>3
  <2> QED BY <2>4, <2>5
<1>8. \A n \in Macs : CoveredStays(n) BY <1>7 DEF CoveredStays
<1> QED BY <1>4, <1>6, <1>8 DEF l

\* Enough for a step that makes no new promise: who is not in K gave its address up.
LEMMA PromisesKept ==
    ASSUME IndInv, Promised, now' = now, NEW K \in SUBSET Macs,
           \A n \in K : CoveredStays(n) /\ using'[n] \in {using[n], NoLease},
           \A n \in Macs \ K : using'[n] = NoLease /\ waits'[n] = NoMac,
           \A h \in Handlers : task'[h].do # "drop",
           \A h \in Handlers : task'[h].do = "put" =>
               task'[h] = task[h] /\ waits'[task[h].mac] \in {waits[task[h].mac], NoMac}
    PROVE  Promised'
<1>1. LeaseTime \in Nat /\ now \in Nat /\ 0 <= now + LeaseTime BY DhcpAssumption DEF IndInv, TypeOK
<1>2. \A m \in Macs : ~Live(NoLease)' /\ Covered(m, NoLease)' /\ NoLease.expires <= now + LeaseTime
  BY <1>1 DEF Covered, Live, NoLease
<1>3. \A m \in Macs : using'[m].expires <= now + LeaseTime /\ Covered(m, using[m])'
  <2> SUFFICES ASSUME NEW m \in Macs PROVE using'[m].expires <= now + LeaseTime /\ Covered(m, using[m])'
    OBVIOUS
  <2>1. CASE using'[m] = NoLease
    <3>1. NoLease.expires = 0 /\ NoLease.ip = NoAddr BY DEF NoLease
    <3> QED BY <1>1, <2>1, <3>1 DEF Covered, Live
  <2>2. CASE m \in K /\ using'[m] = using[m]
    <3>1. using[m] \in Lease /\ using[m].expires <= now + LeaseTime /\ Covered(m, using[m])
      BY DEF IndInv, TypeOK, Promised
    <3>2. PICK u \in Lease : u = using[m] BY <3>1
    <3>3. Covered(m, u)' BY <2>2, <3>1, <3>2 DEF CoveredStays
    <3> QED BY <2>2, <3>1, <3>2, <3>3 DEF Covered
  <2> QED BY <2>1, <2>2
<1>4. ASSUME NEW h \in Handlers, task'[h].do = "put"
      PROVE  /\ task'[h].lease.expires <= now + LeaseTime
             /\ waits'[task'[h].mac] = h => Covered(task[h].mac, task[h].lease)'
  <2>1. PICK t : t = task[h] /\ t = task'[h] BY <1>4
  <2>2. t.lease \in Lease /\ t.mac \in Macs /\ t.lease.expires <= now + LeaseTime
    BY <1>4, <2>1 DEF IndInv, TypeOK, TaskOK, Promised
  <2> SUFFICES ASSUME waits'[t.mac] = h PROVE Covered(t.mac, t.lease)' BY <2>1, <2>2 DEF Covered
  <2>3. waits[t.mac] = h /\ t.mac \in K BY <1>4, <2>1, <2>2, DhcpAssumption
  <2>4. Covered(t.mac, t.lease) BY <1>4, <2>1, <2>3 DEF Promised
  <2> QED BY <2>2, <2>3, <2>4 DEF CoveredStays
<1> QED BY <1>3, <1>4 DEF Promised

\* A step that leaves the allocator's leases and the clock alone.
LEMMA UnchangedStays ==
    ASSUME UNCHANGED <<byMAC, now>>, NEW n PROVE CoveredStays(n)
BY DEF CoveredStays, Covered, Live

LEMMA UnchangedPlaced == ASSUME Placed, UNCHANGED <<byMAC, reserved>> PROVE Placed'
BY DEF Placed, WellPlaced, Pinned, Has, ReservedTo

\* An offer, first or second.
LEMMA OfferSteady ==
    ASSUME IndInv, Placed, NEW m \in Macs, NEW a \in Addrs \cup {NoAddr},
           Offer(m, Decide(m, a, TRUE)), now' = now, reserved' = reserved
    PROVE  Placed' /\ \A n \in Macs : CoveredStays(n)
<1> DEFINE d == Decide(m, a, TRUE)
<1>1. TypeOK /\ BindingsAgree BY DEF IndInv
<1>2. /\ d.do \in {"commit", "none"}
      /\ Has(m) => d.do = "commit" /\ d.ip = byMAC[m].ip
      /\ d.do = "commit" => d.ip \in Addrs /\ WellPlaced(m, d.ip) /\ ~HeldByAnother(d.ip, m)
  BY <1>1, SteadyDecide
<1>3. Offer(m, d) OBVIOUS
<1> HIDE DEF d
<1>4. CASE d.do = "commit"
  <2>1. OfferHold \in Nat /\ NoName \in Names \cup {NoName} BY DhcpAssumption
  <2>2. StoreLease(m, Granted(m, d.ip, NoName, OfferHold, TRUE)) BY <1>3, <1>4 DEF Offer
  <2> QED BY <1>1, <1>2, <1>4, <2>1, <2>2, SteadyStore
<1>5. CASE d.do # "commit" BY <1>3, <1>5, UnchangedStays, UnchangedPlaced DEF Offer
<1> QED BY <1>4, <1>5

\* A REQUEST: what is put and then ACKed is what the allocator has stored.
LEMMA RequestSteady ==
    ASSUME SteadyInv, NEW h \in Handlers, NEW m \in Macs, NEW name \in Names \cup {NoName},
           NEW a \in Addrs \cup {NoAddr}, NEW c, Request(h, m, name, a, c)
    PROVE  Placed' /\ Promised'
<1> DEFINE asked == AskedFor(a, c)
           d == Decide(m, a, FALSE)
           l == Granted(m, d.ip, name, LeaseTime, FALSE)
<1>1. IndInv /\ Placed /\ Promised /\ TypeOK /\ BindingsAgree BY DEF SteadyInv, IndInv
<1>2. now' = now /\ reserved' = reserved BY DEF Request
<1>3. /\ Has(m) => d.do = "commit" /\ d.ip = byMAC[m].ip
      /\ d.do = "commit" => d.ip \in Addrs /\ WellPlaced(m, d.ip) /\ ~HeldByAnother(d.ip, m)
  BY <1>1, SteadyDecide
<1>4. ASSUME d.do = "commit", StoreLease(m, l)
      PROVE  /\ Placed' /\ \A n \in Macs : CoveredStays(n)
             /\ byMAC'[m] = l /\ l \in Lease /\ l.expires = now + LeaseTime
  <2>1. LeaseTime \in Nat BY DhcpAssumption
  <2>2. l.expires = now + LeaseTime BY DEF Granted
  <2> HIDE DEF d
  <2>3. l \in Lease BY <1>1, <1>3, <1>4, <2>1, GrantedOK
  <2> QED BY <1>1, <1>2, <1>3, <1>4, <2>1, <2>2, <2>3, SteadyStore
<1>5. ASSUME Nak(m), UNCHANGED task, Placed', \A n \in Macs : CoveredStays(n) PROVE Placed' /\ Promised'
  <2>1. \A n \in Macs : using'[n] \in {using[n], NoLease} /\ waits'[n] \in {waits[n], NoMac}
    BY <1>1, <1>5 DEF Nak, TypeOK
  <2>2. \A k \in Handlers : task[k].do = "put" => task[k].mac \in Macs BY <1>1 DEF IndInv, TaskOK
  <2> QED BY <1>1, <1>2, <1>5, <2>1, <2>2, PromisesKept DEF Promised
<1>6. ASSUME d.do = "commit", StoreLease(m, l),
             task' = [task EXCEPT ![h] = [do |-> "put", mac |-> m, lease |-> l]],
             waits' = [waits EXCEPT ![m] = h], UNCHANGED using, task[h].do = "idle"
      PROVE  Placed' /\ Promised'
  <2>1. Placed' /\ (\A n \in Macs : CoveredStays(n)) /\ byMAC'[m] = l /\ l \in Lease /\ l.expires = now + LeaseTime
    BY <1>4, <1>6
  <2> HIDE DEF l, d
  <2>2. /\ task'[h] = [do |-> "put", mac |-> m, lease |-> l]
        /\ \A k \in Handlers \ {h} : task'[k] = task[k]
        /\ waits'[m] = h /\ \A n \in Macs \ {m} : waits'[n] = waits[n]
    BY <1>1, <1>6 DEF TypeOK
  <2>3. task'[h].do = "put" /\ task'[h].mac = m /\ task'[h].lease = l BY <2>2
  <2>4. \A n \in Macs : using'[n].expires <= now' + LeaseTime /\ Covered(n, using[n])'
    <3> SUFFICES ASSUME NEW n \in Macs PROVE using'[n].expires <= now' + LeaseTime /\ Covered(n, using[n])'
      OBVIOUS
    <3>1. PICK u \in Lease : u = using[n] /\ u = using'[n] BY <1>1, <1>6 DEF TypeOK
    <3>2. u.expires <= now + LeaseTime /\ Covered(n, u) BY <1>1, <3>1 DEF Promised
    <3>3. Covered(n, u)' BY <2>1, <3>2 DEF CoveredStays
    <3> QED BY <1>2, <3>1, <3>2, <3>3 DEF Covered
  <2>5. \A k \in Handlers : task'[k].do # "drop" BY <1>1, <2>2, <2>3 DEF Promised
  <2>6. ASSUME NEW k \in Handlers, task'[k].do = "put"
        PROVE  /\ task'[k].lease.expires <= now' + LeaseTime
               /\ waits'[task'[k].mac] = k => Covered(task[k].mac, task[k].lease)'
    <3>1. CASE k = h
      <4>1. PICK t : t = task'[k] OBVIOUS
      <4>2. t.mac = m /\ t.lease = l BY <2>3, <3>1, <4>1
      <4>3. PICK u \in Lease : u = l /\ u = byMAC'[m] BY <2>1
      <4>4. u.expires \in Nat BY DEF Lease
      <4>5. u.expires <= u.expires BY <4>4
      <4>6. t.lease.expires = now + LeaseTime /\ LeaseTime \in Nat /\ now \in Nat
        BY <1>1, <2>1, <4>2, DhcpAssumption DEF TypeOK
      <4>7. t.lease.expires <= now + LeaseTime BY <4>6
      <4>8. byMAC'[t.mac].ip = t.lease.ip /\ t.lease.expires <= byMAC'[t.mac].expires
        BY <4>2, <4>3, <4>5
      <4> QED BY <1>2, <4>1, <4>7, <4>8 DEF Covered
    <3>2. CASE k # h
      <4>1. PICK t : t = task[k] /\ t = task'[k] BY <2>2, <3>2
      <4>2. t.lease \in Lease /\ t.mac \in Macs /\ t.lease.expires <= now + LeaseTime
        BY <1>1, <2>6, <4>1 DEF IndInv, TypeOK, TaskOK, Promised
      <4> SUFFICES ASSUME waits'[t.mac] = k PROVE Covered(t.mac, t.lease)' BY <1>2, <4>1, <4>2 DEF Covered
      <4>3. waits[t.mac] = k BY <2>2, <3>2, <4>2
      <4>4. Covered(t.mac, t.lease) BY <1>1, <2>6, <4>1, <4>3 DEF Promised
      <4> QED BY <2>1, <4>2, <4>4 DEF CoveredStays
    <3> QED BY <3>1, <3>2
  <2> QED BY <2>1, <2>4, <2>5, <2>6 DEF Promised
<1>7. ASSUME Nak(m), UNCHANGED <<byMAC, byIP, task>> PROVE Placed' /\ Promised'
  BY <1>1, <1>2, <1>5, <1>7, UnchangedStays, UnchangedPlaced
<1>8. task[h].do = "idle" /\ (RequestOutside(m, asked) \/ RequestAllocate(h, m, name, a, asked))
  BY DEF Request
<1> HIDE DEF asked
<1>9. ASSUME d.do = "commit", StoreLease(m, l), Nak(m), UNCHANGED task PROVE Placed' /\ Promised'
  BY <1>4, <1>5, <1>9
<1> QED BY <1>6, <1>7, <1>8, <1>9 DEF RequestOutside, RequestAllocate, Become

\* The ACK gives the client it finds waiting what was promised to it.
LEMMA AckSteady == ASSUME SteadyInv, NEW h \in Handlers, Ack(h) PROVE Placed' /\ Promised'
<1> DEFINE m == task[h].mac
           l == task[h].lease
<1>1. IndInv /\ Placed /\ Promised /\ TypeOK BY DEF SteadyInv, IndInv
<1>2. task[h].do = "put" /\ m \in Macs /\ l \in Lease BY <1>1 DEF Ack, IndInv, TaskOK, TypeOK
<1>3. UNCHANGED <<now, byMAC, reserved>> BY DEF Ack, allocVars
<1>4. Placed' BY <1>1, <1>3, UnchangedPlaced
<1>5. /\ task'[h] = Idle /\ \A k \in Handlers \ {h} : task'[k] = task[k]
      /\ \A n \in Macs : waits'[n] \in {waits[n], NoMac}
      /\ \A n \in Macs \ {m} : using'[n] = using[n]
      /\ using'[m] = using[m] \/ (waits[m] = h /\ using'[m] = [l EXCEPT !.name = NoName])
  BY <1>1, <1>2 DEF Ack, Done, Become, TypeOK
<1>6. ASSUME NEW n \in Macs, NEW u \in Lease PROVE Covered(n, u)' <=> Covered(n, u)
  BY <1>3 DEF Covered, Live
<1>7. \A n \in Macs : using'[n].expires <= now' + LeaseTime /\ Covered(n, using[n])'
  <2> SUFFICES ASSUME NEW n \in Macs PROVE using'[n].expires <= now' + LeaseTime /\ Covered(n, using[n])'
    OBVIOUS
  <2>1. CASE using'[n] = using[n]
    <3>1. using[n].expires <= now + LeaseTime /\ Covered(n, using[n]) BY <1>1 DEF Promised
    <3> QED BY <1>3, <2>1, <3>1 DEF Covered, Live
  <2>2. CASE n = m /\ waits[m] = h /\ using'[m] = [l EXCEPT !.name = NoName]
    <3>1. using'[m].ip = l.ip /\ using'[m].expires = l.expires BY <1>2, <2>2 DEF Lease
    <3>2. l.expires <= now + LeaseTime /\ Covered(m, l) BY <1>1, <1>2, <2>2 DEF Promised
    <3> QED BY <1>3, <2>2, <3>1, <3>2 DEF Covered, Live
  <2> QED BY <1>5, <2>1, <2>2
<1>8. \A k \in Handlers : task'[k].do # "drop" BY <1>1, <1>5 DEF Promised, Idle
<1>9. ASSUME NEW k \in Handlers, task'[k].do = "put"
      PROVE  /\ task'[k].lease.expires <= now' + LeaseTime
             /\ waits'[task'[k].mac] = k => Covered(task[k].mac, task[k].lease)'
  <2>1. k # h BY <1>5, <1>9 DEF Idle
  <2>2. PICK t : t = task[k] /\ t = task'[k] BY <1>5, <2>1
  <2>3. t.lease \in Lease /\ t.mac \in Macs /\ t.lease.expires <= now + LeaseTime
    BY <1>1, <1>9, <2>2 DEF IndInv, TypeOK, TaskOK, Promised
  <2> SUFFICES ASSUME waits'[t.mac] = k PROVE Covered(t.mac, t.lease)' BY <1>3, <2>2, <2>3 DEF Covered
  <2>4. waits[t.mac] = k BY <1>5, <2>3, DhcpAssumption
  <2>5. Covered(t.mac, t.lease) BY <1>1, <1>9, <2>2, <2>4 DEF Promised
  <2> QED BY <1>6, <2>3, <2>5
<1> QED BY <1>4, <1>7, <1>8, <1>9 DEF Promised

\* The client that gives its address up is the one whose lease is dropped.
LEMMA GiveUpSteady ==
    ASSUME SteadyInv, NEW h \in Handlers, NEW m \in Macs, Release(h, m) \/ Decline(h, m)
    PROVE  Placed' /\ Promised'
<1>1. IndInv /\ Placed /\ Promised /\ TypeOK BY DEF SteadyInv, IndInv
<1>2. /\ now' = now /\ reserved' = reserved
      /\ byMAC' \in {byMAC, [byMAC EXCEPT ![m] = NoLease]}
      /\ GiveUp(m)
      /\ task' \in {task, [task EXCEPT ![h] = [do |-> "delete", mac |-> m, lease |-> NoLease]]}
  BY DEF Release, Decline, Drop, allocVars, Become
<1>3. \A n \in Macs \ {m} : byMAC'[n] = byMAC[n] /\ using'[n] = using[n] /\ waits'[n] = waits[n]
  BY <1>1, <1>2 DEF GiveUp, TypeOK
<1>4. using'[m] = NoLease /\ waits'[m] = NoMac BY <1>1, <1>2 DEF GiveUp, TypeOK
<1>5. byMAC'[m] \in {byMAC[m], NoLease} BY <1>1, <1>2 DEF TypeOK
<1>6. Placed' BY <1>1, <1>2, <1>3, <1>5 DEF Placed, Has, WellPlaced, Pinned, ReservedTo, NoLease
<1>7. \A n \in Macs \ {m} : CoveredStays(n) BY <1>2, <1>3 DEF CoveredStays, Covered, Live
<1>8. \A k \in Handlers : task'[k] = task[k] \/ task'[k].do = "delete" BY <1>1, <1>2 DEF TypeOK
<1>9. \A k \in Handlers : /\ task'[k].do # "drop"
                          /\ task'[k].do = "put" => task'[k] = task[k]
  BY <1>1, <1>8 DEF Promised
<1>10. \A k \in Handlers : task'[k].do = "put" =>
           task'[k] = task[k] /\ waits'[task[k].mac] \in {waits[task[k].mac], NoMac}
  <2> SUFFICES ASSUME NEW k \in Handlers, task'[k].do = "put"
               PROVE  waits'[task[k].mac] \in {waits[task[k].mac], NoMac}
    BY <1>9
  <2>1. task[k].mac \in Macs BY <1>1, <1>9 DEF IndInv, TaskOK
  <2> QED BY <1>3, <1>4, <2>1
<1>11. Promised'
  <2> DEFINE K == Macs \ {m}
  <2>1. K \in SUBSET Macs /\ Macs \ K = {m} OBVIOUS
  <2>2. \A n \in K : CoveredStays(n) /\ using'[n] \in {using[n], NoLease} BY <1>3, <1>7
  <2>3. \A n \in Macs \ K : using'[n] = NoLease /\ waits'[n] = NoMac BY <1>4, <2>1
  <2> HIDE DEF K
  <2> QED BY <1>1, <1>2, <1>9, <1>10, <2>1, <2>2, <2>3, PromisesKept
<1> QED BY <1>6, <1>11

\* A tick ends leases; it gives no one an address.
LEMMA TickSteady == ASSUME SteadyInv, Tick PROVE Placed' /\ Promised'
<1>1. IndInv /\ Placed /\ Promised /\ TypeOK /\ now \in Nat /\ LeaseTime \in Nat
  BY DhcpAssumption DEF SteadyInv, IndInv, TypeOK
<1>2. now' = now + 1 /\ UNCHANGED <<byMAC, reserved, task, waits>> BY DEF Tick, allocVars
<1>3. Placed' BY <1>1, <1>2, UnchangedPlaced
<1>4. ASSUME NEW n \in Macs, NEW u \in Lease, u.expires <= now + LeaseTime, Covered(n, u)
      PROVE  u.expires <= now' + LeaseTime /\ Covered(n, u)'
  <2>1. u.expires \in Nat BY DEF Lease
  <2>2. Live(u)' => Live(u) BY <1>1, <1>2, <2>1 DEF Live
  <2>3. u.expires <= now' + LeaseTime BY <1>1, <1>2, <1>4, <2>1
  <2> QED BY <1>2, <1>4, <2>2, <2>3 DEF Covered
<1>5. \A n \in Macs : using'[n].expires <= now' + LeaseTime /\ Covered(n, using[n])'
  <2> SUFFICES ASSUME NEW n \in Macs PROVE using'[n].expires <= now' + LeaseTime /\ Covered(n, using[n])'
    OBVIOUS
  <2>1. CASE using'[n] = NoLease
    <3>1. using'[n].expires = 0 /\ using'[n].ip = NoAddr BY <2>1 DEF NoLease
    <3>2. 0 <= now' + LeaseTime BY <1>1, <1>2
    <3> QED BY <3>1, <3>2 DEF Covered, Live
  <2>2. CASE using'[n] = using[n]
    <3>1. PICK u \in Lease : u = using[n] /\ u = using'[n] BY <1>1, <2>2 DEF TypeOK
    <3>2. u.expires <= now + LeaseTime /\ Covered(n, u) BY <1>1, <3>1 DEF Promised
    <3>3. u.expires <= now' + LeaseTime /\ Covered(n, u)' BY <1>4, <3>2
    <3> QED BY <3>1, <3>3 DEF Covered
  <2> QED BY <2>1, <2>2 DEF Tick
<1>6. ASSUME NEW k \in Handlers, task'[k].do = "put"
      PROVE  /\ task'[k].lease.expires <= now' + LeaseTime
             /\ waits'[task'[k].mac] = k => Covered(task[k].mac, task[k].lease)'
  <2>1. PICK t : t = task[k] /\ t = task'[k] BY <1>2
  <2>2. t.lease \in Lease /\ t.mac \in Macs /\ t.lease.expires <= now + LeaseTime /\ t.lease.expires \in Nat
    BY <1>1, <1>6, <2>1 DEF IndInv, TypeOK, TaskOK, Promised, Lease
  <2>3. t.lease.expires <= now' + LeaseTime BY <1>1, <1>2, <2>2
  <2> SUFFICES ASSUME waits'[t.mac] = k PROVE Covered(t.mac, t.lease)' BY <2>1, <2>2, <2>3 DEF Covered
  <2>4. Covered(t.mac, t.lease) BY <1>1, <1>2, <1>6, <2>1 DEF Promised
  <2> QED BY <1>4, <2>2, <2>4
<1>7. \A k \in Handlers : task'[k].do # "drop" BY <1>1, <1>2 DEF Promised
<1> QED BY <1>3, <1>5, <1>6, <1>7 DEF Promised

\* A step of one handler that promises nothing: it leaves the clients, the clock and the
\* tasks of the others alone.
LEMMA QuietSteady ==
    ASSUME SteadyInv, NEW h \in Handlers, NEW t, t.do \in {"idle", "probe"},
           Become(h, t), UNCHANGED <<now, waits, using>>, Placed',
           \A n \in Macs : CoveredStays(n)
    PROVE  Placed' /\ Promised'
<1>1. IndInv /\ Promised /\ TypeOK BY DEF SteadyInv, IndInv
<1>2. \A k \in Handlers : task'[k] = task[k] \/ task'[k].do \in {"idle", "probe"}
  BY <1>1 DEF Become, TypeOK
<1>3. \A k \in Handlers : /\ task'[k].do # "drop"
                          /\ task'[k].do = "put" => task'[k] = task[k]
  BY <1>1, <1>2 DEF Promised
<1> QED BY <1>1, <1>3, PromisesKept

LEMMA DiscoverSteady ==
    ASSUME SteadyInv, NEW h \in Handlers, NEW m \in Macs, NEW a \in Addrs \cup {NoAddr},
           Discover(h, m, a)
    PROVE  Placed' /\ Promised'
<1> DEFINE d == Decide(m, a, TRUE)
           t == IF d.fresh THEN [do |-> "probe", mac |-> m, lease |-> [NoLease EXCEPT !.ip = d.ip]]
                ELSE Idle
<1>1. Offer(m, d) /\ Become(h, t) /\ UNCHANGED <<now, reserved, waits, using>> BY DEF Discover
<1>2. t.do \in {"idle", "probe"} BY DEF Idle
<1>3. Placed' /\ \A n \in Macs : CoveredStays(n) BY <1>1, OfferSteady DEF SteadyInv
<1> HIDE DEF d, t
<1> QED BY <1>1, <1>2, <1>3, QuietSteady

LEMMA ReofferSteady == ASSUME SteadyInv, NEW h \in Handlers, Reoffer(h) PROVE Placed' /\ Promised'
<1>1. task[h].mac \in Macs BY DEF Reoffer, SteadyInv, IndInv, TaskOK
<1>2. /\ Offer(task[h].mac, Decide(task[h].mac, NoAddr, TRUE)) /\ Become(h, Idle)
      /\ UNCHANGED <<now, reserved, waits, using>>
  BY DEF Reoffer, Done
<1>3. Placed' /\ \A n \in Macs : CoveredStays(n) BY <1>1, <1>2, OfferSteady DEF SteadyInv
<1>4. Idle.do \in {"idle", "probe"} BY DEF Idle
<1> QED BY <1>2, <1>3, <1>4, QuietSteady

LEMMA EndSteady ==
    ASSUME SteadyInv, NEW h \in Handlers, ProbeMiss(h) \/ DeleteDHCPLease(h)
    PROVE  Placed' /\ Promised'
<1>1. Become(h, Idle) /\ UNCHANGED <<now, byMAC, reserved, waits, using>>
  BY DEF ProbeMiss, DeleteDHCPLease, Done, allocVars
<1>2. Placed' /\ \A n \in Macs : CoveredStays(n)
  BY <1>1, UnchangedStays, UnchangedPlaced DEF SteadyInv
<1>3. Idle.do \in {"idle", "probe"} BY DEF Idle
<1> QED BY <1>1, <1>2, <1>3, QuietSteady

\* A step that changes nothing the promises are about: the same reservations set again.
LEMMA StutterSteady ==
    ASSUME SteadyInv, UNCHANGED <<now, byMAC, reserved, task, waits, using>>
    PROVE  Placed' /\ Promised'
BY UnchangedPlaced DEF SteadyInv, Promised, Covered, Live

\* With steady reservations and one listener the promises are inductive.
LEMMA SteadyNext == ASSUME Steady, SteadyInv, [Next]_vars PROVE SteadyInv'
<1>1. IndInv' BY NextIndInv DEF SteadyInv
<1>2. "probe" \notin Faults /\ "reboot" \notin Faults /\ "reconfigure" \notin Faults BY DEF Steady
<1>3. reserved \in Reservations /\ \A h \in Handlers : task[h].do # "drop"
  BY DEF SteadyInv, IndInv, TypeOK, Promised
<1>4. Placed' /\ Promised'
  <2>1. CASE UNCHANGED vars BY <2>1, StutterSteady DEF vars
  <2>2. ASSUME NEW h \in Handlers, NEW m \in Macs, NEW a \in Addrs \cup {NoAddr}, Discover(h, m, a)
        PROVE  Placed' /\ Promised'
    BY <2>2, DiscoverSteady
  <2>3. ASSUME NEW h \in Handlers, NEW m \in Macs, NEW name \in Names \cup {NoName},
               NEW a \in Addrs \cup {NoAddr}, NEW c, Request(h, m, name, a, c)
        PROVE  Placed' /\ Promised'
    BY <2>3, RequestSteady
  <2>4. ASSUME NEW h \in Handlers, NEW m \in Macs, Release(h, m) \/ Decline(h, m)
        PROVE  Placed' /\ Promised'
    BY <2>4, GiveUpSteady
  <2>5. ASSUME NEW h \in Handlers, ProbeMiss(h) \/ DeleteDHCPLease(h) PROVE Placed' /\ Promised'
    BY <2>5, EndSteady
  <2>6. ASSUME NEW h \in Handlers PROVE ~ProbeHit(h) /\ ~ProbeDrop(h)
    BY <1>2, <1>3 DEF ProbeHit, ProbeDrop
  <2>7. ASSUME NEW h \in Handlers, Reoffer(h) PROVE Placed' /\ Promised' BY <2>7, ReofferSteady
  <2>8. ASSUME NEW h \in Handlers, Ack(h) PROVE Placed' /\ Promised' BY <2>8, AckSteady
  <2>9. ASSUME NEW r \in Reservations, SetReservations(r) PROVE Placed' /\ Promised'
    <3>1. reserved' = reserved BY <1>3, <2>9 DEF Steady, SetReservations
    <3> QED BY <2>9, <3>1, StutterSteady DEF SetReservations, allocVars
  <2>10. CASE Tick BY <2>10, TickSteady
  <2>11. ~Reboot /\ ~Reconfigure BY <1>2 DEF Reboot, Reconfigure
  <2> QED BY <2>1, <2>2, <2>3, <2>4, <2>5, <2>6, <2>7, <2>8, <2>9, <2>10, <2>11 DEF Next
<1> QED BY <1>1, <1>4 DEF SteadyInv

LEMMA SteadyInit == ASSUME Init PROVE SteadyInv
<1>1. IndInv BY InitIndInv
<1>2. now \in Nat /\ LeaseTime \in Nat BY DhcpAssumption DEF Init
<1>3. 0 <= now + LeaseTime BY <1>2
<1>4. \A m \in Macs : byMAC[m] = NoLease /\ using[m] = NoLease BY DEF Init
<1>5. NoLease.ip = NoAddr /\ NoLease.expires = 0 BY DEF NoLease
<1>6. \A h \in Handlers : task[h].do = "idle" BY DEF Init, Idle
<1>7. Placed BY <1>4, <1>5 DEF Placed, Has
<1>8. Promised BY <1>3, <1>4, <1>5, <1>6 DEF Promised, Covered, Live
<1> QED BY <1>1, <1>7, <1>8 DEF SteadyInv

\* While one listener runs, the reservations stay as they are and no probe answers,
\* the address a client was ACKed is bound to it for as long as it may use it: whatever
\* packets and rows are lost, however many handlers answer at once.
THEOREM AckedStaysBound == Steady => (Spec => []AckedBound)
<1> SUFFICES ASSUME Steady PROVE Spec => []AckedBound OBVIOUS
<1>1. SteadyInv => AckedBound BY DEF SteadyInv, Promised, Covered, AckedBound
<1>2. Init => SteadyInv BY SteadyInit
<1>3. SteadyInv /\ [Next]_vars => SteadyInv' BY SteadyNext
<1> QED BY <1>1, <1>2, <1>3, PTL DEF Spec

\* Under the same conditions no two clients use one address at once.
THEOREM NoAddressUsedTwice == Steady => (Spec => []NoDoubleUse)
<1> SUFFICES ASSUME Steady PROVE Spec => []NoDoubleUse OBVIOUS
<1>1. SteadyInv => NoDoubleUse
  <2> SUFFICES ASSUME SteadyInv, NEW m \in Macs, NEW n \in Macs,
                      Live(using[m]), Live(using[n]), using[m].ip = using[n].ip
               PROVE  m = n
    BY DEF NoDoubleUse
  <2>1. byMAC[m].ip = using[m].ip /\ byMAC[n].ip = using[n].ip /\ using[m].ip # NoAddr
    BY DEF SteadyInv, Promised, Covered, Live
  <2> QED BY <2>1 DEF SteadyInv, IndInv, BindingsAgree, Has
<1>2. Init => SteadyInv BY SteadyInit
<1>3. SteadyInv /\ [Next]_vars => SteadyInv' BY SteadyNext
<1> QED BY <1>1, <1>2, <1>3, PTL DEF Spec
=============================================================================
