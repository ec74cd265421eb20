----------------------------- MODULE DhcpServer -----------------------------
(***************************************************************************)
(* The built-in DHCP server (internal/dhcpd): the allocator with its rules,*)
(* the packet handlers, one goroutine each, that call it, the lease table  *)
(* in the database they write afterwards, and restore at the next start.   *)
(*                                                                         *)
(* An address is a number, so that rule 4 has a lowest one; a hostname is  *)
(* a model value.  The clients are part of the model: what each one thinks *)
(* it may use is what the server was for.                                  *)
(***************************************************************************)
EXTENDS Integers, FiniteSets

CONSTANTS
    Macs,           \* clients
    Addrs,          \* addresses of the subnet, and some a client may ask for outside it
    Pool,           \* Config.Start .. Config.End
    Subnet,         \* addresses Config.Subnet contains
    Protected,      \* Config.Host and Config.Gateway
    Names,          \* hostnames
    Handlers,       \* goroutines in handle at once
    Reservations,   \* maps a services read may give SetReservations
    NoAddr, NoMac, NoName,
    LeaseTime, OfferHold, QuarantineFor,    \* in ticks
    Second,         \* ticks of the clock in a second, the unit of the lease table
    MaxTime,        \* bound: the clock
    Faults          \* what may go wrong: "store", "loss", "reboot", "reconfigure", "probe"

ASSUME DhcpAssumption ==
    /\ Addrs \subseteq Nat /\ Pool \subseteq Subnet /\ Subnet \subseteq Addrs
    /\ NoAddr \notin Addrs /\ NoMac \notin Macs \cup Handlers /\ NoName \notin Names
    /\ LeaseTime \in Nat \ {0} /\ OfferHold \in Nat \ {0}
    /\ QuarantineFor \in Nat \ {0} /\ Second \in Nat \ {0} /\ MaxTime \in Nat
    \* dhcpd.Reservations drops every address two services claim.
    /\ \A r \in Reservations :
          /\ r \in [Macs -> Subnet \cup {NoAddr}]
          /\ \A m, n \in Macs : r[m] = r[n] /\ r[m] # NoAddr => m = n

VARIABLES
    now,        \* the clock
    byMAC,      \* Allocator.byMAC: [Macs -> Lease], NoLease where there is no entry
    byIP,       \* Allocator.byIP: [Addrs -> holder], NoMac where there is no entry
    reserved,   \* Allocator.reserved, and its inverse reservedIP
    quarantine, \* Allocator.quarantine: [Addrs -> until]
    rows,       \* dhcp_leases: [Macs -> Lease], expiries in seconds
    task,       \* [Handlers -> what the goroutine still has to do]
    waits,      \* [Macs -> the handler whose answer the client waits for, or NoMac]
    using       \* [Macs -> the address and expiry the client was last ACKed]

allocVars == <<byMAC, byIP, quarantine>>
vars == <<now, byMAC, byIP, reserved, quarantine, rows, task, waits, using>>

NoLease == [ip |-> NoAddr, name |-> NoName, expires |-> 0]
Lease == [ip : Addrs \cup {NoAddr}, name : Names \cup {NoName}, expires : Nat]
Idle == [do |-> "idle", mac |-> NoMac, lease |-> NoLease]

Init ==
    /\ now = 0
    /\ byMAC = [m \in Macs |-> NoLease]
    /\ byIP = [a \in Addrs |-> NoMac]
    /\ reserved \in Reservations
    /\ quarantine = [a \in Addrs |-> 0]
    /\ rows = [m \in Macs |-> NoLease]
    /\ task = [h \in Handlers |-> Idle]
    /\ waits = [m \in Macs |-> NoMac]
    /\ using = [m \in Macs |-> NoLease]

----------------------------------------------------------------------------
(* The allocator.  Every operation runs under Allocator.mu. *)

Has(m) == byMAC[m].ip # NoAddr
Live(l) == l.ip # NoAddr /\ l.expires > now
Held(m) == Live(byMAC[m])
ReservedTo(a) == {m \in Macs : reserved[m] = a}

\* Time.Unix and time.Unix: the table's expiries lose what is below a second.
Unix(t) == t \div Second
FromUnix(t) == t * Second

Usable(a) == a \in Pool \ Protected

\* Mutant: off by one, a lease in its last tick does not count.
HeldByAnotherEarly(a, m) == byIP[a] \notin {NoMac, m} /\ byMAC[byIP[a]].expires > now + 1

HeldByAnother(a, m) == byIP[a] \notin {NoMac, m} /\ Held(byIP[a])

Free(a, m) ==
    /\ Usable(a)
    /\ quarantine[a] <= now
    /\ ReservedTo(a) \subseteq {m}
    /\ ~HeldByAnother(a, m)

\* Mutant: the claim is looked up in the lease table.
NameTakenInTable(name, m) ==
    name # NoName /\ \E n \in Macs \ {m} : rows[n].name = name /\ rows[n].expires > Unix(now)

\* nameTakenLocked
NameTaken(name, m) ==
    name # NoName /\ \E n \in Macs \ {m} : byMAC[n].name = name /\ Held(n)

\* What rules 1 to 4 of allocate decide: commit an address, promise one without
\* taking it, keep what the client has, or nothing.
Commit(a, fresh) == [do |-> "commit", ip |-> a, fresh |-> fresh]
Promise(a) == [do |-> "promise", ip |-> a, fresh |-> FALSE]
Nothing == [do |-> "none", ip |-> NoAddr, fresh |-> FALSE]

FreeFor(m) == {a \in Pool : Free(a, m)}
Lowest(S) == CHOOSE a \in S : \A b \in S : a <= b

Dynamic(m, requested) ==
    IF requested # NoAddr /\ Free(requested, m) THEN Commit(requested, TRUE)
    ELSE IF FreeFor(m) # {} THEN Commit(Lowest(FreeFor(m)), TRUE)
    ELSE Nothing

Renew(m, requested, tentative) ==
    IF Has(m) /\ Usable(byMAC[m].ip) /\ ReservedTo(byMAC[m].ip) = {}
    THEN Commit(byMAC[m].ip, ~Held(m))
    ELSE IF tentative /\ Held(m) /\ byMAC[m].ip \notin Protected
    THEN Promise(byMAC[m].ip)
    ELSE Dynamic(m, requested)

Decide(m, requested, tentative) ==
    LET r == reserved[m]
    IN  IF r \in Protected \cup {NoAddr} THEN Renew(m, requested, tentative)
        ELSE IF ~tentative THEN Commit(r, FALSE)
        ELSE IF HeldByAnother(r, m) THEN Renew(m, requested, tentative)
        ELSE IF Held(m) /\ byMAC[m].ip # r THEN Promise(r)
        ELSE Commit(r, FALSE)

Later(s, t) == IF s > t THEN s ELSE t

\* The lease commit stores: a tentative hold on the address of a live lease keeps
\* its name, and its expiry only moves later.
Granted(m, a, name, ttl, tentative) ==
    IF tentative /\ Held(m) /\ byMAC[m].ip = a
    THEN [ip |-> a, name |-> byMAC[m].name, expires |-> Later(byMAC[m].expires, now + ttl)]
    ELSE [ip |-> a, name |-> IF NameTaken(name, m) THEN NoName ELSE name, expires |-> now + ttl]

\* Mutant: the entry of the client that had the address is left in place.
StoreLeaseKeepsHolder(m, l) ==
    /\ byMAC' = [byMAC EXCEPT ![m] = l]
    /\ byIP' = [a \in Addrs |-> IF a = l.ip THEN m
                                ELSE IF a = byMAC[m].ip THEN NoMac ELSE byIP[a]]

\* commit: the address's holder loses its entry, the client its old address.
StoreLease(m, l) ==
    /\ byMAC' = [n \in Macs |-> IF n = m THEN l
                                ELSE IF n = byIP[l.ip] THEN NoLease ELSE byMAC[n]]
    /\ byIP' = [a \in Addrs |-> IF a = l.ip THEN m
                                ELSE IF a = byMAC[m].ip THEN NoMac ELSE byIP[a]]

\* Release's effect, also Decline's and the probe's.
Drop(m) ==
    /\ byMAC' = [byMAC EXCEPT ![m] = NoLease]
    /\ byIP' = [byIP EXCEPT ![byMAC[m].ip] = NoMac]

----------------------------------------------------------------------------
(* DISCOVER *)

Become(h, t) == task' = [task EXCEPT ![h] = t]
Done(h) == Become(h, Idle)

\* Allocator.Offer: a tentative hold, or only a promise.
Offer(m, d) ==
    \/ d.do = "commit" /\ StoreLease(m, Granted(m, d.ip, NoName, OfferHold, TRUE))
    \/ d.do # "commit" /\ UNCHANGED <<byMAC, byIP>>

\* An address new to the client is probed before the OFFER goes out.
Discover(h, m, requested) ==
    /\ task[h].do = "idle"
    /\ LET d == Decide(m, requested, TRUE)
       IN  /\ Offer(m, d)
           /\ Become(h, IF d.fresh THEN [do |-> "probe", mac |-> m, lease |-> [NoLease EXCEPT !.ip = d.ip]]
                        ELSE Idle)
    /\ UNCHANGED <<now, reserved, quarantine, rows, waits, using>>

\* Nothing answered within the probe's wait: the OFFER goes out.
ProbeMiss(h) ==
    /\ task[h].do = "probe"
    /\ Done(h)
    /\ UNCHANGED <<now, allocVars, reserved, rows, waits, using>>

\* Something answers at the address: it is quarantined ...
ProbeHit(h) ==
    /\ task[h].do = "probe" /\ "probe" \in Faults
    /\ quarantine' = [quarantine EXCEPT ![task[h].lease.ip] = now + QuarantineFor]
    /\ Become(h, [task[h] EXCEPT !.do = "drop"])
    /\ UNCHANGED <<now, byMAC, byIP, reserved, rows, waits, using>>

\* Mutant: Release forgets whatever address the client has.
ProbeDropAny(h) ==
    /\ task[h].do = "drop"
    /\ LET m == task[h].mac
       IN  \/ Has(m) /\ Drop(m)
           \/ ~Has(m) /\ UNCHANGED <<byMAC, byIP>>
    /\ Become(h, [task[h] EXCEPT !.do = "reoffer"])
    /\ UNCHANGED <<now, reserved, quarantine, rows, waits, using>>

\* ... the hold is released ...
ProbeDrop(h) ==
    /\ task[h].do = "drop"
    /\ LET m == task[h].mac
       IN  \/ byMAC[m].ip = task[h].lease.ip /\ Drop(m)
           \/ byMAC[m].ip # task[h].lease.ip /\ UNCHANGED <<byMAC, byIP>>
    /\ Become(h, [task[h] EXCEPT !.do = "reoffer"])
    /\ UNCHANGED <<now, reserved, quarantine, rows, waits, using>>

\* ... and another address offered, unprobed.
Reoffer(h) ==
    /\ task[h].do = "reoffer"
    /\ Offer(task[h].mac, Decide(task[h].mac, NoAddr, TRUE))
    /\ Done(h)
    /\ UNCHANGED <<now, reserved, quarantine, rows, waits, using>>

----------------------------------------------------------------------------
(* REQUEST *)

\* A NAK makes the client stop using its address, unless it is lost.
Nak(m) ==
    /\ \/ using' = [using EXCEPT ![m] = NoLease]
       \/ "loss" \in Faults /\ using' = using
    /\ waits' = [waits EXCEPT ![m] = NoMac]

\* askedFor: option 50, else ciaddr.
AskedFor(opt50, ciaddr) == IF opt50 # NoAddr THEN opt50 ELSE ciaddr

\* An address outside the subnet is refused before the allocator is asked.
RequestOutside(m, asked) ==
    /\ asked \notin Subnet \cup {NoAddr}
    /\ Nak(m)
    /\ UNCHANGED <<byMAC, byIP, task>>

\* Allocator.Allocate has committed for the full lease time before the handler
\* compares addresses; a client that asked for another one is NAKed.
RequestAllocate(h, m, name, requested, asked) ==
    /\ asked \in Subnet \cup {NoAddr}
    /\ LET d == Decide(m, requested, FALSE)
           l == Granted(m, d.ip, name, LeaseTime, FALSE)
       IN  \/ /\ d.do = "none"
              /\ Nak(m)
              /\ UNCHANGED <<byMAC, byIP, task>>
           \/ /\ d.do = "commit" /\ asked \notin {NoAddr, d.ip}
              /\ StoreLease(m, l)
              /\ Nak(m)
              /\ UNCHANGED task
           \/ /\ d.do = "commit" /\ asked \in {NoAddr, d.ip}
              /\ StoreLease(m, l)
              /\ Become(h, [do |-> "put", mac |-> m, lease |-> l])
              /\ waits' = [waits EXCEPT ![m] = h]
              /\ UNCHANGED using

\* ack.  A renewing client puts the address it uses in ciaddr and sends no option 50.
Request(h, m, name, opt50, ciaddr) ==
    /\ task[h].do = "idle"
    /\ NoAddr \in {opt50, ciaddr}
    /\ LET asked == AskedFor(opt50, ciaddr)
       IN  RequestOutside(m, asked) \/ RequestAllocate(h, m, name, opt50, asked)
    /\ UNCHANGED <<now, reserved, quarantine, rows>>

\* The schema's UNIQUE(ip): a statement that would give an address two rows fails.
UniqueIP(table) ==
    \A m, n \in Macs : table[m].ip = table[n].ip /\ table[m].ip # NoAddr => m = n

\* store.PutDHCPLease: in one transaction the other client's row for the address is
\* deleted and the client's row upserted, or nothing is written.
PutDHCPLease(m, l) ==
    LET deleted == [n \in Macs |-> IF n # m /\ rows[n].ip = l.ip THEN NoLease ELSE rows[n]]
        put == [deleted EXCEPT ![m] = [l EXCEPT !.expires = Unix(l.expires)]]
    IN  rows' = IF UniqueIP(put) THEN put ELSE rows

\* The row is written, or the error logged, and the ACK goes out.  A client that
\* has moved on to another exchange ignores it, and it may be lost.
Ack(h) ==
    /\ task[h].do = "put"
    /\ LET m == task[h].mac
           l == task[h].lease
       IN  /\ PutDHCPLease(m, l) \/ ("store" \in Faults /\ rows' = rows)
           /\ \/ waits[m] = h /\ using' = [using EXCEPT ![m] = [l EXCEPT !.name = NoName]]
              \/ (waits[m] # h \/ "loss" \in Faults) /\ using' = using
           /\ waits' = [waits EXCEPT ![m] = IF @ = h THEN NoMac ELSE @]
    /\ Done(h)
    /\ UNCHANGED <<now, allocVars, reserved>>

----------------------------------------------------------------------------
(* RELEASE and DECLINE: the client gives its address up; the allocator forgets *)
(* it only when the client is its holder, and the row is deleted after that.   *)

GiveUp(m) ==
    /\ using' = [using EXCEPT ![m] = NoLease]
    /\ waits' = [waits EXCEPT ![m] = NoMac]

Release(h, m) ==
    /\ task[h].do = "idle" /\ using[m].ip # NoAddr
    /\ GiveUp(m)
    /\ \/ /\ byMAC[m].ip = using[m].ip
          /\ Drop(m)
          /\ Become(h, [do |-> "delete", mac |-> m, lease |-> NoLease])
       \/ /\ byMAC[m].ip # using[m].ip
          /\ UNCHANGED <<byMAC, byIP, task>>
    /\ UNCHANGED <<now, reserved, quarantine, rows>>

Decline(h, m) ==
    /\ task[h].do = "idle" /\ using[m].ip # NoAddr
    /\ GiveUp(m)
    /\ \/ /\ byIP[using[m].ip] = m
          /\ byMAC' = [byMAC EXCEPT ![m] = NoLease]
          /\ byIP' = [byIP EXCEPT ![using[m].ip] = NoMac]
          /\ quarantine' = [quarantine EXCEPT ![using[m].ip] =
                               IF using[m].ip \in Pool THEN now + QuarantineFor ELSE @]
          /\ Become(h, [do |-> "delete", mac |-> m, lease |-> NoLease])
       \/ /\ byIP[using[m].ip] # m
          /\ UNCHANGED <<allocVars, task>>
    /\ UNCHANGED <<now, reserved, rows>>

\* store.DeleteDHCPLease; an error is logged.
DeleteDHCPLease(h) ==
    /\ task[h].do = "delete"
    /\ \/ rows' = [rows EXCEPT ![task[h].mac] = NoLease]
       \/ "store" \in Faults /\ rows' = rows
    /\ Done(h)
    /\ UNCHANGED <<now, allocVars, reserved, waits, using>>

----------------------------------------------------------------------------
(* Reservations, time, and a new listener *)

\* SetReservations after a registry write.
SetReservations(r) ==
    /\ reserved' = r
    /\ UNCHANGED <<now, allocVars, rows, task, waits, using>>

\* A client stops using an address when its lease runs out.
Tick ==
    /\ now < MaxTime
    /\ now' = now + 1
    /\ using' = [m \in Macs |-> IF using[m].expires <= now + 1 THEN NoLease ELSE using[m]]
    /\ UNCHANGED <<allocVars, reserved, rows, task, waits>>

\* restore: expired rows are pruned and the others loaded into an empty allocator.
Restore ==
    LET kept == [m \in Macs |-> IF rows[m].expires <= Unix(now) THEN NoLease ELSE rows[m]]
    IN  /\ rows' = kept
        /\ byMAC' = [m \in Macs |-> [kept[m] EXCEPT !.expires = FromUnix(@)]]
        /\ byIP' = [a \in Addrs |->
                      IF \E m \in Macs : kept[m].ip = a
                      THEN CHOOSE m \in Macs : kept[m].ip = a ELSE NoMac]
        /\ quarantine' = [a \in Addrs |-> 0]

\* The process dies and starts again: its goroutines are gone.
Reboot ==
    /\ "reboot" \in Faults
    /\ Restore
    /\ task' = [h \in Handlers |-> Idle]
    /\ UNCHANGED <<now, reserved, waits, using>>

\* Reconcile replaces the listener.  Stop closes the socket and does not wait:
\* a handler that has only the database left to write still writes it, and the
\* others go on with the allocator nobody reads any more.
Reconfigure ==
    /\ "reconfigure" \in Faults
    /\ Restore
    /\ task' = [h \in Handlers |-> IF task[h].do \in {"put", "delete"} THEN task[h] ELSE Idle]
    /\ UNCHANGED <<now, reserved, waits, using>>

Next ==
    \/ \E h \in Handlers :
        \/ \E m \in Macs :
            \/ \E a \in Addrs \cup {NoAddr} : Discover(h, m, a)
            \/ \E name \in Names \cup {NoName}, a \in Addrs \cup {NoAddr}, c \in {NoAddr, using[m].ip} :
                  Request(h, m, name, a, c)
            \/ Release(h, m) \/ Decline(h, m)
        \/ ProbeMiss(h) \/ ProbeHit(h) \/ ProbeDrop(h) \/ Reoffer(h)
        \/ Ack(h) \/ DeleteDHCPLease(h)
    \/ \E r \in Reservations : SetReservations(r)
    \/ Tick \/ Reboot \/ Reconfigure

Spec == Init /\ [][Next]_vars

----------------------------------------------------------------------------
(* Properties *)

TypeOK ==
    /\ now \in Nat
    /\ byMAC \in [Macs -> Lease] /\ rows \in [Macs -> Lease] /\ using \in [Macs -> Lease]
    /\ byIP \in [Addrs -> Macs \cup {NoMac}]
    /\ reserved \in Reservations
    /\ quarantine \in [Addrs -> Nat]
    /\ task \in [Handlers -> [do : {"idle", "probe", "drop", "reoffer", "put", "delete"},
                              mac : Macs \cup {NoMac}, lease : Lease]]
    /\ waits \in [Macs -> Handlers \cup {NoMac}]

\* The allocator's two maps are inverse to each other through every rule, eviction,
\* move, release, decline and restore: so no address ever has two lease holders,
\* and no lease is beyond the reach of heldByAnotherLocked.
BindingsAgree ==
    /\ \A m \in Macs : Has(m) => byIP[byMAC[m].ip] = m
    /\ \A a \in Addrs : byIP[a] # NoMac => byMAC[byIP[a]].ip = a

\* The lease table has one row for an address, which Load relies on.
RowsAgree == UniqueIP(rows)

\* What a goroutine still has to do names its client and, where it needs one, an
\* address.
TaskOK ==
    \A h \in Handlers :
        /\ task[h].do # "idle" => task[h].mac \in Macs
        /\ task[h].do \in {"probe", "drop", "put"} => task[h].lease.ip \in Addrs

\* Both maps and the lease table agree in every reachable state, restores included;
\* together the parts are preserved by every step.
IndInv == TypeOK /\ TaskOK /\ BindingsAgree /\ RowsAgree

\* No two live leases claim one hostname, so the zone never has a name with two owners.
NamesUnique ==
    \A m, n \in Macs :
        Held(m) /\ Held(n) /\ byMAC[m].name = byMAC[n].name /\ byMAC[m].name # NoName => m = n

\* A DISCOVER is not a lease operation: whatever it asks for, whatever is reserved,
\* however its probe ends and whatever other goroutines commit meanwhile, none of its
\* steps drops, moves, renames or cuts short a client's live lease (but for one on our
\* own address or the gateway's).  The one thing it may take back is the address it
\* offered and probed, from the client it offered it to.
Weakened(m) ==
    /\ Held(m) /\ byMAC[m].ip \notin Protected
    /\ \/ byMAC'[m].ip # byMAC[m].ip \/ byMAC'[m].name # byMAC[m].name
       \/ byMAC'[m].expires < byMAC[m].expires
Offering(h) ==
    \/ \E m \in Macs, a \in Addrs \cup {NoAddr} : Discover(h, m, a)
    \/ ProbeMiss(h) \/ ProbeHit(h) \/ ProbeDrop(h) \/ Reoffer(h)
TakesBack(h, m) ==
    ProbeDrop(h) /\ m = task[h].mac /\ byMAC[m].ip = task[h].lease.ip
OfferHarmless ==
    [][\A h \in Handlers, m \in Macs : Weakened(m) /\ Offering(h) => TakesBack(h, m)]_vars

\* The address a client was ACKed stays bound to it for as long as it may use it.
AckedBound == \A m \in Macs : Live(using[m]) => byMAC[m].ip = using[m].ip

\* No address is in use by two clients at once.
NoDoubleUse ==
    \A m, n \in Macs : Live(using[m]) /\ Live(using[n]) /\ using[m].ip = using[n].ip => m = n

----------------------------------------------------------------------------
(* When the two client promises hold. *)

\* One listener runs, so that the allocator is never rebuilt from the lease table.
NeverRestored == {"reboot", "reconfigure"} \cap Faults = {}

\* Besides, the reservations stay as they are and no probe hits an address in use: packets
\* may be lost and the table may fail to be written.
Steady == Faults \subseteq {"loss", "store"} /\ \A r, s \in Reservations : r = s

Pinned(m) == reserved[m] \notin Protected \cup {NoAddr}

\* With steady reservations every lease is where the rules would put it again: on its
\* client's reservation, or on an address of the pool that is nobody's.
WellPlaced(m, a) == IF Pinned(m) THEN a = reserved[m] ELSE Usable(a) /\ ReservedTo(a) = {}
Placed == \A m \in Macs : Has(m) => WellPlaced(m, byMAC[m].ip)

\* What the client of lease l may rely on: nothing once it ran out, else the allocator has
\* the address for it for at least as long.
Covered(m, l) == Live(l) => byMAC[m].ip = l.ip /\ l.expires <= byMAC[m].expires

\* What a client uses, and what it will use when the answer it waits for arrives.
Promised ==
    /\ \A m \in Macs : using[m].expires <= now + LeaseTime /\ Covered(m, using[m])
    /\ \A h \in Handlers : task[h].do # "drop"
    /\ \A h \in Handlers : task[h].do = "put" =>
         /\ task[h].lease.expires <= now + LeaseTime
         /\ waits[task[h].mac] = h => Covered(task[h].mac, task[h].lease)

\* The invariant behind AckedBound.
SteadyInv == IndInv /\ Placed /\ Promised

----------------------------------------------------------------------------
(* What the code does not keep. *)

\* "a bare DISCOVER must not be able ... to cut short a lease the same client already
\* holds" (dhcpd/server.go:346-348).  It does when the client's REQUEST is committed
\* while its DISCOVER still probes the address: the client's own answer, or anybody's,
\* makes ProbeDrop release the lease just acknowledged.
DiscoverKeepsLeases ==
    [][\A h \in Handlers, m \in Macs :
          Weakened(m) /\ using[m].ip = byMAC[m].ip => ~Offering(h)]_vars
=============================================================================
