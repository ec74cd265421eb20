------------------------------ MODULE Registry ------------------------------
(***************************************************************************)
(* The registry (views, services, manual records) in the database, the     *)
(* handlers that edit it, and zone.Holder, the live zone snapshot.         *)
(*                                                                         *)
(* A handler reads the database in statements of its own (the service it   *)
(* updates, the known views, the reserved MACs), then writes in one        *)
(* transaction, whose constraints are the schema's.  After a commit it     *)
(* calls Rebuild, which takes no lock: it reads the tables one after the   *)
(* other, the services in a statement for their ids and three for each of  *)
(* them, reserves the next generation with an atomic add, builds, and      *)
(* swaps the pointer.  The discovery poller rebuilds in the same way.      *)
(* The three statements that read the service to be updated are one step,  *)
(* and so are those that read every MAC.  Health check settings are left   *)
(* out.  Renaming the zone is not modelled.                                *)
(***************************************************************************)
EXTENDS Zone

CONSTANTS
    Writers,       \* goroutines: handlers of the API and the web pages, the poller
    ServiceDocs,   \* services that are created
    Patches,       \* bodies of an update: some fields of a service
    AddressForms,  \* addresses appended on the services page
    RecordDocs, ViewDocs,
    Documents,     \* imported documents, one of which is loaded at boot
    LeaseSets,     \* what the lease source may report, a lease per hostname
    Lan, Edge,     \* the DHCP subnet, and its network and broadcast addresses
    MaxOps         \* bound: operations started

ASSUME RegistryAssumption == MaxOps \in Nat /\ IsFiniteSet(Lan)

VARIABLES
    views,      \* [view names -> sets of Subnets]
    services,   \* [ids -> services]
    records,    \* [ids -> records]
    leases,     \* Poller.Leases
    gen,        \* Holder.gen
    cur,        \* Holder.cur: generation, Snapshot, and (history) the Input it was built from
    at,         \* [Writers -> where the goroutine is]
    job,        \* [Writers -> what its handler is writing]
    in,         \* [Writers -> the Input its Rebuild has read; ids: the services still to read]
    serial,     \* [Writers -> the generation its Rebuild reserved]
    ops         \* operations started

tables == <<views, services, records, leases>>
vars == <<tables, gen, cur, at, job, in, serial, ops>>

Phases == {"idle", "promote", "known", "mac", "write", "views", "services", "row",
           "addresses", "aliases", "records", "leases", "reserve", "build"}
NoJob == [kind |-> "none", id |-> 0, doc |-> None]
NoInput == [views |-> <<>>, ids |-> <<>>, services |-> <<>>, records |-> <<>>, leases |-> <<>>]

----------------------------------------------------------------------------
(* Rows, and what validation and the schema ask of them. *)

Tags(svc) == {svc.addrs[i].view : i \in DOMAIN svc.addrs} \ {None}
RecordTags(rec) == {rec.view} \ {None}
Used(svcs, recs) == (UNION {Tags(svcs[i]) : i \in DOMAIN svcs})
                    \cup (UNION {RecordTags(recs[i]) : i \in DOMAIN recs})

\* Mutant: an update may leave a service without addresses.
ValidServiceEmpty(svc, known) == Tags(svc) \subseteq known /\ (svc.route => svc.proxy # None)

\* validateService and validateRecord against the views read before.
ValidService(svc, known) ==
    svc.addrs # <<>> /\ Tags(svc) \subseteq known /\ (svc.route => svc.proxy # None)
ValidRecord(rec, known) ==
    /\ RecordTags(rec) \subseteq known
    /\ IF rec.type = "PTR" THEN rec.name \in Addrs ELSE rec.name \in Names
    /\ rec.type \in {"A", "AAAA"} => rec.value \in Addrs

\* A MAC is reserved by one service; an update may match itself.
MacFree(svc, id, svcs) ==
    svc.mac # None => \A i \in DOMAIN svcs : svcs[i].mac = svc.mac => id # 0 /\ i = id

\* services.name and aliases.name are unique, each in its own table.
NamesFree(svc, id, svcs) ==
    \A i \in DOMAIN svcs \ {id} : svcs[i].name # svc.name /\ svcs[i].aliases \cap svc.aliases = {}

\* Mutant: the pragma is missing.
ReferencesOff(tags, known) == TRUE

\* PRAGMA foreign_keys=ON.
References(tags, known) == tags \subseteq known

\* idx_view_subnets_cidr.
SubnetsFree(v, subnets, vs) == \A w \in DOMAIN vs \ {v} : vs[w] \cap subnets = {}

\* SQLite gives a new row the largest id in use plus one: ids come back.
NewId(rows) == IF DOMAIN rows = {} THEN 1 ELSE Max(DOMAIN rows) + 1
Without(rows, i) == [j \in DOMAIN rows \ {i} |-> rows[j]]

\* A document that Registry.ReplaceAll and the transaction after it accept.
DocumentValid(d) ==
    /\ \A v, w \in DOMAIN d.views : v # w => d.views[v] \cap d.views[w] = {}
    /\ \A i \in DOMAIN d.services :
         /\ ValidService(d.services[i], DOMAIN d.views)
         /\ MacFree(d.services[i], 0, Without(d.services, i))
         /\ NamesFree(d.services[i], i, d.services)
    /\ \A i \in DOMAIN d.records : ValidRecord(d.records[i], DOMAIN d.views)

\* Services come ordered by name, records by name and type; among the records of
\* one name the order is not told apart.
IdsByName(svcs) == SetToSortSeq(DOMAIN svcs, LAMBDA i, j : svcs[i].name < svcs[j].name)
ByName(svcs) == LET ids == IdsByName(svcs) IN [k \in DOMAIN ids |-> svcs[ids[k]]]
ById(recs) == LET ids == SetToSortSeq(DOMAIN recs, <) IN [k \in DOMAIN ids |-> recs[ids[k]]]

\* serve builds the first snapshot before anything else runs; there are no leases yet.
Init ==
    /\ \E d \in Documents :
         /\ DocumentValid(d)
         /\ views = d.views /\ services = d.services /\ records = d.records
    /\ leases = <<>>
    /\ gen = 1
    /\ LET i == [views |-> views, ids |-> <<>>, services |-> ByName(services),
                 records |-> ById(records), leases |-> leases]
       IN  Builds(i) /\ cur = [gen |-> 1, snap |-> Build(i), in |-> i]
    /\ at = [w \in Writers |-> "idle"]
    /\ job = [w \in Writers |-> NoJob]
    /\ in = [w \in Writers |-> NoInput]
    /\ serial = [w \in Writers |-> 0]
    /\ ops = 0

----------------------------------------------------------------------------
(* Handlers up to the write. *)

Go(w, to) == at' = [at EXCEPT ![w] = to]
Begin(w) == at[w] = "idle" /\ ops < MaxOps /\ ops' = ops + 1
Quiet == UNCHANGED <<gen, cur, in, serial>>

\* A handler has its document, and the id for an update, 0 for a new row.
Submit(w, kind, id, doc, to) ==
    /\ Begin(w) /\ Go(w, to)
    /\ job' = [job EXCEPT ![w] = [kind |-> kind, id |-> id, doc |-> doc]]
    /\ Quiet /\ UNCHANGED tables

\* The body of a POST may carry an id, and then it is an update.
CreateService(w) == \E d \in ServiceDocs, id \in {0} \cup DOMAIN services :
    Submit(w, "service", id, d, "known")
CreateRecord(w) == \E r \in RecordDocs : Submit(w, "record", 0, r, "known")
CreateView(w) == \E v \in ViewDocs : Submit(w, "view", 0, v, "write")

\* updateService, postServiceRouting: the body merged onto the service as it is now.
UpdateService(w) == \E id \in DOMAIN services, p \in Patches :
    Submit(w, "service", id, Override(services[id], p), "known")

\* postServiceAddress.
AddAddress(w) == \E id \in DOMAIN services, a \in AddressForms :
    Submit(w, "service", id, [services[id] EXCEPT !.addrs = Append(@, a)], "known")

\* promoteLease: the page goes on to ask whether the lease's MAC can be reserved; the
\* API, and a lease without a proper MAC, reserve none.
PromoteLease(w) == \E k \in DOMAIN leases : \E mac \in {None, leases[k].mac} :
    Submit(w, "service", 0,
           [name |-> leases[k].host, addrs |-> <<[addr |-> leases[k].addr, view |-> None]>>,
            aliases |-> {}, proxy |-> None, route |-> FALSE, mac |-> mac],
           IF mac = None THEN "known" ELSE "promote")

\* reservableMAC: none if a service has it, or if the services cannot be read.
ReservableMAC(w) ==
    /\ at[w] = "promote" /\ Go(w, "known")
    /\ \/ (\A i \in DOMAIN services : services[i].mac # job[w].doc.mac) /\ job' = job
       \/ job' = [job EXCEPT ![w].doc.mac = None]
    /\ Quiet /\ UNCHANGED <<tables, ops>>

\* Store.DeleteView counts the references first.
CountReferences(w) == \E v \in DOMAIN views :
    v \notin Used(services, records) /\ Submit(w, "drop", 0, v, "write")

\* knownViews, then validation.
Validate(w) ==
    /\ at[w] = "known"
    /\ LET j == job[w] IN
         \/ j.kind = "service" /\ ValidService(j.doc, DOMAIN views)
            /\ Go(w, IF j.doc.mac # None THEN "mac" ELSE "write")
         \/ j.kind = "record" /\ ValidRecord(j.doc, DOMAIN views) /\ Go(w, "write")
    /\ Quiet /\ UNCHANGED <<tables, job, ops>>

\* The stored services are read and the reservation compared with them.
MacUnique(w) ==
    /\ at[w] = "mac" /\ MacFree(job[w].doc, job[w].id, services)
    /\ Go(w, "write")
    /\ Quiet /\ UNCHANGED <<tables, job, ops>>

----------------------------------------------------------------------------
(* Transactions.  After the commit the goroutine goes on to Rebuild. *)

Committed(w) ==
    /\ Go(w, "views")
    /\ job' = [job EXCEPT ![w] = NoJob]
    /\ Quiet /\ UNCHANGED ops

\* An update of a row that is gone changes nothing and fails on its first address.
PutService(w) ==
    LET j  == job[w]
        id == IF j.id = 0 THEN NewId(services) ELSE j.id
        inserts == j.doc.addrs # <<>> \/ j.doc.aliases # {}
    IN  /\ at[w] = "write" /\ j.kind = "service"
        /\ NamesFree(j.doc, id, services) /\ References(Tags(j.doc), DOMAIN views)
        /\ j.id # 0 /\ j.id \notin DOMAIN services => ~inserts
        /\ services' = IF j.id # 0 /\ j.id \notin DOMAIN services THEN services
                       ELSE Override(services, At(id, j.doc))
        /\ Committed(w) /\ UNCHANGED <<views, records, leases>>

PutRecord(w) ==
    /\ at[w] = "write" /\ job[w].kind = "record"
    /\ References(RecordTags(job[w].doc), DOMAIN views)
    /\ records' = Override(records, At(NewId(records), job[w].doc))
    /\ Committed(w) /\ UNCHANGED <<views, services, leases>>

PutView(w) ==
    LET v == job[w].doc IN
    /\ at[w] = "write" /\ job[w].kind = "view"
    /\ SubnetsFree(v.name, v.subnets, views)
    /\ views' = Override(views, At(v.name, v.subnets))
    /\ Committed(w) /\ UNCHANGED <<services, records, leases>>

\* The references were counted before; the foreign keys hold in the delete itself.
DropView(w) ==
    /\ at[w] = "write" /\ job[w].kind = "drop"
    /\ job[w].doc \in DOMAIN views
    /\ References(Used(services, records), DOMAIN views \ {job[w].doc})
    /\ views' = Without(views, job[w].doc)
    /\ Committed(w) /\ UNCHANGED <<services, records, leases>>

\* Handlers that are one statement or one transaction.
Immediate(w) == Begin(w) /\ Go(w, "views") /\ Quiet /\ UNCHANGED job

DeleteService(w) == \E id \in DOMAIN services :
    Immediate(w) /\ services' = Without(services, id) /\ UNCHANGED <<views, records, leases>>
DeleteRecord(w) == \E id \in DOMAIN records :
    Immediate(w) /\ records' = Without(records, id) /\ UNCHANGED <<views, services, leases>>

\* import --replace: validated as a whole, written in one transaction.
ImportReplace(w) == \E d \in Documents :
    /\ DocumentValid(d) /\ Immediate(w)
    /\ views' = d.views /\ services' = d.services /\ records' = d.records
    /\ UNCHANGED leases

\* The poller publishes changed leases and rebuilds.
LeasesChange(w) == \E ls \in LeaseSets :
    /\ ls # leases /\ Immediate(w)
    /\ leases' = ls /\ UNCHANGED <<views, services, records>>

----------------------------------------------------------------------------
(* Holder.Rebuild *)

ReadViews(w) ==
    /\ at[w] = "views" /\ Go(w, "services")
    /\ in' = [in EXCEPT ![w].views = views]
    /\ UNCHANGED <<tables, gen, cur, job, serial, ops>>

\* Store.Services: the ids in the order of the names ...
ReadServices(w) ==
    /\ at[w] = "services" /\ Go(w, IF DOMAIN services = {} THEN "records" ELSE "row")
    /\ in' = [in EXCEPT ![w].ids = IdsByName(services)]
    /\ UNCHANGED <<tables, gen, cur, job, serial, ops>>

\* ... and for each of them its row (one that is gone fails the read), ...
ReadRow(w) ==
    /\ at[w] = "row" /\ Head(in[w].ids) \in DOMAIN services /\ Go(w, "addresses")
    /\ in' = [in EXCEPT ![w].services =
                 Append(@, [services[Head(in[w].ids)] EXCEPT !.addrs = <<>>, !.aliases = {}])]
    /\ UNCHANGED <<tables, gen, cur, job, serial, ops>>

\* ... its addresses and its aliases, none if it is gone by then.
Column(id, field, none) == IF id \in DOMAIN services THEN services[id][field] ELSE none
ReadAddresses(w) ==
    /\ at[w] = "addresses" /\ Go(w, "aliases")
    /\ in' = [in EXCEPT ![w].services[Len(in[w].services)].addrs =
                 Column(Head(in[w].ids), "addrs", <<>>)]
    /\ UNCHANGED <<tables, gen, cur, job, serial, ops>>
ReadAliases(w) ==
    /\ at[w] = "aliases" /\ Go(w, IF Len(in[w].ids) = 1 THEN "records" ELSE "row")
    /\ in' = [in EXCEPT ![w].services[Len(in[w].services)].aliases =
                            Column(Head(in[w].ids), "aliases", {}),
                        ![w].ids = Tail(@)]
    /\ UNCHANGED <<tables, gen, cur, job, serial, ops>>

ReadRecords(w) ==
    /\ at[w] = "records" /\ Go(w, "leases")
    /\ in' = [in EXCEPT ![w].records = ById(records)]
    /\ UNCHANGED <<tables, gen, cur, job, serial, ops>>

ReadLeases(w) ==
    /\ at[w] = "leases" /\ Go(w, "reserve")
    /\ in' = [in EXCEPT ![w].leases = leases]
    /\ UNCHANGED <<tables, gen, cur, job, serial, ops>>

\* in.Generation = h.gen.Add(1)
Reserve(w) ==
    /\ at[w] = "reserve" /\ Go(w, "build")
    /\ gen' = gen + 1
    /\ serial' = [serial EXCEPT ![w] = gen + 1]
    /\ UNCHANGED <<tables, cur, job, in, ops>>

\* The built snapshot is swapped in.
Publish(w) ==
    /\ at[w] = "build" /\ Builds(in[w]) /\ Go(w, "idle")
    /\ cur' = [gen |-> serial[w], snap |-> Build(in[w]), in |-> in[w]]
    /\ in' = [in EXCEPT ![w] = NoInput]
    /\ UNCHANGED <<tables, gen, job, serial, ops>>

\* Mutant: a refused build gives its generation back.
GiveUpReturnsGeneration(w) ==
    /\ \/ at[w] \in Phases \ {"idle", "reserve", "build"}
       \/ at[w] = "build" /\ ~Builds(in[w])
    /\ Go(w, "idle")
    /\ gen' = IF at[w] = "build" THEN gen - 1 ELSE gen
    /\ job' = [job EXCEPT ![w] = NoJob] /\ in' = [in EXCEPT ![w] = NoInput]
    /\ UNCHANGED <<tables, cur, serial, ops>>

\* The document is refused, a statement fails (or a service is gone when its row is
\* read), or Build refuses the input: what is served stays.
GiveUp(w) ==
    /\ \/ at[w] \in Phases \ {"idle", "reserve", "build"}
       \/ at[w] = "build" /\ ~Builds(in[w])
    /\ Go(w, "idle")
    /\ job' = [job EXCEPT ![w] = NoJob] /\ in' = [in EXCEPT ![w] = NoInput]
    /\ UNCHANGED <<tables, gen, cur, serial, ops>>

Handle(w) ==
    \/ CreateService(w) \/ UpdateService(w) \/ AddAddress(w) \/ PromoteLease(w)
    \/ CreateRecord(w) \/ CreateView(w) \/ CountReferences(w)
    \/ ReservableMAC(w) \/ Validate(w) \/ MacUnique(w)
Write(w) ==
    \/ PutService(w) \/ PutRecord(w) \/ PutView(w) \/ DropView(w)
    \/ DeleteService(w) \/ DeleteRecord(w) \/ ImportReplace(w) \/ LeasesChange(w)
Rebuild(w) ==
    \/ ReadViews(w) \/ ReadServices(w) \/ ReadRow(w) \/ ReadAddresses(w) \/ ReadAliases(w)
    \/ ReadRecords(w) \/ ReadLeases(w)
    \/ Reserve(w) \/ Publish(w) \/ GiveUp(w)

Next == \E w \in Writers : Handle(w) \/ Write(w) \/ Rebuild(w)

Spec == Init /\ [][Next]_vars

----------------------------------------------------------------------------
(* Serials and references *)

\* A serial stands for one snapshot only: no two builds in flight carry the same
\* generation, and none carries the one being served, however they interleave.
SerialsDistinct ==
    \A w \in Writers : at[w] = "build" =>
        /\ serial[w] # cur.gen
        /\ serial[w] <= gen
        /\ \A v \in Writers \ {w} : at[v] = "build" => serial[v] # serial[w]

\* Every view tag in the tables names a view that exists, although handlers check tags
\* against views they read earlier and a view is deleted after its references were counted.
RefsExist == Used(services, records) \subseteq DOMAIN views

\* A service that reaches the table has passed validateService: it has an address.
DocsValidated ==
    /\ DOMAIN job = Writers
    /\ \A w \in Writers : at[w] \in {"mac", "write"} /\ job[w].kind = "service" => job[w].doc.addrs # <<>>

\* The invariant that makes them inductive: every generation handed out, the served one
\* included, is one the counter has reached, so the next add returns a new one.
IndInv ==
    /\ gen \in Nat /\ cur.gen \in Nat /\ cur.gen <= gen
    /\ at \in [Writers -> Phases] /\ serial \in [Writers -> Nat]
    /\ SerialsDistinct /\ RefsExist /\ DocsValidated

\* A handler that reports success has stored its service, also when the service it
\* updates was deleted since it was read, or its id given to another.
UpdateLands ==
    [][\A w \in Writers :
         at[w] = "write" /\ job[w].kind = "service" /\ at'[w] = "views" =>
           \E i \in DOMAIN services' : /\ services'[i] = job[w].doc
                                       /\ job[w].id \in {0, i}]_vars

\* "The pairing must be one-to-one in both directions": whatever the racing writes left
\* in the table, no MAC and no address is reserved twice, and each reserved address is
\* the only LAN address of the service with that MAC.
ReservationsOneToOne ==
    LET all == Reservations(services, Lan, Edge) IN
    /\ \A r, s \in all : r # s => r[1] # s[1] /\ r[2] # s[2]
    /\ \A r \in all : r[2] \notin Edge /\ \E i \in DOMAIN services :
         services[i].mac = r[1] /\ {r[2]} = LanOf(services[i], Lan)

----------------------------------------------------------------------------
(* What every published snapshot answers, against definitions that do not  *)
(* depend on the order of the loops.                                       *)

Rows(s) == {s[i] : i \in DOMAIN s}
Effective(view, rows) ==
    LET tagged == {r \in rows : view # None /\ r.view = view}
    IN  IF tagged # {} THEN tagged ELSE {r \in rows : r.view = None}

\* Manual records outrank services, services outrank leases; among the services that
\* claim a name the last one of the list that was read has it.  That is the last one in
\* text order unless a service was renamed while the list was read.
Expected(i, view, n) ==
    LET manual   == {r \in Effective(view, Rows(i.records)) : r.name = n /\ r.type # "PTR"}
        claiming == {k \in DOMAIN i.services :
                       /\ n \in {i.services[k].name} \cup i.services[k].aliases
                       /\ Effective(view, Rows(i.services[k].addrs)) # {}}
        owner    == i.services[Max(claiming)]
    IN  IF manual # {} THEN {[type |-> r.type, value |-> r.value] : r \in manual}
        ELSE IF claiming # {} THEN
             IF owner.route THEN {RR(owner.proxy)}
             ELSE {RR(a.addr) : a \in Effective(view, Rows(owner.addrs))}
        ELSE {RR(l.addr) : l \in {k \in Rows(i.leases) : k.host = n}}

\* A PTR the operator wrote wins; a derived one names a service or a lease that has
\* the address in this view, inside a reverse zone.
PTRRight(i, view, a, target) ==
    LET manual == {r \in Effective(view, Rows(i.records)) : r.name = a /\ r.type = "PTR"}
        hosts  == {s.name : s \in {t \in Rows(i.services) :
                     \E e \in Effective(view, Rows(t.addrs)) : e.addr = a}}
        named  == {l.host : l \in {k \in Rows(i.leases) : k.addr = a}}
    IN  IF manual # {} THEN target \in {r.value : r \in manual}
        ELSE IF a \notin ReverseZones THEN target = None
        ELSE target \in (IF hosts # {} THEN hosts ELSE IF named # {} THEN named ELSE {None})

AnswersRight(snap, i) ==
    \A view \in DOMAIN i.views \cup {None} :
        /\ \A n \in Names : Rows(Lookup(snap, view, n)) = Expected(i, view, n)
        /\ \A a \in Addrs : PTRRight(i, view, a, LookupPTR(snap, view, a))

\* Every published snapshot holds, in every view, exactly what the precedence of manual
\* records over services over leases gives, although the three, and the parts of each
\* service, were read at different moments.
PublishedAnswers == [][cur' # cur => AnswersRight(cur'.snap, cur'.in)]_vars

\* The view of a client: the one with the smallest prefix around it.
Home(vs, c) ==
    LET mine == {v \in DOMAIN vs : \E s \in vs[v] : c \in Covers[s] /\
                   \A w \in DOMAIN vs : \A t \in vs[w] : c \in Covers[t] => Covers[s] \subseteq Covers[t]}
    IN  IF mine = {} THEN None ELSE CHOOSE v \in mine : TRUE

\* The addresses a client in this view may be told.
MayLearn(i, view) ==
    {a.addr : a \in {e \in UNION {Rows(s.addrs) : s \in Rows(i.services)} : e.view \in {None, view}}}
    \cup {s.proxy : s \in Rows(i.services)}
    \cup {r.value : r \in {e \in Rows(i.records) : e.view \in {None, view}}}
    \cup {l.addr : l \in Rows(i.leases)}

\* Split horizon: no client is told an address that was authored for a view other than
\* the most specific one around it, neither directly nor at the end of a CNAME.
SplitHorizon ==
    [][cur' # cur =>
         LET snap == cur'.snap IN
         \A c \in Clients, n \in Names :
           LET r == ServeDNS(snap, c, [form |-> "query", name |-> n, type |-> "ANY"], TRUE) IN
           \A rr \in Rows(r.answer) :
             rr.type # "CNAME" => rr.value \in MayLearn(cur'.in, Home(cur'.in.views, c))]_vars

\* The names a resolver would visit from n: at most one more than the cap.
Trail(snap, view, n) ==
    LET rrs(m) == Lookup(snap, view, m)
        trail[k \in 0 .. CnameChaseDepth + 1] ==
          IF k = 0 THEN n
          ELSE IF trail[k - 1] # None /\ rrs(trail[k - 1]) # <<>> /\ rrs(trail[k - 1])[1].type = "CNAME"
               THEN rrs(trail[k - 1])[1].value ELSE None
    IN  trail

\* A local name is answered here, blocked or not and though no upstream answers, in one
\* reply: a chain of CNAMEs
\* that ends within the cap comes with every address of the type at its end, and a longer
\* one, or one in a circle, is cut after the cap.
ChainsComplete ==
    [][cur' # cur =>
         LET snap == cur'.snap IN
         \A c \in Allowed, n \in Names, t \in {"A", "AAAA"} :
           LET r     == ServeDNS(snap, c, [form |-> "query", name |-> n, type |-> t], FALSE)
               trail == Trail(snap, Match(snap.views, c), n)
               ends  == {k \in 0 .. CnameChaseDepth : trail[k] # None /\ trail[k + 1] = None}
               hops  == {rr \in Rows(r.answer) : rr.type = "CNAME"}
           IN  /\ r.source = "authoritative"
               /\ ends = {} => Len(r.answer) = CnameChaseDepth + 1 /\ Rows(r.answer) = hops
               /\ \A k \in ends :
                    /\ hops = {[name |-> trail[j], type |-> "CNAME", value |-> trail[j + 1]] : j \in 0 .. k - 1}
                    /\ {rr.value : rr \in Rows(r.answer) \ hops} =
                       {rr.value : rr \in {e \in Rows(Lookup(snap, Match(snap.views, c), trail[k])) : e.type = t}}]_vars

----------------------------------------------------------------------------
(* What the comments and the design promise and the code does not keep.    *)

\* "Serials must never go backwards." (zone/holder.go)
SerialNeverBackwards == [][cur'.gen >= cur.gen]_vars

\* "View == \"\" means every view." (store/model.go): an untagged record is served in
\* a view unless a record of the same name is tagged for it.  One tagged record hides
\* all the untagged ones from its view.
UntaggedEverywhere ==
    [][cur' # cur => \A view \in DOMAIN cur'.in.views :
         \A r \in Rows(cur'.in.records) :
           r.view = None /\ r.type # "PTR"
           /\ (\A s \in Rows(cur'.in.records) : s.name = r.name => s.view # view)
             => [type |-> r.type, value |-> r.value] \in Rows(Lookup(cur'.snap, view, r.name))]_vars

\* "Name exists, type does not: NOERROR" (v1 design): a PTR question about a name that
\* has addresses gets NXDOMAIN.
AbsentMeansAbsent ==
    \A c \in Allowed, n \in Names, t \in {"A", "PTR"} :
        ServeDNS(cur.snap, c, [form |-> "query", name |-> n, type |-> t], TRUE).rcode = "NXDOMAIN"
          => Lookup(cur.snap, Match(cur.snap.views, c), n) = <<>>

\* "The registry enforces that a MAC names one service" (dhcpd/reserve.go): two handlers
\* may both find it free.
MacsUnique == \A i, j \in DOMAIN services : i # j /\ services[i].mac # None => services[i].mac # services[j].mac

\* What is committed can be built, so that the next boot does not end with "initial
\* snapshot": a CNAME and an address at one name are accepted one after the other.
BootsAgain == Builds([views |-> views, ids |-> <<>>, services |-> ByName(services),
                      records |-> ById(records), leases |-> <<>>])
=============================================================================
