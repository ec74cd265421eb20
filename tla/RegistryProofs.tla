--------------------------- MODULE RegistryProofs ---------------------------
(***************************************************************************)
(* Serials and view references, for any number of goroutines and any       *)
(* documents.  A serial is one snapshot's because the counter is ahead of  *)
(* every generation it handed out, the served one included; the references *)
(* hold because the foreign keys are checked in the write itself, not      *)
(* because of what a handler read before.  The reservations are one-to-one *)
(* whatever the table holds.                                               *)
(***************************************************************************)
EXTENDS Registry, TLAPS, FiniteSetTheorems

\* Replacing or adding a service adds no tags but its own.
LEMMA UsedByService ==
    ASSUME NEW s, NEW r, NEW id, NEW doc
    PROVE  Used(Override(s, At(id, doc)), r) \subseteq Used(s, r) \cup Tags(doc)
BY DEF Used, Override, At

\* Adding a record adds no tag but its own.
LEMMA UsedByRecord ==
    ASSUME NEW s, NEW r, NEW id, NEW doc
    PROVE  Used(s, Override(r, At(id, doc))) \subseteq Used(s, r) \cup RecordTags(doc)
BY DEF Used, Override, At

\* Deleting rows adds no tags.
LEMMA UsedWithout ==
    ASSUME NEW s, NEW r, NEW id
    PROVE  /\ Used(Without(s, id), r) \subseteq Used(s, r)
           /\ Used(s, Without(r, id)) \subseteq Used(s, r)
BY DEF Used, Without

\* A document that ReplaceAll accepts refers to its own views only.
LEMMA UsedByDocument ==
    ASSUME NEW d, DocumentValid(d)
    PROVE  Used(d.services, d.records) \subseteq DOMAIN d.views
<1>1. \A i \in DOMAIN d.services : Tags(d.services[i]) \subseteq DOMAIN d.views
  BY DEF DocumentValid, ValidService
<1>2. \A i \in DOMAIN d.records : RecordTags(d.records[i]) \subseteq DOMAIN d.views
  BY DEF DocumentValid, ValidRecord
<1> QED BY <1>1, <1>2 DEF Used

\* The serial half of IndInv.
Serials ==
    /\ gen \in Nat /\ cur.gen \in Nat /\ cur.gen <= gen
    /\ at \in [Writers -> Phases] /\ serial \in [Writers -> Nat]
    /\ SerialsDistinct

\* A step that hands out no generation and starts no build keeps the serials apart.
LEMMA QuietSerials ==
    ASSUME Serials, NEW w \in Writers, NEW to \in Phases \ {"build"}, Go(w, to),
           UNCHANGED <<gen, cur, serial>>
    PROVE  Serials'
<1>1. at' \in [Writers -> Phases] BY DEF Serials, Go
<1>2. \A v \in Writers : at'[v] = "build" => at[v] = "build" BY DEF Serials, Go
<1>3. SerialsDistinct' BY <1>2 DEF Serials, SerialsDistinct
<1> QED BY <1>1, <1>3 DEF Serials

\* No handler step, up to the write, hands out a generation.
LEMMA HandleSerials == ASSUME Serials, NEW w \in Writers, Handle(w) PROVE Serials'
<1>1. ASSUME NEW kind, NEW id, NEW doc, NEW to \in {"promote", "known", "write"},
             Submit(w, kind, id, doc, to)
      PROVE  Serials'
  <2>1. to \in Phases \ {"build"} BY DEF Phases
  <2>2. Go(w, to) /\ UNCHANGED <<gen, cur, serial>> BY <1>1 DEF Submit, Quiet
  <2> QED BY <2>1, <2>2, QuietSerials
<1>2. CASE ReservableMAC(w) \/ Validate(w) \/ MacUnique(w)
  <2>1. PICK to \in {"known", "mac", "write"} : Go(w, to) /\ UNCHANGED <<gen, cur, serial>>
    BY <1>2 DEF ReservableMAC, Validate, MacUnique, Quiet
  <2>2. to \in Phases \ {"build"} BY DEF Phases
  <2> QED BY <2>1, <2>2, QuietSerials
<1> QED
  BY <1>1, <1>2 DEF Handle, CreateService, CreateRecord, CreateView, UpdateService, AddAddress,
                    PromoteLease, CountReferences

\* No write hands out a generation.
LEMMA WriteSerials == ASSUME Serials, NEW w \in Writers, Write(w) PROVE Serials'
<1>1. Go(w, "views") /\ UNCHANGED <<gen, cur, serial>>
  BY DEF Write, PutService, PutRecord, PutView, DropView, Committed, DeleteService, DeleteRecord,
         ImportReplace, LeasesChange, Immediate, Quiet
<1>2. "views" \in Phases \ {"build"} BY DEF Phases
<1> QED BY <1>1, <1>2, QuietSerials

\* The atomic add returns a generation nobody has; the swap makes one build's
\* generation the served one.
LEMMA RebuildSerials == ASSUME Serials, NEW w \in Writers, Rebuild(w) PROVE Serials'
<1>1. CASE \/ ReadViews(w) \/ ReadServices(w) \/ ReadRow(w) \/ ReadAddresses(w) \/ ReadAliases(w)
           \/ ReadRecords(w) \/ ReadLeases(w) \/ GiveUp(w)
  <2>1. PICK to \in {"services", "row", "addresses", "aliases", "records", "leases", "reserve", "idle"} :
          Go(w, to) /\ UNCHANGED <<gen, cur, serial>>
    BY <1>1 DEF ReadViews, ReadServices, ReadRow, ReadAddresses, ReadAliases, ReadRecords,
                ReadLeases, GiveUp
  <2>2. to \in Phases \ {"build"} BY DEF Phases
  <2> QED BY <2>1, <2>2, QuietSerials
<1>2. CASE Reserve(w)
  <2>1. gen' \in Nat /\ cur'.gen \in Nat /\ cur'.gen <= gen' BY <1>2 DEF Serials, Reserve
  <2>2. at' \in [Writers -> Phases] /\ serial' \in [Writers -> Nat]
    BY <1>2 DEF Serials, Reserve, Go, Phases
  <2>3. SerialsDistinct' BY <1>2 DEF Serials, SerialsDistinct, Reserve, Go
  <2> QED BY <2>1, <2>2, <2>3 DEF Serials
<1>3. CASE Publish(w)
  <2>1. cur'.gen = serial[w] /\ at[w] = "build" /\ gen' = gen /\ serial' = serial
    BY <1>3 DEF Publish
  <2>2. at' \in [Writers -> Phases] BY <1>3 DEF Serials, Publish, Go, Phases
  <2>3. \A v \in Writers : at'[v] = "build" => v # w /\ at[v] = "build"
    BY <1>3 DEF Serials, Publish, Go
  <2>4. SerialsDistinct' BY <2>1, <2>3 DEF Serials, SerialsDistinct
  <2> QED BY <2>1, <2>2, <2>4 DEF Serials, SerialsDistinct
<1> QED BY <1>1, <1>2, <1>3 DEF Rebuild

\* The transactions that change the tables check the references they leave behind.
LEMMA WriteRefs == ASSUME RefsExist, NEW w \in Writers, Write(w) PROVE RefsExist'
<1>1. CASE PutService(w)
  <2>1. views' = views /\ records' = records /\ Tags(job[w].doc) \subseteq DOMAIN views
    BY <1>1 DEF PutService, References
  <2>2. Used(services', records) \subseteq Used(services, records) \cup Tags(job[w].doc)
    BY <1>1, UsedByService DEF PutService
  <2> QED BY <2>1, <2>2 DEF RefsExist
<1>2. CASE PutRecord(w)
  <2>1. views' = views /\ services' = services /\ RecordTags(job[w].doc) \subseteq DOMAIN views
    BY <1>2 DEF PutRecord, References
  <2>2. Used(services, records') \subseteq Used(services, records) \cup RecordTags(job[w].doc)
    BY <1>2, UsedByRecord DEF PutRecord
  <2> QED BY <2>1, <2>2 DEF RefsExist
<1>3. CASE PutView(w)
  <2>1. DOMAIN views \subseteq DOMAIN views' BY <1>3 DEF PutView, Override
  <2> QED BY <1>3, <2>1 DEF PutView, RefsExist
<1>4. CASE DropView(w)
  <2>1. DOMAIN views' = DOMAIN views \ {job[w].doc} BY <1>4 DEF DropView, Without
  <2> QED BY <1>4, <2>1 DEF DropView, References, RefsExist
<1>5. CASE DeleteService(w) BY <1>5, UsedWithout DEF DeleteService, RefsExist
<1>6. CASE DeleteRecord(w) BY <1>6, UsedWithout DEF DeleteRecord, RefsExist
<1>7. CASE ImportReplace(w) BY <1>7, UsedByDocument DEF ImportReplace, RefsExist
<1>8. CASE LeasesChange(w) BY <1>8 DEF LeasesChange, RefsExist
<1> QED BY <1>1, <1>2, <1>3, <1>4, <1>5, <1>6, <1>7, <1>8 DEF Write

\* Nothing else touches the tables.
LEMMA OtherRefs == ASSUME RefsExist, NEW w \in Writers, Handle(w) \/ Rebuild(w) PROVE RefsExist'
<1>1. UNCHANGED tables
  BY DEF Handle, CreateService, UpdateService, AddAddress, PromoteLease, CreateRecord, CreateView,
         CountReferences, Submit, ReservableMAC, Validate, MacUnique, Rebuild, ReadViews,
         ReadServices, ReadRow, ReadAddresses, ReadAliases, ReadRecords, ReadLeases, Reserve, Publish, GiveUp
<1> QED BY <1>1 DEF tables, RefsExist

\* Every step but validation either leaves a goroutine's document alone or leaves the way to
\* the table; a document that is not a service's goes there unchecked by it.
LEMMA NextDocs == ASSUME Serials, DocsValidated, NEW w \in Writers, Handle(w) \/ Write(w) \/ Rebuild(w)
                  PROVE  DocsValidated'
<1>1. ASSUME NEW to, Go(w, to), to \notin {"mac", "write"}, DOMAIN job' = Writers,
             \A v \in Writers \ {w} : job'[v] = job[v]
      PROVE  DocsValidated'
  BY <1>1 DEF Serials, DocsValidated, Go
<1>2. ASSUME NEW kind, NEW id, NEW doc, NEW to \in {"promote", "known", "write"},
             Submit(w, kind, id, doc, to), kind = "service" => to \in {"promote", "known"}
      PROVE  DocsValidated'
  <2>1. /\ DOMAIN job' = Writers /\ \A v \in Writers \ {w} : job'[v] = job[v] /\ at'[v] = at[v]
        /\ job'[w] = [kind |-> kind, id |-> id, doc |-> doc] /\ at'[w] = to
    BY <1>2 DEF Submit, Go, Serials, DocsValidated
  <2>2. job'[w].kind = kind BY <2>1
  <2> QED BY <1>2, <2>1, <2>2 DEF DocsValidated
<1>3. CASE Validate(w)
  <2>1. /\ job' = job /\ \A v \in Writers \ {w} : at'[v] = at[v]
        /\ job[w].kind = "service" => job[w].doc.addrs # <<>>
    BY <1>3 DEF Validate, ValidService, Go, Serials
  <2> QED BY <2>1 DEF DocsValidated
<1>4. CASE MacUnique(w)
  <2>1. job' = job /\ at[w] = "mac" /\ \A v \in Writers \ {w} : at'[v] = at[v]
    BY <1>4 DEF MacUnique, Go, Serials
  <2> QED BY <2>1 DEF DocsValidated
<1>5. CASE ReservableMAC(w)
  BY <1>1, <1>5 DEF ReservableMAC, DocsValidated
<1>6. CASE Handle(w)
  BY <1>2, <1>3, <1>4, <1>5, <1>6 DEF Handle, CreateService, CreateRecord, CreateView, UpdateService,
                               AddAddress, PromoteLease, CountReferences
<1>7. CASE Write(w)
  <2>1. Go(w, "views") /\ job' \in {job, [job EXCEPT ![w] = NoJob]}
    BY <1>7 DEF Write, PutService, PutRecord, PutView, DropView, Committed, DeleteService,
                DeleteRecord, ImportReplace, LeasesChange, Immediate
  <2> QED BY <1>1, <2>1 DEF DocsValidated
<1>8. CASE Rebuild(w)
  <2>1. PICK to \in {"services", "row", "addresses", "aliases", "records", "leases", "reserve",
                     "build", "idle"} :
          Go(w, to) /\ job' \in {job, [job EXCEPT ![w] = NoJob]}
    BY <1>8 DEF Rebuild, ReadViews, ReadServices, ReadRow, ReadAddresses, ReadAliases, ReadRecords,
                ReadLeases, Reserve, Publish, GiveUp
  <2> QED BY <1>1, <2>1 DEF DocsValidated
<1> QED BY <1>6, <1>7, <1>8

\* IndInv holds at boot and is kept by every step of every handler and rebuild.
THEOREM Inductive == Spec => []IndInv
<1>1. Init => IndInv
  <2> SUFFICES ASSUME Init PROVE IndInv OBVIOUS
  <2>1. RefsExist BY UsedByDocument DEF Init, RefsExist
  <2>2. Serials BY DEF Init, Serials, SerialsDistinct, Phases
  <2>3. DocsValidated BY DEF Init, DocsValidated
  <2> QED BY <2>1, <2>2, <2>3 DEF IndInv, Serials
<1>2. IndInv /\ [Next]_vars => IndInv'
  <2> SUFFICES ASSUME IndInv, [Next]_vars PROVE IndInv' OBVIOUS
  <2>1. Serials /\ RefsExist /\ DocsValidated BY DEF IndInv, Serials
  <2>2. CASE Next
    <3>1. Serials' BY <2>1, <2>2, HandleSerials, WriteSerials, RebuildSerials DEF Next
    <3>2. RefsExist' BY <2>1, <2>2, WriteRefs, OtherRefs DEF Next
    <3>3. DocsValidated' BY <2>1, <2>2, NextDocs DEF Next
    <3> QED BY <3>1, <3>2, <3>3 DEF IndInv, Serials
  <2>3. CASE UNCHANGED vars
    BY <2>3 DEF vars, tables, IndInv, SerialsDistinct, RefsExist, DocsValidated
  <2> QED BY <2>2, <2>3
<1> QED BY <1>1, <1>2, PTL DEF Spec

\* One SOA serial never stands for two zone snapshots, however many rebuilds of
\* zone.Holder run at once and whichever of them fail.
THEOREM SerialsAreDistinct == Spec => []SerialsDistinct
<1>1. IndInv => SerialsDistinct BY DEF IndInv
<1> QED BY <1>1, Inductive, PTL

\* No stored service or record is tagged for a view that does not exist, however the
\* checks of Registry.PutService, PutRecord and DeleteView interleave with writes.
THEOREM ReferencesAreKept == Spec => []RefsExist
<1>1. IndInv => RefsExist BY DEF IndInv
<1> QED BY <1>1, Inductive, PTL

\* A write that reports success for a service is PutService's, and stored the document.
LEMMA PutLands ==
    ASSUME IndInv, NEW w \in Writers, PutService(w)
    PROVE  \E i \in DOMAIN services' : services'[i] = job[w].doc /\ job[w].id \in {0, i}
<1> DEFINE j == job[w]
           id == IF j.id = 0 THEN NewId(services) ELSE j.id
<1>1. j.doc.addrs # <<>> BY DEF PutService, IndInv, DocsValidated
<1>2. services' = Override(services, At(id, j.doc)) BY <1>1 DEF PutService
<1>3. id \in DOMAIN services' /\ services'[id] = j.doc BY <1>2 DEF Override, At
<1> QED BY <1>3

\* A handler that reports success for a service has stored it, although the service it
\* updates may be gone, or its id given to another, since it was read (Registry.PutService,
\* updateService).
THEOREM UpdatesLand == Spec => UpdateLands
<1>1. IndInv /\ [Next]_vars =>
        [\A w \in Writers :
           at[w] = "write" /\ job[w].kind = "service" /\ at'[w] = "views" =>
             \E i \in DOMAIN services' : /\ services'[i] = job[w].doc
                                         /\ job[w].id \in {0, i}]_vars
  <2> SUFFICES ASSUME IndInv, Next, NEW w \in Writers,
                      at[w] = "write", job[w].kind = "service", at'[w] = "views"
               PROVE  \E i \in DOMAIN services' : services'[i] = job[w].doc /\ job[w].id \in {0, i}
    OBVIOUS
  <2>1. PICK v \in Writers : Handle(v) \/ Write(v) \/ Rebuild(v) BY DEF Next
  <2>2. \E to : Go(v, to)
    BY <2>1 DEF Handle, CreateService, UpdateService, AddAddress, PromoteLease, CreateRecord,
                CreateView, CountReferences, Submit, ReservableMAC, Validate, MacUnique, Write, PutService, PutRecord,
                PutView, DropView, Committed, DeleteService, DeleteRecord, ImportReplace,
                LeasesChange, Immediate, Rebuild, ReadViews, ReadServices, ReadRow, ReadAddresses,
                ReadAliases, ReadRecords, ReadLeases, Reserve, Publish, GiveUp
  <2>3. v = w BY <2>2 DEF Go, IndInv
  <2>4. CASE Handle(w)
    BY <2>4 DEF Handle, CreateService, UpdateService, AddAddress, PromoteLease, CreateRecord,
                CreateView, CountReferences, Submit, Begin, ReservableMAC, Validate, MacUnique
  <2>5. CASE Rebuild(w)
    <3>1. Go(w, "idle")
      BY <2>5 DEF Rebuild, ReadViews, ReadServices, ReadRow, ReadAddresses, ReadAliases,
                  ReadRecords, ReadLeases, Reserve, Publish, GiveUp
    <3> QED BY <3>1 DEF Go, IndInv
  <2>6. CASE Write(w)
    <3>1. PutService(w)
      BY <2>6 DEF Write, PutRecord, PutView, DropView, DeleteService, DeleteRecord, ImportReplace,
                  LeasesChange, Immediate, Begin
    <3> QED BY <3>1, PutLands
  <2> QED BY <2>1, <2>3, <2>4, <2>5, <2>6
<1> QED BY <1>1, Inductive, PTL DEF Spec, UpdateLands

----------------------------------------------------------------------------
(* Reservations. *)

\* A claim that stands has one address in the subnet, the one its reservation pairs.
LEMMA OneAddress ==
    ASSUME NEW svcs, NEW i \in Standing(svcs, Lan, Edge)
    PROVE  LanOf(svcs[i], Lan) = {Pair(svcs[i], Lan)[2]} /\ Pair(svcs[i], Lan)[1] = svcs[i].mac
<1>1. LanOf(svcs[i], Lan) \in SUBSET Lan BY DEF LanOf
<1>2. IsFiniteSet(LanOf(svcs[i], Lan)) BY <1>1, RegistryAssumption, FS_Subset
<1>3. Cardinality(LanOf(svcs[i], Lan)) = 1 BY DEF Standing
<1>4. PICK a : LanOf(svcs[i], Lan) = {a} BY <1>2, <1>3, FS_Singleton
<1> QED BY <1>4 DEF Pair

\* The reservations derived from any table are one-to-one, so what racing handlers left in
\* it, such as a MAC two of them found free, does not matter (dhcpd.Reservations).
LEMMA OneToOne == ReservationsOneToOne
<1> DEFINE st == Standing(services, Lan, Edge)
           all == Reservations(services, Lan, Edge)
<1>1. \A r \in all : \E i \in st : r = Pair(services[i], Lan)
                       /\ \A j \in st \ {i} : LanOf(services[j], Lan) # LanOf(services[i], Lan)
  BY DEF Reservations
<1>2. \A i, j \in st : i # j => services[i].mac # services[j].mac BY DEF Standing
<1>3. \A i \in st : i \in DOMAIN services /\ LanOf(services[i], Lan) \cap Edge = {} BY DEF Standing
<1>4. ASSUME NEW r \in all, NEW s \in all, r # s PROVE r[1] # s[1] /\ r[2] # s[2]
  <2>1. PICK i \in st : r = Pair(services[i], Lan)
                       /\ \A j \in st \ {i} : LanOf(services[j], Lan) # LanOf(services[i], Lan)
    BY <1>1
  <2>2. PICK j \in st : s = Pair(services[j], Lan) BY <1>1
  <2>3. i # j BY <1>4, <2>1, <2>2
  <2> QED BY <2>1, <2>2, <2>3, <1>2, OneAddress
<1>5. ASSUME NEW r \in all
      PROVE  r[2] \notin Edge /\ \E i \in DOMAIN services :
                services[i].mac = r[1] /\ {r[2]} = LanOf(services[i], Lan)
  <2>1. PICK i \in st : r = Pair(services[i], Lan) BY <1>1
  <2> QED BY <2>1, <1>3, OneAddress
<1> QED BY <1>4, <1>5 DEF ReservationsOneToOne

\* "The pairing must be one-to-one in both directions" in every reachable state.
THEOREM ReservationsAreOneToOne == Spec => []ReservationsOneToOne
BY OneToOne, PTL
=============================================================================
