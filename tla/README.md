# A TLA+ verification of KyDNS

KyDNS is a DNS server for a home network in one Go process: an authoritative
private zone, a filtering and caching forwarder, a built-in DHCP server, an admin
API and web interface, and one-way replication of the configuration from a primary
to replicas. Everything persistent is in one SQLite file; everything that answers
packets works on snapshots built from it and swapped in by pointer. The hard part
is therefore not any single algorithm but the order of *commit, rebuild, swap,
apply and record* when HTTP handlers, a pull loop, packet handlers and background
goroutines do them at once, and when one of the steps fails or the process dies
between two of them. That is what these modules are about.

## Inventory

| Component | State | Operations | What is hard | What makes it correct |
|---|---|---|---|---|
| Pull loop (`replica/puller.go`) | last version, pin, connection | poll: version, snapshot, apply, record | the primary is written while it is read; any step fails; the node is promoted meanwhile | a recorded version is really held and served; it converges; it never writes over a primary |
| Snapshot handler (`app/replication.go`, `replica/server.go`) | none | version first, then seven table reads | no transaction around the reads | never claims a version it does not ship |
| Applier (`app/replication.go`, `app/apply.go`, `store.ApplySnapshot`) | database, three holders | one transaction, then settings, live components with the zone, policy | each rebuild may fail after the commit | failed applies are retried |
| Roles (`app/role.go`, `replicaPromoter`, `replicaJoiner`) | role, promotion row, replica_state row | promote, join, boot | two durable rows and a running goroutine changed without one lock | a crash leaves a node that knows what it is |
| Pairing (`replica/pairing*.go`) | invite book, peers | mint, redeem, pair | a reply lost after the code is spent | a code works once |
| Zone holder (`zone/holder.go`) | counter, live snapshot | Rebuild from any goroutine | no lock | one serial, one snapshot; newest data served |
| Settings (`settings/settings.go`) | row, holder, applied snapshot | PATCH, Set, Rebuild, publish | read-merge-write across locks; pull and save together | holder agrees with the row; each column keeps its owner |
| Forwarder (`dnsserver/forward.go`) | upstream list, wait groups, flights | Resolve, Replace, retirement | a list is swapped under queries | no connection closed under a query; no leak; every query returns |
| Cache (`dnsserver/cache.go`) | entries | Get, Put, Retune, Flush | a Put after a Flush | never serves a dropped resolver's answer |
| Connection pool (`upstream/pool.go`, `dot.go`) | idle connections, closed flag | get, put, Close, retry of a dead connection | put racing Close | bounded, nothing leaked |
| DHCP allocator (`dhcpd/alloc.go`) | two maps, reservations, quarantine | Offer, Allocate, Release, Decline, SetReservations, Load | rules with side effects on other clients | one holder per address, one owner per name |
| DHCP handlers (`dhcpd/server.go`, `store/dhcplease.go`) | lease table | DISCOVER, REQUEST, RELEASE, DECLINE, restore | a goroutine per packet; the row follows the commit; a probe blocks in the middle | an acknowledged address is the client's alone |
| DHCP runner (`app/dhcp.go`) | running server, last refusal | Reconcile, RefreshReservations, foreign-server watch | role and settings read outside its lock | listener runs exactly when wanted and allowed |
| Lease poller (`discovery/poller.go`) | source, leases, a wake-up channel | Run, Poll, SetSource, SetInterval | source swapped under a poll; a wake-up sent while the loop is busy | leases of the current source, no wake-up lost |
| Policy (`policy/*.go`) | lists, rules, snapshot | edit, refresh, rebuild | a download races an edit or a delete | a refresh never resurrects or overwrites |
| Health checker and relay (`health/checker.go`, `replica/puller.go`) | status per service; on a replica the primary's last reply | Run, CheckOnce, Reconfigure, the pull of health | a sweep works on a list that goes stale; the primary goes silent | hysteresis; statuses are those of the services there are; unknown rather than stale |
| Registry (`registry/*.go`, its handlers in `adminapi`, `web`) | views, services, records | create, update, delete, import, promote a lease | checks read before the write; ids reused | tags name views, reservations are one-to-one, an update is never lost in silence |
| Zone snapshot and matcher (`zone/snapshot.go`, `zone/matcher.go`) | an index per view | Build, Match, Lookup | three layers in one map, tags, inputs read at different moments | precedence and split horizon |
| Query path (`dnsserver/server.go`, `auth.go`) | none | ServeDNS, Answer, chase | CNAME chains and circles, views, filter after zone | local names are answered here, completely, and only for their view |
| Backups (`backup/*.go`) | recovery.pub; pin, url and token rows | pair, pin a key, unpair, export, run, drill | no lock or transaction across file and rows; a crash between two writes; a restore that loses the file | a capsule carries the key it is sealed to and goes to that key's suite |
| CLI, authentication | sessions, cookies | login, commands | I/O and hashing | refusals leave no trace |

Components interact through the database (the pull loop, handlers and DHCP goroutines
write it), through callbacks (`registry.onChange`, `settings.onApply`, `promoter.onPromote`,
DHCP `OnChange`) that end in a `Rebuild`, and through pointers swapped into the query path.
`PROJECT.json` lists every component, and under "hazards" each place where an
interleaving, a failure or a boundary can hurt.

## Modules

| Module | Models | Notes |
|---|---|---|
| `Follower` | what replication promises: contents, a claim, a role | abstract |
| `Replication` | pull loop, snapshot handler, applier, promotion, join, restart | refines `Follower`; proved in `ReplicationProofs` |
| `Zone` | `zone.Build`, view matching, the authoritative answer, `ServeDNS`, DHCP reservations from services | operators, no state |
| `Registry` | registry tables and handlers, lease promotion, import, `zone.Holder.Rebuild`; extends `Zone` | proved in `RegistryProofs` |
| `SettingsService` | settings row, holder, live apply; PATCH, pull loop, promotion | proved in `WorkersProofs` |
| `Forwarder` | Resolve, cache slot, single flight, the DoT pool, Replace, retirement | proved in `PolicyProofs` |
| `DhcpServer` | allocator, packet handlers, lease table, restore, and the clients | proved in `DhcpServerProofs` |
| `Policy` | blacklist tables, edits, import, refreshes, pulled definitions, rebuild and decision | proved in `PolicyProofs` |
| `DhcpRunner` | the DHCP listener's life, its reservations and foreign-server watch, the poller's source | proved in `DhcpRunnerProofs` |
| `Workers` | health checker, the replica's relay of health, lease poller, and how settings wake them | proved in `WorkersProofs` |
| `Backup` | pairing with a recovery server, the pinned key, export, deposit, drill, restore | proved in `BackupProofs` |
| `Pairing` | invite codes, the exchange between joining node and primary, the peers table | proved in `PairingProofs` |
| `MC*` | instances for TLC | |

Operators named `...NoWait`, `...Skipped` and the like, each under a comment that starts with
"Mutant:", are deliberate faults. No specification uses them: each one replaces the definition
that follows it, to show that the property it is listed with really depends on that line of
the code.

### Replication

A table's content is abstracted to the version of the write that made it (`cfg[p][t]` on the
primary, `[by, ver]` on the node). The eight replicated tables are grouped by what is rebuilt
from them: zone, settings, policy. One poll is the sequence `PollVersion`, `SnapshotVersion`,
`SnapshotRead` (three times), `ApplySnapshot`, `RebuildSettings`, `LiveApply`, `RebuildPolicy`,
`RecordState`; between any two of them the primary writes, the operator promotes or joins, or
the node restarts. `PollFails` is every error return. `LiveApply` may leave the old zone in
place, because `liveComponents.Apply` only logs that error. `Promote` is five steps, guard,
record, wait for the loop, clear and flip; its guard is read once (`PromoteCheck`), so several callers may be inside, and one of
them may record its promotion on a node that is a primary by then and was joined again since. A transaction moves
`config_version` by one here and by one per changed row in the code: only "it moved" is used.
An equal version, a failed dial, a foreign node id and a schema mismatch end a poll before it
touches anything and are stuttering steps.

`Follower` says what all of that amounts to: contents arrive whole, at a version no older than the claim; a claim is made
only for contents that are there; nothing arrives on a node that accepts writes; and the claim is given up before writes are accepted. A promotion may be declared at any time, also on a node that accepts writes already.
`Replication!Refines` maps the rows of the three tables to its contents and the replica_state row to its claim.

### Zone and Registry

`Zone` is what a snapshot is built from and what a query gets from it. A name of the private zone is a number in text
order, a reverse name is its address, a prefix is its length and the clients inside. `BuildIndex` folds the three
loops of `buildIndex` over leases, services and records; `Builds` is when `Build` returns no error. `Registry` holds
the tables and the live snapshot. A handler is the reads it makes (the service it merges with, the known
views, the stored MACs, the references of a view), each a step of its own, then one transaction with the constraints of
the schema, then `Rebuild`: views, services, records and leases read one after the other, the generation
added, the snapshot built and swapped. The services are read as `Store.Services` reads them: the ids in the order of the names
(`ReadServices`), then for each the row, the addresses and the aliases (`ReadRow`, `ReadAddresses`, `ReadAliases`), with writes of others in
between; a row that is gone fails the rebuild, addresses or aliases that are gone read as none. A rename in between leaves the list out of name
order, and `Expected` is therefore stated of the list that was read: of two services that claim a name the last on it wins. A POST may carry an id and
is then an update; `PromoteLease` reads the leases in one step and `ReservableMAC` the services in another. The discovery poller enters at the same place. The last element of `cur`
is history, the input a snapshot was built from. Answers are compared with `Expected`, `PTRRight`,
`Home`, `MayLearn` and `Trail`, which say who should win without following the loops. A merge import is the same writes one after the
other. A forwarded question may fail, and `ServeDNS` then answers SERVFAIL. A zone rename is not in the model, and the services that
a handler reads before its write (for a merge, for the MACs) are read in one step.

### SettingsService

The row is three fields: the replicated columns, the DHCP columns, and the node-local columns that are not DHCP's (lease file,
discovery interval, the two query-log switches), which no pull touches and no request on a replica may change (`DhcpOnlyChange`). A field's value is who wrote it. `writeMu` and `rebuildMu` are explicit. The apply's argument is
loaded in a step before the apply, as in the code. `failed` records that the last rebuild returned
an error to its caller, because "the holder has the row" is only promised to writers that succeeded.

### Forwarder

Upstream instances are `<<spec, n>>`, because `Replace` compares instances and the flush compares
specs. A retirement waits for its own list's queries, looks at the current list, and closes, in
three steps; `looked` remembers which list it saw. Settings build new instances on every save, but a list comes back when one snapshot is applied
twice (a pull and a DHCP save both applying `Current()`), and the lists of the run share instances and come back. A spec in `Pooled` is over TLS: its exchange takes an idle connection or dials,
retries after a connection that died while idle, and gives the connection back, where `pool.put` reads `closed`
in one step and enqueues in another. `pool.Close`, likewise, stops the pool and empties it in two steps. `RunsOut` is the
attempt's deadline: every further round trip fails at once, so the idle connections are taken one by one (`TakeLate`), while other queries may give some back,
until the pool is found empty and the dial fails (`FailLate`). Flushes because of a zone rename are
covered by `Expire`.

### DhcpServer

An address is a number so that rule 4 has a lowest one. `Decide` is rules 1 to 4, `Granted` and
`StoreLease` the commit closure. A handler is a goroutine: `Discover` takes the hold, then the
probe's outcome arrives later (`ProbeMiss`, or `ProbeHit`, `ProbeDrop`, `Reoffer`); `Request` commits in the
allocator and `Ack` writes the row and answers later. The table's rows hold whole seconds (`Unix`), the allocator's leases ticks, so a restored
lease ends up to a second early; `PutDHCPLease` deletes the other holder's row and upserts, and the UNIQUE constraint on the address (`UniqueIP`) would refuse a second holder. `Reboot` kills every goroutine; `Reconfigure`
starts a new allocator while handlers of the old listener finish their database writes, because
`Stop` does not wait for them. The constant `Faults` selects what may go wrong. Clients are honest: one
renews what it uses, gives up what is NAKed, and ignores the answer to an exchange it has abandoned.

### Policy

A list row is its definition, the body last downloaded and the download its validators came with;
a body is `<<source, version>>`. A source is a URL in a format, and `Url` gives its URL, because every check of the code (`MayPut`, `Repointed`, `Kept`) compares the URL and lets the format change. Every worker (two HTTP handlers, the refresher, the pull loop) runs its
operation as separate steps wherever the code makes separate database calls: check and write of
`PutList` and `DeleteList`, the read, the transaction and the reseeding of an import, the read of the
list to refresh, its download and its installation, and the three reads of a `Rebuild` under
`rebuildMu`. Ids are given as SQLite gives them, largest plus one, so the id of a deleted list
comes back; the shipped definitions and the pulled ones are sequences, and those that have no row get one in
their order (`Extend`). `Match` is the walk over the labels; the properties compare it with `Covers`, a suffix
of labels. `unserved` remembers that an operation reported an error after its commit, because only
operations that succeeded promise to be served. `shipped` is history: the URL each built-in was shipped or last imported with, or none any more once an
edit of the lists overlapped an import or an import failed in its seeding. The block TTL, counters and refresh times are left out.

### DhcpRunner

A listener is a number and owns one allocator; `built` is what it was built from and `current` what the
runner says. `Reconcile` is the read of role and services before the lock, the decision under it, and the
bind; the lock is held from stopping the old listener to binding the new one. The second half is
`RefreshReservations` with its generation counter. Whether a build is refused (interface, range,
a foreign server on the segment) and whether a bind fails is a choice. `Apply` continues with the status
and the poller's source, in two steps; what the poller then does with it is in `Workers`.

### Workers

The checker and the poller are one loop each (`start`, `busy`, `sleep`) with a channel of capacity one. A caller stores its
setting and then sends, in two steps; the timer may fire at any moment and leave the token behind. A sweep lists the services
once and records the outcome of each later, by id, while services are created, edited and deleted. The relay is the health
half of a replica's poll. `Poll` reads the source in one step, its leases in another and publishes in a third, if the digest differs from that of what is published: a
lease set is what the digest sees (hostnames and addresses) and the rest (MACs, expiries), and a change of the rest alone stays unpublished; the DHCP server's
`OnChange` polls beside `Run`. `owes` and `seen` are history: a setting stored since the loop woke, and the last two outcomes. Intervals,
probes themselves and the limit on concurrent probes are left out.

### Backup

The recovery key is the file and the pin row; a pairing is two more rows. A request is a sequence of single reads and writes, any of which may fail (`Fails`)
or be the last before a crash. `Restore` rebuilds the node from the last capsule that left it, perhaps without recovery.pub. The
`recoveryclient` library is external: its order of writes (file before pin, url before token), the exclusive creation of the file and, in its Run, the loading of the
key before the collection are assumptions. `Export` in this repository has that order; were the library to collect first, a run that overlaps a pairing after an
incomplete restore could deposit a capsule with the pin row and without the key file, as the mutant of `CapsuleWhole` shows.

### Pairing

A primary stands for its key. The joining node's half and the handler on the primary are separate and meet
only in `Post` and `ReplyArrives`; `JoinFails` can leave the handler running without its caller. The command line asks
who answers before it sends the join (`Confirm`), the web interface does not. `Readdress` lets
another machine answer at an address at any moment. `redeemed`, `received`, `paired` and `removed` are history.
The pull loop is what `Replication` details, reduced to the pin it records and the row it touches, in one step: no property here depends on what happens between the two,
and `Replication` has them apart.

## What is checked

| Run | Shows | Bounds |
|---|---|---|
| `replication` | `StateCovers`, `ServesHeld`, `NoPullOverPrimary`, `Refines`, `Convergence` | two primaries, one of which writes once more, two promotions at once, any number of joins, failures and restarts |
| `registry` | `SerialsDistinct`, `RefsExist`, `ReservationsOneToOne`, `UpdateLands`, `PublishedAnswers`, `SplitHorizon`, `ChainsComplete` | two goroutines, two operations of any kind, three starting registries; three names, four addresses, two nested prefixes, a client in each and one outside, a CNAME cap of two |
| `settings` | `HolderFresh`, `OwnersKept` | two clients without end, two pulls, a promotion, each of the three parts of the row |
| `forwarder` | `RetirementSpares`, `QueriesReturn`, `RetiredAreClosed` | two queries that ask the same or different questions, lists of a TLS and a plain upstream, two replacements, the second of which may bring the first list's instances back, one idle connection per pool |
| `dhcp_clients` | `AckedBound` (with `BindingsAgree`, it implies `NoDoubleUse`), `NamesUnique` | two clients, two handlers, a pool of three with the gateway in it and an address outside the subnet, leases of one tick that expire and are re-issued, lost answers; a failed lease write changes nothing that is read here |
| `dhcp_faults` | `BindingsAgree`, `OfferHarmless` | two clients, two handlers, a pool of one, an address beside it that is reserved for one client or the other, every fault but loss, two ticks, a second longer than a lease so that some rows lose their whole lease to the cut; a quarantine outlasts the run (it ends in `dhcp_clients`) |
| `policy` | `FilterObeyed`, `TagDescribesBody`, `BuiltinsKept` | two built-ins and another list, three sources, two of which share a URL, one of which sometimes serves nothing usable, four names related by suffix, two operations at once, downloads and restarts without end |
| `dhcp_runner` | `ReplicaNeverServes`, `StatusHonest`, `ReservationsFresh`, `BannerOfRunning`, `SourceNotGone` | one save among three settings, a promotion, two registry writes, any number of probes |
| `workers` | `NoLostWake`, `VerdictEarned`, `StatusesFollow`, `RelayFollows`, `LeasesFollow` | two callers, one service id that is reused, two lease sources, four lease sets, some with one digest; one loop at a time, for they share nothing but their callers |
| `backup` | `CapsuleWhole`, `SealedForServer`, `PairHeals` | two requests at once, three servers of two suites, any number of failures, crashes and restores |
| `pairing` | `CodeOnce`, `CodeToConfirmed`, `PairingAgrees` | one node, two joins, two primaries that may answer one address, two codes that expire at once, a restart of each primary and any number of the node |
| `pairing_sticks` | expects a violation of `JoinSticks` | the same with two addresses and no clock |

The bounds are the smallest at which the cases happen. A torn snapshot takes one write
between two reads and its repair one more poll. Two primaries are needed for a pin and a loop that
disagree. Two retirements that overlap take two replacements, and a connection given back to a pool being closed one. A false alarm
takes two outcomes, an inherited status a delete, a create and one id. A half-made pairing takes one crash, and one suite with two servers a url and a token that disagree. A lease that expires and goes
to another client takes one tick more than its length. A declined or probed
address leaves fewer addresses than clients, so the pool runs out, and moving reservations evict. An id that changes
owners takes a delete and a create, or an import; a refresh overtaken by another takes a save's and a write's. A code
used twice takes two joins, and a code for the wrong primary a second one. A stale check takes two handlers; a chain of two
CNAMEs just fits the cap and a circle exceeds it. Symmetry is used over requests, writers, handlers, joins and clients, which no definition tells apart; the runs with liveness properties use none.
Runs in which the clock, the number of changes or of operations is used up may stop; deadlock is checked in `replication`, `settings`, `workers` and `backup`, which never do.

### Fairness

`Replication!FairSpec`: weak fairness of the poll's own steps. The loop is a goroutine with its own
timer, and every request has a deadline. Nothing is assumed of failures: `Convergence` says only what happens
once they, the operator and restarts stop disturbing it. `Forwarder`: weak fairness of a query past the cache
and of the deadline of its attempt, of the retirement goroutines and of the apply in progress. (Without the deadline `dot.Exchange` need not
return: its comment says it retries up to the pool's size, but other queries may refill the pool.) `Workers`: weak fairness of both loops, of the relay's poll
and of a poll that has begun, and strong fairness of listing the services and of reading the leases: the database and the lease file are not unreadable
for ever. The other specifications state none. No fairness is
assumed of clients, of the operator or of time.

## What the code does not keep

One run expects a violation. It states what the command line tells an operator who has just paired
(`cli/replica.go:174`, quoted in `PROJECT.json`) and finds a behaviour of the code that contradicts it.

* `pairing_sticks` (`JoinSticks`): a node follows primary `p` and joins `q`. Its pull loop is still running with
  `p`'s pin, finds a new version at `p`, applies it and records `p` over the join's row. The restart follows, or
  refuses, the wrong primary. (`Replication` has the same fact as `PinOnlyByOperator`.)

These formulas, too, are refuted by the code. They are defined in the modules, under a comment that says so, and any of them can
be given to TLC as the property of an existing configuration. The first fourteen contradict a
sentence of a comment, of the design or of the repository's README.

* `Replication!NeverStranded` ("a promoted node comes back a primary at every later start", `README.md:506`): `Promote` records
  the promotion and waits for the pull loop; a join commits, deleting the promotion; `Promote` clears replica_state.
  The node is a primary whose next boot is an unpaired replica.
* `Replication!SecondPromoteIdle` ("the second call costs a redundant write and changes nothing", `app/replication.go:246`): two calls
  pass the guard, the first finishes, the node is joined to a primary, and the second records a promotion and clears the pin: the join is undone.
* `Registry!SerialNeverBackwards` ("Serials must never go backwards", `zone/holder.go:31`): generation 2 is reserved,
  generation 3 reserved, built and swapped, then 2 is swapped; what its rebuild had not read yet
  stays out of service until the next rebuild.
* `Registry!UntaggedEverywhere` ("View == \"\" means every view", `internal/store/model.go:37`): `pick` chooses over all records at
  once, so one record tagged for a view hides every untagged record of other names from that view.
* `Registry!AbsentMeansAbsent` (a name that exists without the type is NODATA, the comment at `dnsserver/auth.go:171` and the design's table of
  answers): a PTR question for a name that has addresses is answered NXDOMAIN.
* `Registry!MacsUnique` ("The registry enforces that a MAC names one service", `dhcpd/reserve.go:39`): two handlers read the services
  before either writes. `Reservations` then reserves neither, which is `ReservationsOneToOne`.
* `SettingsService!NoClobber` ("two people editing different settings do not clobber each other", `README.md:258`): two
  PATCHes of different keys compose from the same running snapshot; the second writes the first one's key back.
* `Forwarder!FlushSticks` ("must not keep being served", `app/serve.go:507`): a query acquires the old list, the list is
  replaced and the cache flushed, the query caches the old resolver's answer.
* `Forwarder!ClosedUnneeded` ("An upstream instance that is still live when its retirement actually runs" is "never closed", the comment on `Forwarder.Replace`, `dnsserver/forward.go:86`): a list is
  replaced, its retirement looks at the current list, the old list is installed again, the retirement closes it. Likewise a query of an earlier list
  loses an instance that a later one shared. `RetirementSpares` is what is kept; `FreshInstancesStayOpen` says that with new instances on every save the promise holds.
* `DhcpServer!DiscoverKeepsLeases` ("a bare DISCOVER must not be able ... to cut short a lease the same client already holds", `dhcpd/server.go:346`): a DISCOVER
  probes, the same client's REQUEST is committed and acknowledged, something answers the probe, and `ProbeDrop` releases the lease (and with it `AckedBound` fails when
  probes are on). `OfferHarmless` says that this is all a DISCOVER can do.
* `DhcpServer!NoDoubleUse` with reboots and reconfigurations ("a restart cannot re-issue an address that is still in use",
  `dhcpd/server.go:205`): a REQUEST commits, a settings save replaces the listener and restores a table that does not
  have the lease yet, another client is given the address, both ACKs go out.
* `Policy!OwnBody` ("a repointed list must not keep serving the old source's downloaded content or ETag",
  `store/blacklist.go:251`): a refresh downloads, a pull repoints the list and drops its body, the refresh installs the old
  source's body by id. An edit of the URL keeps the old body and validators without any race, and no path drops the body when only the format changes.
* `Policy!NeverRepointed` ("never renamed away from its manifest entry or re-pointed at a different URL", `policy/service.go:92`): an edit is checked on the row of its id, an import
  gives the id to a built-in, the edit is written over it.
* `DhcpRunner!PromotionServes` ("so a promotion starts DHCP without a restart", `app/dhcp.go:36`): a save on a replica reads the role,
  the node is promoted and its listener bound, then the save reconciles with the role it read and stops it.
* `Replication!ZoneServesHeld`: a zone rebuild that fails inside an apply is only logged, the version is recorded, no later
  poll repairs it.
* `Registry!BootsAgain`: a CNAME and an address at one name are accepted one after the other. Every rebuild fails from then on, and so
  does the one at the next boot, which ends the process.
* `SettingsService!LiveFresh`: a replica's DHCP save loads the snapshot, a pull commits, rebuilds and applies, then the
  save applies the older one.
* `DhcpServer!NamesUnique` with reboots: a NAKed REQUEST has changed its lease's name in the allocator and not in the table.
* `DhcpRunner!SourceOfRunning`: Apply sees that nothing runs, a promotion binds and sets the source, Apply sets the lease file.
* `Workers!NoInheritedVerdict`: a service is deleted and another created before the next sweep; SQLite gives it the same id and the checker the old status and counters.
* `Backup!PairSticks`: an Unpair or a second Pair writes between a Pair's rows; half a pairing, or the url of one server and the token of another, remains.
* `Backup!NoFalseAlarm`: a drill collects the database, a key is pinned, the drill reads recovery.pub and reports a key file without its pin row.
* `DhcpRunner!RunsHeld`: a save and a promotion reconcile with the settings they read, in the other order.

## What is proved

Every safety invariant and every action property that a run checks is also a theorem, except the three about the answers of `Zone` (below). The proofs hold for
every value of the constants that satisfies the named assumptions (`NodesAssumption`, `ZoneAssumption`, `RegistryAssumption`, `DhcpAssumption`,
`WorkersAssumption`, `BackupAssumption`, `PairingAssumption`, `RunnerAssumption`, `BootAssumption`, `ListsAssumption`, `PolicyAssumption`), so
for any number of primaries, promotions, goroutines, clients, addresses, lists, names, codes, queries, requests and faults. The assumptions say
that bounds are natural numbers, that the values standing for "nothing" are not also something else, that inputs have their types, and
three things the code establishes elsewhere: the LAN prefix holds finitely many addresses, shipped lists have different names, a parsed or queried name has a label.

`IndInv` of each module (`SettingsInv` of `SettingsService`, `RetireInv` of `Forwarder`) is the inductive invariant; TLC checked each one on the module's run before it was proved.

* `ReplicationProofs`. `StateCovers` is not inductive: it needs to know that the snapshot in flight covers, for the tables
  read so far, the version it carries (`SnapOK`); that this version is at least the one recorded and held, or a
  late record would move it back; that rows equal the snapshot between the commit and the record; that a pin other than the
  loop's is at version zero (`StateOK`), which is what `FollowPrimary` writes and why the loop's late record is harmless to it;
  and that only a replica pulls and a promotion past its wait has no loop left (`RoleOK`). `IndInv` is the conjunction, one lemma
  per action shows its preservation, and `RecordedVersionIsHeld`, `HeldVersionIsServed` and `PromotedNodeIsNotPulledOver` follow.
  `ReplicationRefinesFollower`: most steps change nothing the abstract state sees (`HiddenStep`), a commit is an Install (`ApplyInstalls`), a record a
  Record (`RecordClaims`) and the three durable steps of a promotion are Declare, Forget and TakeOver (`PromotionTakesOver`), which needs the invariant that the claim
  is gone by then; `StepRefines` puts them together.
* `RegistryProofs`. `IndInv` adds to `SerialsDistinct` that every generation handed out or served is at most the counter, so the next add
  is new, and `RefsExist`. `ReferencesAreKept` does not use what a handler checked before its write, only that the foreign
  keys are on in it (`References`); four lemmas say which tags each kind of write can add. `UpdatesLand` is an action property of the one transaction that stores a
  service. `ReservationsAreOneToOne` needs no invariant at all: the exclusions in `Reservations` make it one-to-one on every table, which is why two handlers
  that store one MAC (`MacsUnique` fails) do no harm there.
* `DhcpServerProofs`. `IndInv` is the types, `TaskOK` (what pending work names), `BindingsAgree` and `RowsAgree`. The lemmas on `Decide`, `Granted`,
  `StoreLease`, `Drop` and `Restore` say what each may change and carry one step lemma per action. `OneHolderPerAddress` states
  the agreement of the two maps. `DiscoverTakesBackOnly` covers every step of a DISCOVER: a tentative commit goes to an address no
  other client has a live lease on, a probe that hits drops only a lease of the handler's own client at the address probed, and the second offer weakens none. The promises to the clients hold under conditions, which the run `dhcp_clients` satisfies, and each condition excludes
  a fault that really breaks the promise (see above): `NamesAreUnique` if no allocator is rebuilt from the table (`NeverRestored`), `AckedStaysBound` and
  `NoAddressUsedTwice` if besides no probe hits and the reservations stay (`Steady`); lost packets and failed lease writes are allowed. `Placed` says that a lease lies where the rules would
  put it again, so a renewal never moves, and `Promised` that what is acknowledged, or about to be, is covered by the allocator's own lease.
* `WorkersProofs`. `NoLostWake` speaks of a sleeping loop; inductive is `WakeComing`, the same wherever the loop is. `VerdictEarned` needs that the failure counter is
  what the last two outcomes say (`CountersAgree`).
  Its last section is `SettingsService`. `HolderFresh` speaks of quiet states; in between, the stored row must be on its way into the holder (`Coming`): a writer waits to rebuild or publish,
  or a rebuild has read this very row. The hard case is a row that changes under a rebuild which has read the old one, and `Rebuilding` says who then rebuilds
  after it: a pull under a request's rebuild, a request under the pull loop's. `Writing` keeps the whole-row path to primaries, where nothing is pulled, from which `ColumnsKeepTheirOwners` follows too.
* `BackupProofs`. `TaskOK` says what a request relies on at each of its steps; it survives the steps of all others because the key file is never replaced and
  the pin row only ever set to the file's key (`KeysAgree`), and a restore ends every request. `AloneMeansAlone` ties the history bit in `PairHeals` to the other requests.
* `PairingProofs`. `IndInv` has three parts besides the properties: what each join and each handler has in hand (`ExchangeOK`), what the invite books may still
  redeem (`BooksOK`: an outstanding code was never redeemed, so once is enough), and whose success a peers row, a pin and a running loop stand for (`PeersOK`).
* `DhcpRunnerProofs`. The first half is control: who holds the lock, and that a role read as "primary" stays true because a node is never demoted while it runs (`RoleRead`), which is what makes
  the read outside the lock harmless to `ReplicasNeverServe`. The second half is `RefreshComing`: a refresh with the current generation has the newest list, or the thread that made it
  old still has its own refresh to begin, so the last one to publish is right.
* `PolicyProofs`. `TableInv`: what an operation has read and will write is fit to be written, however the table changed meanwhile, so bodies and validators move together. `ServeInv`: the
  snapshot served is a build of the tables unless a worker still owes a rebuild; and what a rebuild has in hand is out of date only while somebody else owes one, or when an
  operation gave up during it. `FilterIsObeyed` then needs that the walk over labels is suffix matching (`MatchCovers`). `ShippedInv`: while `shipped` is known, an edit decided on one row leaves a built-in that has the
  id by then as shipped, no edit is under way during a seeding, and a built-in is as shipped, or missing and about to be seeded; an import whose tables replace a
  built-in seeds it again before it reports success, and a boot seeds what a death left out. Fresh ids (`NewIdFresh`) keep a seeded row from replacing another.
  Its last section is `Forwarder`. Every step of a query but `Acquire` only releases counts (`OnlyReleases`); from `UsersCounted`, `RetiredUnused`, `ClosedRetired` and
  what a retirement saw when it looked follows `RetirementIsHarmless`, for lists whose instances come back too. `FreshInstancesStayOpen` adds only that no two lists share an instance.

Only model-checked: liveness (`Convergence`, `QueriesReturn`, `RetiredAreClosed`, `StatusesFollow`, `RelayFollows`, `LeasesFollow`), which is out of the prover's reach together with
ENABLED and fairness; and the answers of `Zone` (`PublishedAnswers`, `SplitHorizon`, `ChainsComplete`), which speak of what folds over
lists of records and a bounded chase compute and so take induction over data.

## What is not modelled

The bytes: DNS and DHCP encoding, TLS, JSON, SQL, HTML. Validation rules of settings, and the spelling of names, addresses and MACs (a refusal is an
outcome that may happen). Renaming the zone. Reading an interface or a lease file. A primary restored from a backup, which may reuse
version numbers. A DHCP packet received before a reconfiguration whose handler reaches the old allocator after it. DHCPINFORM and ignored probe
packets, which change no state. The inside of the recovery library, the arithmetic of the backup schedule and the retention of local copies. The
connections inside net/http that DoH uses. Metrics and query history are counters for display; sessions, passwords and single sign-on are hashing, cookies and an external
provider; the command line and the configuration file are parsing.

## Plan

Done so far: replication with its abstract specification, settings, forwarder with its pool, DHCP, policy, pairing, the registry with the query path, the background
loops, and backups. Next, in this order:

1. A zone rename in `Registry` (`PutSettingsRenamingZone`, `Registry.SetZone`, `Authoritative.SetZone`), which changes the settings row, the records and three holders in separate steps.
2. Capacity, TTL clamping and Retune of the answer cache.
3. A restored primary that reuses versions in `Replication`; the import's three transactions as one operation.
4. An abstract specification of a lease service refined by `DhcpServer`.
5. What parts of `PublishedAnswers` and `SplitHorizon` can be proved without induction: the matcher, and that a snapshot is built from the input it was recorded with.
