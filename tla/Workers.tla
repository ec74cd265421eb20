------------------------------ MODULE Workers ------------------------------
(***************************************************************************)
(* The background loops that settings retune while they run: the service   *)
(* health checker (health/checker.go) and the lease poller                 *)
(* (discovery/poller.go).  Both sleep on a timer and on a channel of       *)
(* capacity one; whoever stores a setting then sends on the channel, or    *)
(* drops the send when a token is already there.  A replica does not use   *)
(* its own verdicts but relays those of its primary (replica/puller.go).   *)
(*                                                                         *)
(* A service is what its check target asks for: nothing to probe, or a     *)
(* probe with some outcome.  A lease set is the hostnames with their       *)
(* addresses, and the rest of its leases (MACs, expiries).  Intervals are  *)
(* left out: a timer may fire at any time.                                 *)
(***************************************************************************)
EXTENDS Naturals, Sequences

CONSTANTS
    Callers,    \* goroutines that apply settings: a save, a pull, a promotion
    Ids,        \* service ids
    Sources,    \* lease sources: the lease file, the DHCP server
    File,       \* the one that can be unreadable
    LeaseSets,  \* the sets of leases a source may have
    None,       \* no source, no service, no status
    Focus       \* the sets of loops that may be running

Loops == {"health", "leases"}
Pollers == {"run", "change"}     \* Poller.Run, and the DHCP server's OnChange

Threshold == 2                   \* failuresToDown; successesToUp is 1

Kinds == {None, "unchecked", "checked"}
Outcomes == {"none", "ok", "failed"}
Entries == [state : {"unknown", "up", "down"}, failures : 0 .. Threshold, successes : 0 .. Threshold]

NoLeases == [names |-> {}, rest |-> {}]

ASSUME WorkersAssumption ==
    /\ NoLeases \in LeaseSets
    /\ None \notin Loops \cup Sources \cup Entries \cup {"checked", "unchecked"}
    /\ File \in Sources
    /\ Focus # {} /\ Focus \subseteq SUBSET Loops

VARIABLES
    loop,     \* [Loops -> "off", "start" of a cycle, "busy" in it, or "sleep"]
    token,    \* [Loops -> BOOLEAN]: the buffered channel holds a wake-up
    call,     \* [Callers -> the loop it has stored a setting for and not yet woken, or None]
    owes,     \* [Loops -> BOOLEAN], history: a setting was stored since the loop last woke
    service,  \* [Ids -> the registry's service: None, "unchecked" or "checked"]
    todo,     \* [Ids -> the service as the sweep under way listed it, or None once recorded]
    entries,  \* [Ids -> Checker.entries]
    seen,     \* [Ids -> history: the last two outcomes recorded since the entry's last reset]
    link,     \* the primary answers, and the replica accepts its answers
    health,   \* [Ids -> the state in the last health reply, or None]: Puller.health
    known,    \* Puller.healthKnown
    source,   \* Poller.src
    data,     \* [Sources -> its leases]
    poll,     \* [Pollers -> what a poll under way has read, in order]
    leases    \* Poller.leases

wake == <<loop, token, call, owes>>
checker == <<todo, entries, seen>>
relay == <<link, health, known>>
poller == <<source, data, poll, leases>>
vars == <<wake, service, checker, relay, poller>>

Nothing == [last |-> "none", before |-> "none"]

Init ==
    /\ \E on \in Focus : loop = [l \in Loops |-> IF l \in on THEN "start" ELSE "off"]
    \* NewChecker and NewPoller drain their channels.
    /\ token = [l \in Loops |-> FALSE]
    /\ call = [c \in Callers |-> None]
    /\ owes = [l \in Loops |-> FALSE]
    /\ service = [i \in Ids |-> None] /\ todo = service
    /\ entries = [i \in Ids |-> None] /\ seen = [i \in Ids |-> Nothing]
    /\ link = FALSE /\ health = entries /\ known = FALSE
    /\ source = None
    /\ data = [s \in Sources |-> NoLeases]
    /\ poll = [p \in Pollers |-> <<>>] /\ leases = NoLeases

----------------------------------------------------------------------------
(* The wake-up protocol. *)

\* Reconfigure, SetInterval, SetSource: the setting is stored under its lock ...
Store(c, l) ==
    /\ loop[l] # "off" /\ call[c] = None
    /\ call' = [call EXCEPT ![c] = l]
    /\ owes' = [owes EXCEPT ![l] = TRUE]
    /\ IF l = "leases" THEN source' \in Sources \cup {None} ELSE UNCHANGED source
    /\ UNCHANGED <<loop, token, service, checker, relay, data, poll, leases>>

\* Mutant: an unbuffered channel, on which a send is dropped unless Run is waiting.
SendUnbuffered(c) ==
    /\ call[c] # None
    /\ token' = [token EXCEPT ![call[c]] = @ \/ loop[call[c]] = "sleep"]
    /\ call' = [call EXCEPT ![c] = None]
    /\ UNCHANGED <<loop, owes, service, checker, relay, poller>>

\* ... and then the loop is woken, unless a wake-up is waiting for it already.
Send(c) ==
    /\ call[c] # None
    /\ token' = [token EXCEPT ![call[c]] = TRUE]
    /\ call' = [call EXCEPT ![c] = None]
    /\ UNCHANGED <<loop, owes, service, checker, relay, poller>>

\* Run's select: the timer, which may leave a token behind, or the token.
Wake(l) ==
    /\ loop[l] = "sleep"
    /\ loop' = [loop EXCEPT ![l] = "start"]
    /\ owes' = [owes EXCEPT ![l] = FALSE]
    /\ token' = token \/ (token[l] /\ token' = [token EXCEPT ![l] = FALSE])
    /\ UNCHANGED <<call, service, checker, relay, poller>>

Goto(l, where) == loop' = [loop EXCEPT ![l] = where]

----------------------------------------------------------------------------
(* CheckOnce. *)

\* A registry write creates, changes or deletes a service.
PutService(i, s) ==
    /\ loop["health"] # "off"
    /\ service' = [service EXCEPT ![i] = s]
    /\ UNCHANGED <<wake, checker, relay, poller>>

\* Mutant: the statuses of services that are gone are kept.
SweepKeepsGone ==
    /\ loop["health"] = "start"
    /\ todo' = service
    /\ Goto("health", "busy")
    /\ UNCHANGED <<token, call, owes, service, entries, seen, relay, poller>>

\* The services are listed, and statuses of services that are not there dropped.
Sweep ==
    /\ loop["health"] = "start"
    /\ todo' = service
    /\ entries' = [i \in Ids |-> IF service[i] = None THEN None ELSE entries[i]]
    /\ seen' = [i \in Ids |-> IF service[i] = None THEN Nothing ELSE seen[i]]
    /\ Goto("health", "busy")
    /\ UNCHANGED <<token, call, owes, service, relay, poller>>

SweepFails ==
    /\ loop["health"] = "start"
    /\ Goto("health", "sleep")
    /\ UNCHANGED <<token, call, owes, service, checker, relay, poller>>

Fresh == [state |-> "unknown", failures |-> 0, successes |-> 0]
Entry(i) == IF entries[i] = None THEN Fresh ELSE entries[i]
Capped(n) == IF n > Threshold THEN Threshold ELSE n

\* Mutant: a success does not clear the failures before it.
AfterKeepsFailures(e, ok) ==
    IF ok
    THEN [state |-> "up", failures |-> e.failures, successes |-> Capped(e.successes + 1)]
    ELSE [state     |-> IF e.failures + 1 >= Threshold THEN "down" ELSE e.state,
          failures  |-> Capped(e.failures + 1),
          successes |-> 0]

\* The hysteresis of record; the counters are compared with thresholds only.
After(e, ok) ==
    IF ok
    THEN [state |-> "up", failures |-> 0, successes |-> Capped(e.successes + 1)]
    ELSE [state     |-> IF e.failures + 1 >= Threshold THEN "down" ELSE e.state,
          failures  |-> Capped(e.failures + 1),
          successes |-> 0]

\* A worker records the outcome of a probe of the service as it was listed.
Record(i, ok) ==
    /\ todo[i] = "checked"
    /\ entries' = [entries EXCEPT ![i] = After(Entry(i), ok)]
    /\ seen' = [seen EXCEPT ![i] = [last |-> IF ok THEN "ok" ELSE "failed", before |-> @.last]]
    /\ todo' = [todo EXCEPT ![i] = None]
    /\ UNCHANGED <<wake, service, relay, poller>>

\* A service without a check target is unknown, whatever it was before.
RecordUnknown(i) ==
    /\ todo[i] = "unchecked"
    /\ entries' = [entries EXCEPT ![i] = Fresh]
    /\ seen' = [seen EXCEPT ![i] = Nothing]
    /\ todo' = [todo EXCEPT ![i] = None]
    /\ UNCHANGED <<wake, service, relay, poller>>

SweepEnds ==
    /\ loop["health"] = "busy" /\ \A i \in Ids : todo[i] = None
    /\ Goto("health", "sleep")
    /\ UNCHANGED <<token, call, owes, service, checker, relay, poller>>

----------------------------------------------------------------------------
(* The relay: a replica polls its primary's verdicts. *)

\* The primary, the network or the pin check changes its mind.
Link ==
    /\ loop["health"] # "off"
    /\ link' = ~link
    /\ UNCHANGED <<wake, service, checker, health, known, poller>>

\* HealthStatus on the primary: the translated state of every entry.
Verdict(i) == IF entries[i] = None THEN None ELSE entries[i].state

\* Mutant: a poll that fails leaves the last reply in force.
PullHealthKeeps ==
    /\ loop["health"] # "off"
    /\ IF link THEN health' = [i \in Ids |-> Verdict(i)] /\ known' = TRUE
               ELSE UNCHANGED <<health, known>>
    /\ UNCHANGED <<wake, service, checker, link, poller>>

\* The health half of Puller.poll: every error of the version request, of the checks on
\* its answer and of the health request itself ends in healthUnknown.
PullHealth ==
    /\ loop["health"] # "off"
    /\ IF link THEN health' = [i \in Ids |-> Verdict(i)] /\ known' = TRUE
               ELSE health' = health /\ known' = FALSE
    /\ UNCHANGED <<wake, service, checker, link, poller>>

\* replicaHealth: a service the replica heard no verdict for is unknown.
Shown(i) == IF known /\ health[i] # None THEN health[i] ELSE "unknown"

----------------------------------------------------------------------------
(* Poll. *)

\* A lease is granted, renewed, renamed or lost.
LeasesChange(s, set) ==
    /\ loop["leases"] # "off"
    /\ data' = [data EXCEPT ![s] = set]
    /\ UNCHANGED <<wake, service, checker, relay, source, poll, leases>>

PollSource(p) ==
    /\ poll[p] = <<>>
    /\ IF p = "run" THEN loop["leases"] = "start" /\ Goto("leases", "busy")
                    ELSE loop["leases"] # "off" /\ UNCHANGED loop
    /\ poll' = [poll EXCEPT ![p] = <<source>>]
    /\ UNCHANGED <<token, call, owes, service, checker, relay, source, data, leases>>

\* Without a source there are no leases.
LeasesOf(s) == IF s = None THEN NoLeases ELSE data[s]

PollLeases(p) ==
    /\ Len(poll[p]) = 1
    /\ poll' = [poll EXCEPT ![p] = Append(@, LeasesOf(@[1]))]
    /\ UNCHANGED <<wake, service, checker, relay, source, data, leases>>

PollEnds(p) ==
    /\ poll' = [poll EXCEPT ![p] = <<>>]
    /\ IF p = "run" THEN Goto("leases", "sleep") ELSE UNCHANGED loop
    /\ UNCHANGED <<token, call, owes, service, checker, relay, source, data>>

\* An unreadable lease file keeps the last leases.
PollFails(p) ==
    /\ poll[p] = <<File>>
    /\ UNCHANGED leases
    /\ PollEnds(p)

\* digest: the hostnames and the addresses only.
Digest(set) == set.names

\* Mutant: a cycle without a source publishes nothing.
PollPublishSourced(p) ==
    /\ Len(poll[p]) = 2
    /\ leases' = IF poll[p][1] # None /\ Digest(poll[p][2]) # Digest(leases) THEN poll[p][2] ELSE leases
    /\ PollEnds(p)

\* What was read is published if its digest is another than the published one's; the
\* empty set retires the names of the old source.
PollPublish(p) ==
    /\ Len(poll[p]) = 2
    /\ leases' = IF Digest(poll[p][2]) # Digest(leases) THEN poll[p][2] ELSE leases
    /\ PollEnds(p)

----------------------------------------------------------------------------
SweepStep ==
    \/ Sweep \/ SweepFails \/ SweepEnds
    \/ \E i \in Ids : RecordUnknown(i) \/ \E ok \in BOOLEAN : Record(i, ok)

PollStep(p) == PollSource(p) \/ PollLeases(p) \/ PollFails(p) \/ PollPublish(p)

Next ==
    \/ \E c \in Callers : Send(c) \/ \E l \in Loops : Store(c, l)
    \/ \E l \in Loops : Wake(l)
    \/ \E i \in Ids, s \in Kinds : PutService(i, s)
    \/ SweepStep \/ Link \/ PullHealth
    \/ \E s \in Sources, set \in LeaseSets : LeasesChange(s, set)
    \/ \E p \in Pollers : PollStep(p)

\* Timers fire and goroutines are scheduled; the database and the lease file are not
\* unreadable for ever.  Nothing makes a lease change, so no "change" poll has to begin.
Fairness ==
    /\ \A l \in Loops : WF_vars(Wake(l))
    /\ WF_vars(SweepStep) /\ SF_vars(Sweep)
    /\ WF_vars(PullHealth)
    /\ WF_vars(PollStep("run")) /\ SF_vars(PollLeases("run"))
    /\ WF_vars(poll["change"] # <<>> /\ PollStep("change"))

Spec == Init /\ [][Next]_vars

FairSpec == Spec /\ Fairness

----------------------------------------------------------------------------
(* Properties. *)

TypeOK ==
    /\ loop \in [Loops -> {"off", "start", "busy", "sleep"}]
    /\ token \in [Loops -> BOOLEAN]
    /\ call \in [Callers -> Loops \cup {None}]
    /\ owes \in [Loops -> BOOLEAN]
    /\ service \in [Ids -> Kinds] /\ todo \in [Ids -> Kinds]
    /\ entries \in [Ids -> Entries \cup {None}]
    /\ seen \in [Ids -> [last : Outcomes, before : Outcomes]]

\* "A change takes effect immediately": a loop that sleeps on a timer of the old interval
\* although a setting was stored since it woke has a wake-up waiting for it, or the one
\* who stored the setting is about to send one.  It is why the token is sent after the
\* store, and why the channel holds one.
NoLostWake ==
    \A l \in Loops : (loop[l] = "sleep" /\ owes[l]) => (token[l] \/ \E c \in Callers : call[c] = l)

\* "slow to alarm, fast to recover": a status is down only after two failures in a row
\* and stays so until a success, however sweeps, retargeted, deleted and recreated
\* services interleave.
VerdictEarned ==
    \A i \in Ids : entries[i] # None =>
        entries[i].state = CASE seen[i].last = "ok"                            -> "up"
                             [] seen[i] = [last |-> "failed", before |-> "ok"]     -> "up"
                             [] seen[i] = [last |-> "failed", before |-> "failed"] -> "down"
                             [] OTHER                                              -> "unknown"

\* What makes NoLostWake and VerdictEarned inductive: a stored setting has a wake-up
\* coming wherever the loop is, and the failure counter is what the last two outcomes say.
WakeComing == \A l \in Loops : owes[l] => (token[l] \/ \E c \in Callers : call[c] = l)

CounterOf(o) ==
    IF o.last # "failed" THEN 0 ELSE IF o.before = "failed" THEN 2 ELSE 1

CountersAgree ==
    \A i \in Ids :
        /\ entries[i] = None => seen[i] = Nothing
        /\ entries[i] # None => entries[i].failures = CounterOf(seen[i])
        /\ seen[i].last = "none" => seen[i].before = "none"

IndInv == TypeOK /\ WakeComing /\ CountersAgree /\ VerdictEarned

\* Once the registry is left alone the statuses are those of its services: a sweep that
\* was probing a deleted service cannot bring its status back for good, and a service
\* that lost its check target does not keep an old verdict.
StatusesFollow ==
    <>[][UNCHANGED service]_vars =>
        <>[](\A i \in Ids :
                /\ entries[i] = None <=> service[i] = None
                /\ service[i] = "unchecked" => entries[i] = Fresh)

\* "stale-but-green health is worse than no answer at all": a replica whose primary stays
\* away shows unknown for every service, and one whose primary stays shows its verdicts
\* once they settle.
RelayFollows ==
    /\ <>[]~link => <>[](\A i \in Ids : Shown(i) = "unknown")
    /\ (<>[]link /\ <>[][UNCHANGED entries]_vars) =>
          <>[](\A i \in Ids : Shown(i) = IF entries[i] = None THEN "unknown" ELSE entries[i].state)

\* Once sources stop being swapped and leases stop changing, the published names and
\* addresses are the configured source's, although a poll of the timer and one of a DHCP
\* change overlap and publish in either order; a source that was removed leaves none behind.
LeasesFollow ==
    <>[][UNCHANGED <<source, data>>]_vars => <>[](Digest(leases) = Digest(LeasesOf(source)))

\* A status is that of the service it is shown for.  Does not hold: an id that is reused
\* before the next sweep inherits the counters of the service that had it.
NoInheritedVerdict ==
    [][\A i \in Ids : (service[i] = None /\ service'[i] # None) => entries[i] = None]_vars
=============================================================================
