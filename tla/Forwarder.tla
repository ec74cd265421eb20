----------------------------- MODULE Forwarder -----------------------------
(***************************************************************************)
(* dnsserver.Forwarder with its cache: queries that miss the cache collapse *)
(* into one flight, acquire the current upstream list and try it in order; *)
(* a settings change swaps the list (Replace), flushes the cache when the  *)
(* specs changed, and a goroutine per retired list waits for the list's    *)
(* queries and closes its upstreams.  An upstream over TLS keeps a pool of  *)
(* idle connections (upstream/pool.go), which the exchange takes from and  *)
(* gives back to.                                                          *)
(*                                                                         *)
(* An upstream is an instance of a spec, written <<spec, n>>.  Settings    *)
(* builds new instances of the same specs on every save, but an instance   *)
(* comes back when the snapshot that holds it is applied again.  An answer *)
(* is abstracted to the spec of the upstream that gave it.                 *)
(***************************************************************************)
EXTENDS Integers, Sequences, Functions

CONSTANTS
    Queries,        \* goroutines in ServeDNS
    MayAsk,         \* [Queries -> the questions each may ask]
    Lists,          \* upstream lists a settings change may install
    FirstList,      \* the list serve starts with
    Pooled,         \* the specs of a transport with a pool of connections (DoT)
    PoolSize,       \* dotIdleConns, the capacity of pool.idle
    NoAnswer,       \* an empty cache slot, a free flight
    MaxReplaces     \* bound: calls of Replace

SpecOf(u) == u[1]
Specs(s) == [i \in DOMAIN s |-> SpecOf(s[i])]
Upstreams == UNION {Range(l) : l \in Lists \cup {FirstList}}
Answers == {SpecOf(u) : u \in Upstreams} \cup {NoAnswer}
Keys == UNION {MayAsk[q] : q \in Queries}
Gens == 1 .. MaxReplaces + 1

ListsOK ==
    /\ FirstList # <<>> /\ <<>> \notin Lists
    /\ MaxReplaces \in Nat /\ PoolSize \in Nat \ {0}
ASSUME ListsAssumption == ListsOK

VARIABLES
    installed,  \* every fwdState installed so far; the last one is current
    users,      \* [Gens -> queries counted in that fwdState's WaitGroup]
    retire,     \* [Gens -> where its retirement goroutine is]
    looked,     \* (history) [Gens -> the fwdState current when the goroutine looked]
    keep,       \* [Gens -> the upstreams it found there]
    closed,     \* upstreams whose Close was called
    idle,       \* [Upstreams -> connections in pool.idle]
    apply,      \* liveComponents.Apply: "idle", or between Replace and the flush
    cache,      \* [Keys -> the cached answer]
    leader,     \* [Keys -> the query running the flight]
    pc,         \* [Queries -> where the query is]
    asks,       \* [Queries -> its question, or NoAnswer when it is idle]
    held,       \* [Queries -> the fwdState it acquired]
    at,         \* [Queries -> index of the upstream it tries]
    answer      \* [Queries -> what its exchange returned]

queryVars == <<users, cache, leader, pc, asks, held, at, answer>>
retireVars == <<retire, looked, keep, closed>>
forwarderVars == <<installed, retireVars, idle, apply, queryVars>>

Current == Len(installed)

ForwarderInit ==
    /\ installed = <<FirstList>>
    /\ users = [g \in Gens |-> {}]
    /\ retire = [g \in Gens |-> "live"]
    /\ looked = [g \in Gens |-> g]
    /\ keep = [g \in Gens |-> {}]
    /\ closed = {}
    /\ idle = [u \in Upstreams |-> 0]
    /\ apply = "idle"
    /\ cache = [k \in Keys |-> NoAnswer]
    /\ leader = [k \in Keys |-> NoAnswer]
    /\ pc = [q \in Queries |-> "idle"]
    /\ asks = [q \in Queries |-> NoAnswer]
    /\ held = [q \in Queries |-> 1] /\ at = [q \in Queries |-> 1]
    /\ answer = [q \in Queries |-> NoAnswer]

----------------------------------------------------------------------------
(* Resolve *)

To(q, where) == pc' = [pc EXCEPT ![q] = where]

\* A cache hit answers at once; a miss goes on to the flight.
Miss(q, k) ==
    /\ pc[q] = "idle" /\ cache[k] = NoAnswer
    /\ asks' = [asks EXCEPT ![q] = k]
    /\ To(q, "flight")
    /\ UNCHANGED <<installed, retireVars, idle, apply, users, cache, leader, held, at, answer>>

\* group.Do: the first query runs the flight, the others wait for its result.
Flight(q) ==
    /\ pc[q] = "flight"
    /\ \/ /\ leader[asks[q]] = NoAnswer
          /\ leader' = [leader EXCEPT ![asks[q]] = q]
          /\ To(q, "recheck")
       \/ /\ leader[asks[q]] # NoAnswer
          /\ leader' = leader
          /\ To(q, "waiting")
    /\ UNCHANGED <<installed, retireVars, idle, apply, users, cache, asks, held, at, answer>>

\* The flight ends: its result goes to the leader and to everyone waiting.
Land(q) ==
    LET back == {p \in Queries : p = q \/ (pc[p] = "waiting" /\ asks[p] = asks[q])}
    IN  /\ leader' = [leader EXCEPT ![asks[q]] = NoAnswer]
        /\ pc' = [p \in Queries |-> IF p \in back THEN "idle" ELSE pc[p]]
        /\ asks' = [p \in Queries |-> IF p \in back THEN NoAnswer ELSE asks[p]]
        /\ held' = [held EXCEPT ![q] = 1]
        /\ at' = [at EXCEPT ![q] = 1]
        /\ answer' = [answer EXCEPT ![q] = NoAnswer]

\* The second Get inside the flight hits.
RecheckHit(q) ==
    /\ pc[q] = "recheck" /\ cache[asks[q]] # NoAnswer
    /\ Land(q)
    /\ UNCHANGED <<installed, retireVars, idle, apply, users, cache>>

\* acquireState: load and count under one read lock.
Acquire(q) ==
    /\ pc[q] = "recheck" /\ cache[asks[q]] = NoAnswer
    /\ held' = [held EXCEPT ![q] = Current]
    /\ users' = [users EXCEPT ![Current] = @ \cup {q}]
    /\ at' = [at EXCEPT ![q] = 1]
    /\ To(q, "exchange")
    /\ UNCHANGED <<installed, retireVars, idle, apply, cache, leader, asks, answer>>

Release(q) == users' = [users EXCEPT ![held[q]] = @ \ {q}]

Tried(q) == installed[held[q]][at[q]]
IsPooled(u) == SpecOf(u) \in Pooled

\* exchange returns an answer and its deferred done runs.
Answered(q) ==
    /\ answer' = [answer EXCEPT ![q] = SpecOf(Tried(q))]
    /\ Release(q)
    /\ To(q, "put")
    /\ UNCHANGED <<cache, leader, asks, held, at>>

\* The upstream failed or returned SERVFAIL, and there is another to try.
TryNext(q) ==
    /\ at[q] < Len(installed[held[q]])
    /\ at' = [at EXCEPT ![q] = @ + 1]
    /\ To(q, "exchange")
    /\ UNCHANGED <<users, cache, leader, asks, held, answer>>

\* Mutant: the list is tried again from its start for as long as it fails.
GiveUpRetries(q) ==
    /\ at[q] = Len(installed[held[q]])
    /\ at' = [at EXCEPT ![q] = 1]
    /\ To(q, "exchange")
    /\ UNCHANGED <<users, cache, leader, asks, held, answer>>

\* Every upstream failed: the flight returns the error.
GiveUpQuery(q) ==
    /\ at[q] = Len(installed[held[q]])
    /\ Release(q)
    /\ Land(q)
    /\ UNCHANGED cache

Failed(q) == TryNext(q) \/ GiveUpQuery(q)

\* A transport without a pool dials for every exchange, closed or not.
ExchangeOK(q) ==
    /\ pc[q] = "exchange" /\ ~IsPooled(Tried(q))
    /\ Answered(q)
    /\ UNCHANGED <<installed, retireVars, idle, apply>>

\* It fails; or, pooled or not, the deadline has passed before the exchange begins.
ExchangeFails(q) ==
    /\ pc[q] = "exchange"
    /\ Failed(q)
    /\ UNCHANGED <<installed, retireVars, idle, apply>>

----------------------------------------------------------------------------
(* dot.Exchange and its pool *)

Getting(q) == pc[q] \in {"exchange", "get"} /\ IsPooled(Tried(q))
Take(u) == idle[u] > 0 /\ idle' = [idle EXCEPT ![u] = @ - 1]

\* pool.get hands out an idle connection, or closes one past its ttl and goes on.
GetIdle(q) ==
    /\ Getting(q)
    /\ Take(Tried(q))
    /\ To(q, "reused") \/ To(q, "get")
    /\ UNCHANGED <<installed, retireVars, apply, users, cache, leader, asks, held, at, answer>>

\* With none idle it dials, unless the pool is closed.
Dial(q) ==
    /\ Getting(q)
    /\ idle[Tried(q)] = 0 /\ Tried(q) \notin closed
    /\ To(q, "fresh")
    /\ UNCHANGED <<installed, retireVars, idle, apply, users, cache, leader, asks, held, at, answer>>

\* The pool is closed, or the dial fails.
GetFails(q) ==
    /\ Getting(q)
    /\ idle[Tried(q)] = 0
    /\ Failed(q)
    /\ UNCHANGED <<installed, retireVars, idle, apply>>

\* A round trip that fails closes the connection.  A fresh one that fails is a failure
\* of the upstream, a reused one may just have died while idle and is tried again.
RoundTripFails(q) ==
    /\ \/ pc[q] = "reused" /\ To(q, "get") /\ UNCHANGED <<users, cache, leader, asks, held, at, answer>>
       \/ pc[q] = "fresh" /\ Failed(q)
    /\ UNCHANGED <<installed, retireVars, idle, apply>>

\* One that succeeds gives the connection back: pool.put closes it when the pool is
\* closed ...
RoundTripOK(q) ==
    /\ pc[q] \in {"reused", "fresh"}
    /\ IF Tried(q) \in closed
       THEN Answered(q) \/ Failed(q)
       ELSE To(q, "enqueue") /\ UNCHANGED <<users, cache, leader, asks, held, at, answer>>
    /\ UNCHANGED <<installed, retireVars, idle, apply>>

\* ... and otherwise makes it idle, or closes it when the idle list is full.  The answer
\* may still be SERVFAIL.
Enqueue(q) ==
    /\ pc[q] = "enqueue"
    /\ idle' = [idle EXCEPT ![Tried(q)] = IF @ < PoolSize THEN @ + 1 ELSE @]
    /\ Answered(q) \/ Failed(q)
    /\ UNCHANGED <<installed, retireVars, apply>>

\* The deadline of the attempt passes while it is retrying.  Exchange does not look at
\* its context again: every connection it takes from now on fails at once, ...
RunsOut(q) ==
    /\ pc[q] \in {"get", "reused"}
    /\ To(q, "late")
    /\ UNCHANGED <<installed, retireVars, idle, apply, users, cache, leader, asks, held, at, answer>>

\* ... is closed, and the next one is taken; ...
TakeLate(q) ==
    /\ pc[q] = "late"
    /\ Take(Tried(q))
    /\ UNCHANGED <<installed, retireVars, apply, queryVars>>

\* ... with none idle the pool is closed, or the dial fails.
FailLate(q) ==
    /\ pc[q] = "late" /\ idle[Tried(q)] = 0
    /\ Failed(q)
    /\ UNCHANGED <<installed, retireVars, idle, apply>>

----------------------------------------------------------------------------
\* cache.Put, or not when the answer's TTL is zero; then the flight returns.
Put(q) ==
    /\ pc[q] = "put"
    /\ cache' \in {cache, [cache EXCEPT ![asks[q]] = answer[q]]}
    /\ Land(q)
    /\ UNCHANGED <<installed, retireVars, idle, apply, users>>

\* An entry's TTL runs out, or it is evicted.
Expire(k) ==
    /\ cache[k] # NoAnswer
    /\ cache' = [cache EXCEPT ![k] = NoAnswer]
    /\ UNCHANGED <<installed, retireVars, idle, apply, users, leader, asks, pc, held, at, answer>>

----------------------------------------------------------------------------
(* Replace and retirement *)

\* Replace swaps the list and starts the retirement of the one before.
Replace(l) ==
    /\ apply = "idle" /\ Current <= MaxReplaces
    /\ installed' = Append(installed, l)
    /\ retire' = [retire EXCEPT ![Current] = "waiting"]
    /\ apply' = "flush"
    /\ UNCHANGED <<looked, keep, closed, idle, queryVars>>

\* flushOnUpstreamChange: only when the spec lists differ.
Flush ==
    /\ apply = "flush"
    /\ cache' = IF Specs(installed[Current]) = Specs(installed[Current - 1])
                THEN cache ELSE [k \in Keys |-> NoAnswer]
    /\ apply' = "idle"
    /\ UNCHANGED <<installed, retireVars, idle, users, leader, asks, pc, held, at, answer>>

\* Mutant: the retirement does not wait for its queries.
DrainNoWait(g) ==
    /\ retire[g] = "waiting"
    /\ looked' = [looked EXCEPT ![g] = Current]
    /\ keep' = [keep EXCEPT ![g] = Range(installed[Current])]
    /\ retire' = [retire EXCEPT ![g] = "closing"]
    /\ UNCHANGED <<installed, closed, idle, apply, queryVars>>

\* Mutant: the retirement keeps the list that replaced its own, whatever came since.
DrainCaptured(g) ==
    /\ retire[g] = "waiting" /\ users[g] = {}
    /\ looked' = [looked EXCEPT ![g] = Current]
    /\ keep' = [keep EXCEPT ![g] = Range(installed[g + 1])]
    /\ retire' = [retire EXCEPT ![g] = "closing"]
    /\ UNCHANGED <<installed, closed, idle, apply, queryVars>>

\* wg.Wait returned; the goroutine looks at the list that is current now.
Drain(g) ==
    /\ retire[g] = "waiting" /\ users[g] = {}
    /\ looked' = [looked EXCEPT ![g] = Current]
    /\ keep' = [keep EXCEPT ![g] = Range(installed[Current])]
    /\ retire' = [retire EXCEPT ![g] = "closing"]
    /\ UNCHANGED <<installed, closed, idle, apply, queryVars>>

Retired(g) == Range(installed[g]) \ keep[g]

\* fwdState.close: pool.Close stops the pools ...
Close(g) ==
    /\ retire[g] = "closing"
    /\ closed' = closed \cup Retired(g)
    /\ retire' = [retire EXCEPT ![g] = "emptying"]
    /\ UNCHANGED <<installed, looked, keep, idle, apply, queryVars>>

\* ... and then closes their idle connections.
Empty(g) ==
    /\ retire[g] = "emptying"
    /\ idle' = [u \in Upstreams |-> IF u \in Retired(g) THEN 0 ELSE idle[u]]
    /\ retire' = [retire EXCEPT ![g] = "done"]
    /\ UNCHANGED <<installed, looked, keep, closed, apply, queryVars>>

----------------------------------------------------------------------------
Resolve(q) ==
    \/ Flight(q) \/ RecheckHit(q) \/ Acquire(q)
    \/ ExchangeOK(q) \/ ExchangeFails(q) \/ Put(q)
    \/ GetIdle(q) \/ Dial(q) \/ GetFails(q)
    \/ RoundTripFails(q) \/ RoundTripOK(q) \/ Enqueue(q)
    \/ RunsOut(q) \/ TakeLate(q) \/ FailLate(q)

Retirement == \E g \in Gens : Drain(g) \/ Close(g) \/ Empty(g)

ForwarderNext ==
    \/ \E l \in Lists : Replace(l)
    \/ \E q \in Queries : Resolve(q) \/ \E k \in MayAsk[q] : Miss(q, k)
    \/ \E k \in Keys : Expire(k)
    \/ Flush \/ Retirement

\* A query that started runs on, the deadline of an attempt passes, and goroutines and
\* the apply that are ready are run.  A query past its deadline takes no network time to
\* empty the pool, so it is not for ever that another gives a connection back just then.
Fairness ==
    /\ \A q \in Queries : /\ WF_forwarderVars(Resolve(q)) /\ WF_forwarderVars(RunsOut(q))
                         /\ SF_forwarderVars(FailLate(q))
    /\ WF_forwarderVars(Retirement) /\ WF_forwarderVars(Flush)

\* Any list may be installed, one with an instance that was retired before included.
ForwarderSpec == ForwarderInit /\ [][ForwarderNext]_forwarderVars /\ Fairness

----------------------------------------------------------------------------
(* Properties *)

\* The lists that are needed: the current one, and those queries are exchanging with.
Exchanging == {"exchange", "get", "reused", "fresh", "enqueue", "late"}
Needed == {Current} \cup {held[q] : q \in {p \in Queries : pc[p] \in Exchanging}}

\* The retirement of g closed u.
ClosedBy(g, u) == retire[g] \in {"emptying", "done"} /\ u \in Retired(g)

\* A retirement closes nothing under the queries of its own list and nothing of the list
\* that is current when it looks, instances that came back meanwhile included: a closed
\* upstream of a list that is needed was closed by the retirement of another list, and one
\* that looked when that list was not current (Forwarder.Replace, its retirement
\* goroutines, Forwarder.exchange).
RetirementSpares ==
    \A h \in Needed : \A u \in closed \cap Range(installed[h]) :
        \E g \in Gens : ClosedBy(g, u) /\ g # h /\ looked[g] # h

\* What makes it inductive: a query that is exchanging is counted in the list it acquired,
\* a list is closed only after it was replaced and nobody is counted in it any more, and
\* the retirement keeps what it found when it looked.
Stages == Exchanging \cup {"idle", "flight", "waiting", "recheck", "put"}
Controls ==
    /\ installed \in Seq(Lists \cup {FirstList}) /\ Current \in Gens
    /\ users \in [Gens -> SUBSET Queries]
    /\ retire \in [Gens -> {"live", "waiting", "closing", "emptying", "done"}]
    /\ looked \in [Gens -> Gens] /\ keep \in [Gens -> SUBSET Upstreams]
    /\ pc \in [Queries -> Stages]
    /\ held \in [Queries -> Gens]

UsersCounted ==
    \A q \in Queries : pc[q] \in Exchanging => held[q] <= Current /\ q \in users[held[q]]

RetiredUnused ==
    \A g \in Gens :
        /\ retire[g] # "live" => g < Current
        /\ retire[g] \in {"closing", "emptying", "done"} =>
             users[g] = {} /\ looked[g] <= Current /\ keep[g] = Range(installed[looked[g]])

ClosedRetired == \A u \in closed : \E g \in Gens : ClosedBy(g, u)

RetireInv == Controls /\ UsersCounted /\ RetiredUnused /\ ClosedRetired

\* Every query that got past the cache returns: nobody waits for a flight that
\* will not land.
QueriesReturn == \A q \in Queries : pc[q] # "idle" ~> pc[q] = "idle"

\* Nothing leaks: an upstream that was installed is, again and again, either current or
\* closed with no connection left in its pool, although queries of the old list give
\* connections back after it was replaced (pool.put, pool.Close, Forwarder.Replace).
RetiredAreClosed ==
    \A u \in Upstreams :
        []<>(\/ u \in Range(installed[Current])
             \/ u \in closed /\ idle[u] = 0
             \/ \A g \in 1 .. Current : u \notin Range(installed[g]))

----------------------------------------------------------------------------
(* What the comments promise and the code does not keep *)

\* "An upstream instance that is still live when its retirement actually runs ... is never
\* closed", and "the retired upstreams are closed only after every one of [the queries in
\* flight] has finished" (dnsserver/forward.go): nothing that is needed is closed.  An
\* instance can come back between the look and the close, and a later list that shares an
\* instance can be retired while a query of the earlier one runs.
ClosedUnneeded == \A h \in Needed : closed \cap Range(installed[h]) = {}

\* No two lists share an instance: then the promise is kept.
ListsDisjoint ==
    \A g, h \in 1 .. Current : g # h => Range(installed[g]) \cap Range(installed[h]) = {}

\* "answers minted by a resolver the operator has just walked away from must not
\* keep being served" (app/serve.go)
FlushSticks ==
    apply = "idle" =>
        \A k \in Keys : cache[k] \in Range(Specs(installed[Current])) \cup {NoAnswer}
=============================================================================
