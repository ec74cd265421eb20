----------------------------- MODULE DhcpRunner -----------------------------
(***************************************************************************)
(* The life of the DHCP listener (app/dhcp.go) and the choice of the lease *)
(* source that feeds names to the zone.  A settings apply, a promotion and *)
(* every registry write reach the runner from their own goroutines; its    *)
(* mutex is not held across database reads.  Workers has the poller that   *)
(* reads the source.                                                       *)
(*                                                                         *)
(* Settings are [on, cfg, file]: DHCP enabled on some interface, every     *)
(* field a listener is built from, a lease file configured.  A listener is *)
(* a number; it owns one allocator.  The service list, and the             *)
(* reservations derived from it, are the number of writes it holds.        *)
(***************************************************************************)
EXTENDS Naturals, FiniteSets

CONSTANTS
    Writers,     \* goroutines of registry writes
    Configs,     \* listener configurations
    Saved,       \* the settings that are saved
    None,
    File,        \* the lease file as a source
    Failed,      \* a database read that failed
    MaxSaves,    \* bound: settings saves
    MaxWrites    \* bound: registry writes

Settings == [on : BOOLEAN, cfg : Configs, file : BOOLEAN]
Callers == {"apply", "promote"}          \* the goroutines that call Reconcile
Threads == Callers \cup Writers
Listeners == 1 .. MaxSaves + 2
Errors == {"replica", "refused"}

ASSUME RunnerAssumption ==
    /\ {MaxSaves, MaxWrites} \subseteq Nat
    /\ Configs # {} /\ Saved \subseteq Settings
    /\ None \notin Configs \cup Threads \cup Errors \cup Nat \cup {File, Failed}
    /\ File \notin Nat
    /\ Writers \cap Callers = {}

VARIABLES
    role,      \* RoleHolder.Current
    held,      \* settingsHolder.Current
    services,  \* the number of registry writes
    mu,        \* dhcpRunner.mu, held by a thread between stopping and binding
    running,   \* the listener that is bound, or None
    built,     \* the configuration it was built from
    reserved,  \* the service list its allocator is armed with, or None
    current, lastError, gen,
    watch,     \* the listener whose foreign-server watch is live, or None
    probing,   \* listeners whose watch has a probe on the wire
    foreign,   \* None, or the listener whose watch found another server
    thread,    \* [Threads -> where each is, with its locals]
    source,    \* Poller.src: a listener, File or None
    saves,     \* settings saves so far
    started,   \* listeners bound so far
    missed     \* history: the newest refresh could not read the services

listener == <<running, built, reserved, watch, foreign>>
status == <<current, lastError>>
env == <<role, held, services, saves>>
vars == <<env, mu, listener, status, gen, probing, thread, source, started, missed>>

Off == [on |-> FALSE, cfg |-> CHOOSE c \in Configs : TRUE, file |-> FALSE]
AtRest == [at |-> "idle", v |-> Off, role |-> "primary", list |-> None, gen |-> 0, alloc |-> None]

\* Mutant: a replica serves like any other node.
DhcpWantedAnywhere(v, r) == v.on

DhcpWanted(v, r) == v.on /\ r # "replica"

RoleRefusal(v, r) == IF v.on /\ r = "replica" THEN "replica" ELSE None

\* Serve reconciles once before any request is answered, with the lease file as the
\* source it starts from: the listener is bound, or the start was refused.
Init ==
    /\ role \in {"replica", "primary"}
    /\ held \in Saved /\ current = held
    /\ running \in IF DhcpWanted(held, role) THEN {1, None} ELSE {None}
    /\ started = IF running = None THEN 0 ELSE 1
    /\ built = IF running = None THEN None ELSE held.cfg
    /\ reserved = IF running = None THEN None ELSE 0
    /\ lastError = IF DhcpWanted(held, role) /\ running = None THEN "refused"
                                                            ELSE RoleRefusal(held, role)
    /\ services = 0 /\ saves = 0 /\ gen = 1 /\ mu = None
    /\ watch = running /\ probing = {} /\ foreign = None
    /\ thread = [t \in Threads |-> AtRest]
    /\ source = IF running # None THEN running ELSE IF held.file THEN File ELSE None
    /\ missed = FALSE

----------------------------------------------------------------------------
(* Reconcile. *)

\* The role, and the services if they will be needed, are read before the lock.
ReconcileRead(t) ==
    /\ thread[t].at = "start"
    /\ \E list \in {services, Failed} :
          thread' = [thread EXCEPT ![t].at = "lock", ![t].role = role,
                        ![t].list = IF DhcpWanted(thread[t].v, role) THEN list ELSE None]
    /\ UNCHANGED <<env, mu, listener, status, gen, probing, source, started, missed>>

\* Mutant: the source is left for the next apply to replace.
StopLockedKeepsSource ==
    /\ watch' = None /\ foreign' = None /\ reserved' = None /\ running' = None /\ built' = None
    /\ source' = source

\* stopLocked: the watch, its banner and the reservations go with the listener.
StopLocked ==
    /\ watch' = None /\ foreign' = None /\ reserved' = None /\ running' = None /\ built' = None
    /\ source' = IF running = None THEN source ELSE None

\* Locals that are not read again are dropped.
Goto(t, where) ==
    thread' = [thread EXCEPT ![t] =
                  [AtRest EXCEPT !.at = where, !.v = IF t = "apply" THEN thread[t].v ELSE Off]]

\* Mutant: the refused settings are recorded as current although the old listener is up.
FailRecords(t, up) ==
    /\ lastError' = "refused"
    /\ current' = thread[t].v

\* fail: current keeps describing a listener that is still up.
Fail(t, up) ==
    /\ lastError' = "refused"
    /\ current' = IF up THEN current ELSE thread[t].v

\* build is tried only with a service list to arm the allocator with.
MayBuild(t) == thread[t].list # Failed

Reconcile(t) ==
    LET v == thread[t].v
    IN  /\ thread[t].at = "lock" /\ mu = None
        /\ \/ /\ ~DhcpWanted(v, thread[t].role)
              /\ StopLocked
              /\ current' = v /\ lastError' = RoleRefusal(v, thread[t].role)
              /\ Goto(t, "refresh")
              /\ UNCHANGED mu
           \/ \* the listener already runs exactly this
              /\ DhcpWanted(v, thread[t].role) /\ running # None /\ current.cfg = v.cfg
              /\ lastError' = None
              /\ Goto(t, "refresh")
              /\ UNCHANGED <<mu, listener, current, source>>
           \/ \* the services could not be read, or the build refuses (interface, range,
              \* a setting that does not parse, another DHCP server on the segment)
              /\ DhcpWanted(v, thread[t].role) /\ ~(running # None /\ current.cfg = v.cfg)
              /\ Fail(t, running # None)
              /\ Goto(t, "refresh")
              /\ UNCHANGED <<mu, listener, source>>
           \/ \* built: the old listener goes down before the new one binds
              /\ DhcpWanted(v, thread[t].role) /\ ~(running # None /\ current.cfg = v.cfg)
              /\ MayBuild(t)
              /\ StopLocked
              /\ mu' = t
              /\ thread' = [thread EXCEPT ![t].at = "bind"]
              /\ UNCHANGED status
    /\ UNCHANGED <<env, gen, probing, started, missed>>

BindFails(t) ==
    /\ thread[t].at = "bind"
    /\ mu' = None
    /\ Fail(t, FALSE)
    /\ Goto(t, "refresh")
    /\ UNCHANGED <<env, listener, gen, probing, source, started, missed>>

\* The allocator was armed with the services read at the start before the socket opened.
Bind(t) ==
    /\ thread[t].at = "bind"
    /\ started' = started + 1
    /\ running' = started' /\ built' = thread[t].v.cfg /\ reserved' = thread[t].list
    /\ watch' = started' /\ foreign' = foreign
    /\ current' = thread[t].v /\ lastError' = None
    /\ source' = started'
    /\ mu' = None
    /\ Goto(t, "refresh")
    /\ UNCHANGED <<env, gen, probing, missed>>

----------------------------------------------------------------------------
(* RefreshReservations: lock, read the services unlocked, lock and publish. *)

\* Apply asks for the status next; everyone else is done.
Finish(t) == IF t = "apply" THEN Goto(t, "status") ELSE thread' = [thread EXCEPT ![t] = AtRest]

RefreshBegin(t) ==
    /\ thread[t].at = "refresh" /\ mu = None
    /\ gen' = gen + 1
    /\ IF running = None
       THEN Finish(t)
       ELSE thread' = [thread EXCEPT ![t].at = "read", ![t].gen = gen', ![t].alloc = running]
    /\ UNCHANGED <<env, mu, listener, status, probing, source, started, missed>>

RefreshRead(t) ==
    /\ thread[t].at = "read"
    /\ \/ /\ thread' = [thread EXCEPT ![t].at = "publish", ![t].list = services]
          /\ UNCHANGED missed
       \/ /\ Finish(t) /\ missed' = TRUE
    /\ UNCHANGED <<env, mu, listener, status, gen, probing, source, started>>

\* Mutant: a refresh that was overtaken publishes all the same.
OvertakenNever(t) == running # thread[t].alloc

\* The listener went down while the services were read, or a later refresh overtook this one.
Overtaken(t) == running # thread[t].alloc \/ gen # thread[t].gen

RefreshPublish(t) ==
    /\ thread[t].at = "publish" /\ mu = None
    /\ reserved' = IF Overtaken(t) THEN reserved ELSE thread[t].list
    /\ missed' = (missed /\ Overtaken(t))
    /\ Finish(t)
    /\ UNCHANGED <<env, mu, running, built, watch, foreign, status, gen, probing, source, started>>

----------------------------------------------------------------------------
(* liveComponents.Apply around Reconcile: the source falls back to the lease *)
(* file when nothing is running.  The status is read in one lock section,   *)
(* the source set after it.                                                 *)

ApplyStatus ==
    /\ thread["apply"].at = "status" /\ mu = None
    /\ IF running = None THEN Goto("apply", "source") ELSE thread' = [thread EXCEPT !["apply"] = AtRest]
    /\ UNCHANGED <<env, mu, listener, status, gen, probing, source, started, missed>>

ApplySource ==
    /\ thread["apply"].at = "source"
    /\ source' = IF thread["apply"].v.file THEN File ELSE None
    /\ thread' = [thread EXCEPT !["apply"] = AtRest]
    /\ UNCHANGED <<env, mu, listener, status, gen, probing, started, missed>>

\* A settings save, or a pull on a replica, publishes its snapshot and applies it.
Save(v) ==
    /\ thread["apply"].at = "idle" /\ saves < MaxSaves
    /\ saves' = saves + 1 /\ held' = v
    /\ thread' = [thread EXCEPT !["apply"] = [AtRest EXCEPT !.at = "start", !.v = v]]
    /\ UNCHANGED <<role, services, mu, listener, status, gen, probing, source, started, missed>>

\* Promotion: the role changes, then onPromote reconciles with the current settings.
Promote ==
    /\ role = "replica" /\ role' = "primary"
    /\ Goto("promote", "call")
    /\ UNCHANGED <<held, services, saves, mu, listener, status, gen, probing, source, started, missed>>

OnPromote ==
    /\ thread["promote"].at = "call"
    /\ thread' = [thread EXCEPT !["promote"].at = "start", !["promote"].v = held]
    /\ UNCHANGED <<env, mu, listener, status, gen, probing, source, started, missed>>

\* A registry write commits, then its onChange refreshes the reservations.
Write(w) ==
    /\ thread[w].at = "idle" /\ services < MaxWrites
    /\ services' = services + 1
    /\ Goto(w, "refresh")
    /\ UNCHANGED <<role, held, saves, mu, listener, status, gen, probing, source, started, missed>>

----------------------------------------------------------------------------
(* watchForeign and checkForeign: the probe runs unlocked. *)

ProbeSend ==
    /\ watch # None /\ watch \notin probing
    /\ probing' = probing \cup {watch}
    /\ UNCHANGED <<env, mu, listener, status, gen, thread, source, started, missed>>

\* Mutant: the context is not checked once the lock is held.
CheckForeignUnchecked(l) ==
    /\ l \in probing /\ mu = None
    /\ probing' = probing \ {l}
    /\ foreign' \in {l, None}
    /\ UNCHANGED <<env, mu, running, built, reserved, watch, status, gen, thread, source, started, missed>>

\* A probe that failed leaves the banner alone, and so does one of a watch that was cancelled.
CheckForeign(l) ==
    /\ l \in probing /\ mu = None
    /\ probing' = probing \ {l}
    /\ foreign' \in IF watch = l THEN {l, None, foreign} ELSE {foreign}
    /\ UNCHANGED <<env, mu, running, built, reserved, watch, status, gen, thread, source, started, missed>>

----------------------------------------------------------------------------
Runner(t) ==
    ReconcileRead(t) \/ Reconcile(t) \/ BindFails(t) \/ Bind(t)
        \/ RefreshBegin(t) \/ RefreshRead(t) \/ RefreshPublish(t)

Next ==
    \/ \E t \in Threads : Runner(t)
    \/ ApplyStatus \/ ApplySource
    \/ \E v \in Saved : Save(v)
    \/ Promote \/ OnPromote
    \/ \E w \in Writers : Write(w)
    \/ ProbeSend \/ \E l \in Listeners : CheckForeign(l)

Spec == Init /\ [][Next]_vars

----------------------------------------------------------------------------
(* Properties. *)

\* A replica never has the listener bound, whatever its settings and whoever reconciles.
ReplicaNeverServes == role = "replica" => running = None

\* What Status reports is what runs: without an error the listener is bound exactly if
\* the settings it was last given ask for it, and a bound listener is the one those
\* settings describe.  A stop, a refused build and a failed bind all keep it.
StatusHonest ==
    mu = None =>
        /\ lastError = None => (running # None <=> current.on)
        /\ running # None => built = current.cfg

\* No thread is between a registry write, or the services a new listener was armed
\* with, and the end of its refresh.
RefreshesDone == \A t \in Threads : thread[t].at \notin {"lock", "bind", "refresh", "read", "publish"}

\* Once every refresh is over and the newest could read the services, the running
\* allocator is armed with the newest list, however the refreshes overlapped.
ReservationsFresh == (RefreshesDone /\ running # None /\ ~missed) => reserved = services

\* The banner describes the listener that runs now, never one that is gone: a probe that
\* was on the wire when its listener stopped is dropped.
BannerOfRunning == foreign # None => foreign = running

\* The lease source is never a listener that is gone: a stop takes its source away in the
\* same critical section, so an apply that races a promotion can at worst point the
\* poller at the lease file.
SourceNotGone == source \in Listeners => source = running

\* "so a promotion starts DHCP without a restart": once everyone is done, a primary
\* whose settings ask for DHCP runs it or says why not.  Does not hold.
PromotionServes ==
    (role = "primary" /\ held.on /\ \A t \in Threads : thread[t].at = "idle") =>
        running # None \/ lastError = "refused"

\* The poller reads the listener that runs.  Does not hold: Apply sets the source
\* after it asked for the status.
SourceOfRunning ==
    (running # None /\ \A t \in Threads : thread[t].at = "idle") => source = running

\* A primary's listener is the one its settings describe.  Does not hold: the two callers
\* may apply the settings they read in the other order.
RunsHeld ==
    (running # None /\ lastError = None /\ \A t \in Threads : thread[t].at = "idle") =>
        held.on /\ built = held.cfg

----------------------------------------------------------------------------
(* What the goroutines rely on. *)

Locals == [at : {"idle", "call", "start", "lock", "bind", "refresh", "read", "publish", "status", "source"},
           v : Settings, role : {"replica", "primary"}, list : Nat \cup {None, Failed},
           gen : Nat, alloc : Nat \cup {None}]
TypeOK ==
    /\ role \in {"replica", "primary"} /\ held \in Settings /\ current \in Settings
    /\ {services, gen, started} \subseteq Nat
    /\ running \in Nat \cup {None} /\ mu \in Threads \cup {None}
    /\ thread \in [Threads -> Locals]

\* The mutex is held across a bind and nowhere else, with nothing running.
MutexOK ==
    /\ \A t \in Threads : thread[t].at = "bind" <=> mu = t
    /\ mu # None => running = None

\* A reconcile that read "replica" stops the listener; one that binds has read another
\* role, and a role never goes back: it is promoted once.
RoleRead ==
    /\ \A t \in Threads :
         /\ thread[t].at = "lock" => thread[t].role = "replica" \/ role = "primary"
         /\ thread[t].at = "bind" => role = "primary" /\ thread[t].v.on
    /\ role = "replica" => thread["promote"].at = "idle"

\* The watch, its banner and the lease source go with the listener.
OneListener ==
    /\ watch = running /\ foreign \in {None, running} /\ source \in {None, File, running}
    /\ running # None => current.on

Begun(t) == thread[t].gen = gen /\ thread[t].alloc = running
Owed == \E t \in Threads : thread[t].at = "refresh"

\* A refresh that would be published now has the newest list, or another is still to come;
\* an allocator with an older list has a refresh coming, unless one could not read.
RefreshComing ==
    /\ \A t \in Threads :
         thread[t].gen <= gen /\ (thread[t].at \in {"read", "publish"} => thread[t].alloc # None)
    /\ \A t \in Threads : thread[t].at = "publish" /\ Begun(t) => thread[t].list = services \/ Owed
    /\ running # None /\ ~missed =>
         \/ reserved = services \/ Owed
         \/ \E t \in Threads : thread[t].at \in {"read", "publish"} /\ Begun(t)

\* The invariant that makes the five properties inductive.
IndInv ==
    /\ TypeOK /\ MutexOK /\ RoleRead /\ OneListener /\ RefreshComing
    /\ ReplicaNeverServes /\ StatusHonest
=============================================================================
