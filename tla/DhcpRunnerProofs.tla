-------------------------- MODULE DhcpRunnerProofs --------------------------
(***************************************************************************)
(* DhcpRunner for any number of writing goroutines, any settings and any   *)
(* bounds.  The control part of the invariant says who holds the mutex and *)
(* what is up meanwhile; the refresh part says which goroutine an          *)
(* allocator with an older service list is still waiting for.              *)
(***************************************************************************)
EXTENDS DhcpRunner, TLAPS

Control == TypeOK /\ MutexOK /\ RoleRead /\ OneListener /\ ReplicaNeverServes /\ StatusHonest

\* No goroutine is None.
LEMMA NotNone == \A t \in Threads : t # None
BY RunnerAssumption

\* The callers are goroutines of their own.
LEMMA TheCallers ==
    /\ {"apply", "promote"} \cup Writers \subseteq Threads /\ "promote" \notin Writers
    /\ Saved \subseteq Settings
BY RunnerAssumption DEF Threads, Callers

\* The locals a goroutine starts from.
LEMMA RestOK == Off \in Settings /\ AtRest \in Locals /\ AtRest.at = "idle" /\ AtRest.gen = 0
<1>1. Off \in Settings BY RunnerAssumption DEF Off, Settings
<1> QED BY <1>1 DEF AtRest, Locals

\* Where Goto and Finish leave a goroutine.
LEMMA GotoOK ==
    ASSUME TypeOK, NEW t \in Threads, NEW where \in {"call", "refresh", "status", "source"}, Goto(t, where)
    PROVE  \E l \in Locals : thread' = [thread EXCEPT ![t] = l] /\ l.at = where /\ l.gen = 0
<1> DEFINE l == [AtRest EXCEPT !.at = where, !.v = IF t = "apply" THEN thread[t].v ELSE Off]
<1>1. thread[t].v \in Settings BY DEF TypeOK, Locals
<1>2. l \in Locals /\ l.at = where /\ l.gen = 0 BY <1>1, RestOK DEF Locals
<1>3. thread' = [thread EXCEPT ![t] = l] BY DEF Goto
<1> QED BY <1>2, <1>3

LEMMA FinishOK ==
    ASSUME TypeOK, NEW t \in Threads, Finish(t)
    PROVE  \E l \in Locals : thread' = [thread EXCEPT ![t] = l] /\ l.at \in {"idle", "status"} /\ l.gen = 0
<1>1. CASE t = "apply" BY <1>1, GotoOK DEF Finish
<1>2. CASE t # "apply" BY <1>2, RestOK DEF Finish
<1> QED BY <1>1, <1>2

----------------------------------------------------------------------------
(* Who holds the mutex, and what is up. *)

\* A goroutine moves on outside of the lock's business: the listener and its status stay.
LEMMA MoveControl ==
    ASSUME Control, NEW t \in Threads, NEW l \in Locals,
           thread' = [thread EXCEPT ![t] = l], thread[t].at # "bind", l.at # "bind",
           l.at = "lock" => l.role = "replica" \/ role' = "primary",
           t = "promote" => thread[t].at # "idle" \/ role' = "primary",
           role' \in {role, "primary"}, held' \in Settings, {services', gen'} \subseteq Nat,
           UNCHANGED <<mu, running, built, watch, foreign, status, started>>,
           source' \in {source, File, None}
    PROVE  Control'
<1> USE DEF Control, status
<1>1. TypeOK' BY DEF TypeOK
<1>2. thread'[t] = l /\ \A u \in Threads : u # t => thread'[u] = thread[u] BY DEF TypeOK
<1>3. MutexOK' BY <1>2 DEF MutexOK
<1>4. RoleRead' BY <1>2, TheCallers DEF RoleRead
<1>5. OneListener' BY DEF OneListener
<1>6. ReplicaNeverServes' /\ StatusHonest' BY DEF ReplicaNeverServes, StatusHonest, TypeOK
<1> QED BY <1>1, <1>3, <1>4, <1>5, <1>6

\* The role is read before the lock; a role other than "replica" is there to stay.
LEMMA ReconcileReadControl == ASSUME Control, NEW t \in Threads, ReconcileRead(t) PROVE Control'
<1>1. PICK list \in {services, Failed} :
         thread' = [thread EXCEPT ![t].at = "lock", ![t].role = role,
                        ![t].list = IF DhcpWanted(thread[t].v, role) THEN list ELSE None]
  BY DEF ReconcileRead
<1> DEFINE l == [thread[t] EXCEPT !.at = "lock", !.role = role,
                        !.list = IF DhcpWanted(thread[t].v, role) THEN list ELSE None]
<1>2. l \in Locals /\ l.at = "lock" /\ l.role = role BY DEF Control, TypeOK, Locals
<1>3. thread' = [thread EXCEPT ![t] = l] BY <1>1 DEF Control, TypeOK
<1>4. l.role = "replica" \/ role' = "primary" BY <1>2 DEF ReconcileRead, env, Control, TypeOK
<1> QED BY <1>2, <1>3, <1>4, MoveControl DEF ReconcileRead, env, listener, Control, TypeOK

\* The four ways out of the critical section of Reconcile.
LEMMA ReconcileControl == ASSUME Control, NEW t \in Threads, Reconcile(t) PROVE Control'
<1> DEFINE v == thread[t].v
           free == /\ role' = role /\ held' = held /\ services' = services
                   /\ gen' = gen /\ started' = started
<1>1. /\ thread[t].at = "lock" /\ mu = None /\ free
      /\ v \in Settings /\ thread[t].role \in {"replica", "primary"}
      /\ thread[t].role = "replica" \/ role = "primary"
  BY DEF Reconcile, env, Control, TypeOK, Locals, RoleRead
<1>2. ASSUME Goto(t, "refresh"), mu' = None, current' \in Settings,
             running' \in {running, None}, OneListener', StatusHonest'
      PROVE  Control'
  <2>1. PICK l \in Locals : thread' = [thread EXCEPT ![t] = l] /\ l.at = "refresh"
    BY <1>2, GotoOK DEF Control
  <2>2. thread'[t] = l /\ \A u \in Threads : u # t => thread'[u] = thread[u]
    BY <2>1 DEF Control, TypeOK
  <2>3. TypeOK' BY <1>1, <1>2, <2>1 DEF Control, TypeOK
  <2>4. MutexOK' BY <1>1, <1>2, <2>1, <2>2 DEF Control, MutexOK
  <2>5. RoleRead' BY <1>1, <2>1, <2>2, TheCallers DEF Control, RoleRead
  <2>6. ReplicaNeverServes' BY <1>1, <1>2 DEF Control, ReplicaNeverServes
  <2> QED BY <1>2, <2>3, <2>4, <2>5, <2>6 DEF Control
<1>3. CASE /\ ~DhcpWanted(v, thread[t].role)
           /\ StopLocked
           /\ current' = v /\ lastError' = RoleRefusal(v, thread[t].role)
           /\ Goto(t, "refresh")
           /\ UNCHANGED mu
  <2>1. OneListener' BY <1>3 DEF StopLocked, OneListener, Control
  <2>2. StatusHonest'
    BY <1>1, <1>3, RunnerAssumption DEF StopLocked, StatusHonest, RoleRefusal, DhcpWanted, Errors, Settings
  <2> QED BY <1>1, <1>2, <1>3, <2>1, <2>2 DEF StopLocked
<1>4. CASE /\ DhcpWanted(v, thread[t].role) /\ running # None /\ current.cfg = v.cfg
           /\ lastError' = None
           /\ Goto(t, "refresh")
           /\ UNCHANGED <<mu, listener, current, source>>
  <2>1. OneListener' BY <1>4 DEF listener, OneListener, Control
  <2>2. StatusHonest' BY <1>1, <1>4 DEF listener, StatusHonest, OneListener, Control, TypeOK, Settings
  <2> QED BY <1>1, <1>2, <1>4, <2>1, <2>2 DEF listener, Control, TypeOK
<1>5. CASE /\ DhcpWanted(v, thread[t].role) /\ ~(running # None /\ current.cfg = v.cfg)
           /\ Fail(t, running # None)
           /\ Goto(t, "refresh")
           /\ UNCHANGED <<mu, listener, source>>
  <2>1. OneListener' BY <1>5 DEF listener, OneListener, Control, Fail
  <2>2. StatusHonest' BY <1>1, <1>5, RunnerAssumption DEF listener, StatusHonest, Fail, Errors, Control
  <2>3. current' \in Settings BY <1>1, <1>5 DEF Fail, Control, TypeOK
  <2> QED BY <1>1, <1>2, <1>5, <2>1, <2>2, <2>3 DEF listener
<1>6. CASE /\ DhcpWanted(v, thread[t].role) /\ ~(running # None /\ current.cfg = v.cfg)
           /\ MayBuild(t)
           /\ StopLocked
           /\ mu' = t
           /\ thread' = [thread EXCEPT ![t].at = "bind"]
           /\ UNCHANGED status
  <2> DEFINE l == [thread[t] EXCEPT !.at = "bind"]
  <2>1. l \in Locals /\ l.at = "bind" /\ l.v = v BY DEF Control, TypeOK, Locals
  <2>2. thread' = [thread EXCEPT ![t] = l] BY <1>6 DEF Control, TypeOK
  <2>3. thread'[t] = l /\ \A u \in Threads : u # t => thread'[u] = thread[u]
    BY <2>2 DEF Control, TypeOK
  <2>4. role = "primary" /\ v.on BY <1>1, <1>6 DEF DhcpWanted
  <2>5. TypeOK' BY <1>1, <1>6, <2>1, <2>2 DEF Control, TypeOK, StopLocked, status
  <2>6. t # None BY NotNone
  <2>7. MutexOK' BY <1>1, <1>6, <2>1, <2>3, NotNone DEF Control, MutexOK, StopLocked
  <2>8. RoleRead' BY <1>1, <2>1, <2>3, <2>4, TheCallers DEF Control, RoleRead
  <2>9. OneListener' BY <1>6 DEF StopLocked, OneListener, Control
  <2>10. ReplicaNeverServes' /\ StatusHonest'
    BY <1>6, <2>6 DEF ReplicaNeverServes, StatusHonest, StopLocked
  <2> QED BY <2>5, <2>7, <2>8, <2>9, <2>10 DEF Control
<1> QED BY <1>3, <1>4, <1>5, <1>6 DEF Reconcile

\* The bind ends the critical section, with the listener up or with the reason it is not.
LEMMA BindControl == ASSUME Control, NEW t \in Threads, Bind(t) \/ BindFails(t) PROVE Control'
<1> DEFINE v == thread[t].v
<1>1. /\ thread[t].at = "bind" /\ mu = t /\ mu' = None /\ Goto(t, "refresh")
      /\ role' = role /\ held' = held /\ services' = services /\ gen' = gen
      /\ t # None /\ role = "primary" /\ v.on /\ v \in Settings /\ running = None /\ foreign = None
  BY RunnerAssumption DEF Bind, BindFails, env, Control, MutexOK, RoleRead, TypeOK, Locals, OneListener
<1>2. PICK l \in Locals : thread' = [thread EXCEPT ![t] = l] /\ l.at = "refresh"
  BY <1>1, GotoOK DEF Control
<1>3. thread'[t] = l /\ \A u \in Threads : u # t => thread'[u] = thread[u] BY <1>2 DEF Control, TypeOK
<1>4. started' \in Nat /\ current' \in Settings /\ running' \in Nat \cup {None}
  BY <1>1 DEF Bind, BindFails, Fail, Control, TypeOK, listener
<1>5. TypeOK' BY <1>1, <1>2, <1>4 DEF Control, TypeOK
<1>6. MutexOK' BY <1>1, <1>2, <1>3, NotNone DEF Control, MutexOK
<1>7. RoleRead' BY <1>1, <1>2, <1>3, TheCallers DEF Control, RoleRead
<1>8. ReplicaNeverServes' BY <1>1 DEF ReplicaNeverServes
<1>9. OneListener' BY <1>1, RunnerAssumption DEF Bind, BindFails, OneListener, Control, listener
<1>10. StatusHonest'
  <2>1. CASE Bind(t)
    <3>1. running' # None BY <2>1, <1>4, RunnerAssumption DEF Bind
    <3> QED BY <2>1, <3>1, <1>1 DEF Bind, StatusHonest, Settings
  <2>2. CASE BindFails(t) BY <2>2, <1>1, RunnerAssumption DEF BindFails, Fail, StatusHonest, listener, Errors
  <2> QED BY <2>1, <2>2
<1> QED BY <1>5, <1>6, <1>7, <1>8, <1>9, <1>10 DEF Control

\* Reservations are refreshed beside the listener, never through it.
LEMMA RefreshControl ==
    ASSUME Control, NEW t \in Threads, RefreshBegin(t) \/ RefreshRead(t) \/ RefreshPublish(t)
    PROVE  Control'
<1>1. PICK l \in Locals : thread' = [thread EXCEPT ![t] = l] /\ l.at \in {"idle", "status", "read", "publish"}
  <2>1. CASE Finish(t) BY <2>1, FinishOK DEF Control
  <2>2. CASE thread' = [thread EXCEPT ![t].at = "read", ![t].gen = gen', ![t].alloc = running] /\ gen' = gen + 1
    <3> DEFINE l == [thread[t] EXCEPT !.at = "read", !.gen = gen', !.alloc = running]
    <3>1. gen' \in Nat BY <2>2 DEF Control, TypeOK
    <3>2. l \in Locals /\ l.at = "read" BY <3>1 DEF Control, TypeOK, Locals
    <3> QED BY <2>2, <3>2 DEF Control, TypeOK
  <2>3. CASE thread' = [thread EXCEPT ![t].at = "publish", ![t].list = services]
    <3> DEFINE l == [thread[t] EXCEPT !.at = "publish", !.list = services]
    <3>1. l \in Locals /\ l.at = "publish" BY DEF Control, TypeOK, Locals
    <3> QED BY <2>3, <3>1 DEF Control, TypeOK
  <2> QED BY <2>1, <2>2, <2>3 DEF RefreshBegin, RefreshRead, RefreshPublish
<1>2. /\ thread[t].at \notin {"bind", "idle"} /\ gen' \in Nat
      /\ UNCHANGED <<role, held, services, mu, running, built, watch, foreign, status, started, source>>
  BY DEF RefreshBegin, RefreshRead, RefreshPublish, env, listener, Control, TypeOK
<1> QED BY <1>1, <1>2, MoveControl DEF Control, TypeOK

\* Applies, promotions and writes start their goroutine, or set the source to the file.
LEMMA StartControl ==
    ASSUME Control,
           \/ ApplyStatus \/ ApplySource \/ Promote \/ OnPromote
           \/ \E v \in Saved : Save(v)
           \/ \E w \in Writers : Write(w)
    PROVE  Control'
<1> USE DEF Control, TypeOK, env, listener
<1>1. CASE ApplyStatus
  <2>1. PICK l \in Locals : thread' = [thread EXCEPT !["apply"] = l] /\ l.at \in {"source", "idle"}
    BY TheCallers, <1>1, GotoOK, RestOK DEF ApplyStatus
  <2> QED BY TheCallers, <1>1, <2>1, MoveControl DEF ApplyStatus
<1>2. CASE ApplySource BY TheCallers, <1>2, MoveControl, RestOK DEF ApplySource
<1>3. CASE Promote
  <2>1. PICK l \in Locals : thread' = [thread EXCEPT !["promote"] = l] /\ l.at = "call"
    BY TheCallers, <1>3, GotoOK DEF Promote
  <2>2. thread["promote"].at # "bind" BY TheCallers, <1>3 DEF Promote, RoleRead
  <2> QED BY TheCallers, <1>3, <2>1, <2>2, MoveControl DEF Promote
<1>4. CASE OnPromote
  <2> DEFINE l == [thread["promote"] EXCEPT !.at = "start", !.v = held]
  <2>1. l \in Locals /\ l.at = "start" BY TheCallers DEF Locals
  <2>2. thread' = [thread EXCEPT !["promote"] = l] BY TheCallers, <1>4 DEF OnPromote
  <2> QED BY TheCallers, <1>4, <2>1, <2>2, MoveControl DEF OnPromote
<1>5. ASSUME NEW v \in Saved, Save(v) PROVE Control'
  <2> DEFINE l == [AtRest EXCEPT !.at = "start", !.v = v]
  <2>1. l \in Locals /\ l.at = "start" BY TheCallers, RestOK DEF Locals
  <2> QED BY TheCallers, <1>5, <2>1, MoveControl DEF Save
<1>6. ASSUME NEW w \in Writers, Write(w) PROVE Control'
  <2>1. PICK l \in Locals : thread' = [thread EXCEPT ![w] = l] /\ l.at = "refresh"
    BY TheCallers, <1>6, GotoOK DEF Write
  <2>2. services' \in Nat BY <1>6 DEF Write
  <2> QED BY TheCallers, <1>6, <2>1, <2>2, MoveControl DEF Write
<1> QED BY <1>1, <1>2, <1>3, <1>4, <1>5, <1>6

\* A watch writes its banner only while it is the live one.
LEMMA ProbeControl == ASSUME Control, ProbeSend \/ \E l \in Listeners : CheckForeign(l) PROVE Control'
<1>1. UNCHANGED <<role, held, services, mu, running, built, watch, current, lastError, gen, thread, source, started>>
  BY DEF ProbeSend, CheckForeign, env, listener, status
<1>2. foreign' \in {None, running} BY DEF ProbeSend, CheckForeign, listener, Control, OneListener
<1> QED BY <1>1, <1>2 DEF Control, TypeOK, MutexOK, RoleRead, OneListener, ReplicaNeverServes, StatusHonest

\* Every step.
LEMMA NextControl == ASSUME Control, [Next]_vars PROVE Control'
<1>1. ASSUME NEW t \in Threads, Runner(t) PROVE Control'
  BY <1>1, ReconcileReadControl, ReconcileControl, BindControl, RefreshControl DEF Runner
<1>2. CASE UNCHANGED vars
  BY <1>2 DEF vars, env, listener, status, Control, TypeOK, MutexOK, RoleRead, OneListener,
              ReplicaNeverServes, StatusHonest
<1> QED BY <1>1, <1>2, StartControl, ProbeControl DEF Next

----------------------------------------------------------------------------
(* The refreshes that are still to come. *)

Begins(l, g) == l.gen <= g /\ (l.at \in {"read", "publish"} => l.alloc # None)

\* A goroutine that is about to refresh makes up for whatever the others left.
LEMMA OwedEnough ==
    ASSUME NEW t \in Threads, thread'[t].at = "refresh", \A u \in Threads : Begins(thread'[u], gen')
    PROVE  RefreshComing'
BY DEF RefreshComing, Owed, Begins

\* A goroutine that moves on to its refresh, without a new generation.
LEMMA TowardsRefresh ==
    ASSUME TypeOK, RefreshComing, NEW t \in Threads, Goto(t, "refresh"), gen' = gen
    PROVE  RefreshComing'
<1>1. PICK l \in Locals : thread' = [thread EXCEPT ![t] = l] /\ l.at = "refresh" /\ l.gen = 0 BY GotoOK
<1>2. thread'[t] = l /\ \A u \in Threads : u # t => thread'[u] = thread[u] BY <1>1 DEF TypeOK
<1>3. \A u \in Threads : Begins(thread'[u], gen') BY <1>1, <1>2 DEF RefreshComing, TypeOK, Begins
<1> QED BY <1>1, <1>2, <1>3, OwedEnough

\* A goroutine that has nothing to do with refreshes moves on; the listener may stop.
LEMMA MoveRefresh ==
    ASSUME TypeOK, RefreshComing, NEW t \in Threads, NEW l \in Locals,
           thread' = [thread EXCEPT ![t] = l],
           thread[t].at \notin {"refresh", "read", "publish"}, l.at \notin {"read", "publish"},
           l.gen \in {0, thread[t].gen},
           UNCHANGED <<services, gen, missed>>,
           running' = None \/ (running' = running /\ reserved' = reserved)
    PROVE  RefreshComing'
<1>1. thread'[t] = l /\ \A u \in Threads : u # t => thread'[u] = thread[u] BY DEF TypeOK
<1>2. \A u \in Threads : Begins(thread'[u], gen') BY <1>1 DEF RefreshComing, TypeOK, Begins
<1>3. Owed => Owed' BY <1>1 DEF Owed
<1>4. \A u \in Threads : thread'[u].at = "publish" => thread'[u] = thread[u] BY <1>1
<1>5. CASE running' = running /\ reserved' = reserved
  <2>1. \A u \in Threads : thread[u].at \in {"read", "publish"} /\ Begun(u) =>
            thread'[u].at \in {"read", "publish"} /\ Begun(u)'
    BY <1>1, <1>5 DEF Begun
  <2>2. \A u \in Threads : thread'[u].at = "publish" /\ Begun(u)' => thread[u].at = "publish" /\ Begun(u)
    BY <1>4, <1>5 DEF Begun
  <2> QED BY <1>2, <1>3, <1>4, <1>5, <2>1, <2>2 DEF RefreshComing, Begins
<1>6. CASE running' = None
  BY <1>2, <1>6 DEF RefreshComing, Begun, Begins
<1> QED BY <1>5, <1>6

\* Reconcile and the bind end in a refresh, or stop the listener on the way to it.
LEMMA ReconcileRefresh ==
    ASSUME TypeOK, RefreshComing, NEW t \in Threads,
           ReconcileRead(t) \/ Reconcile(t) \/ BindFails(t) \/ Bind(t)
    PROVE  RefreshComing'
<1>1. CASE Goto(t, "refresh")
  BY <1>1, TowardsRefresh DEF ReconcileRead, Reconcile, BindFails, Bind
<1>2. CASE ReconcileRead(t)
  <2>1. PICK list \in {services, Failed} :
           thread' = [thread EXCEPT ![t].at = "lock", ![t].role = role,
                          ![t].list = IF DhcpWanted(thread[t].v, role) THEN list ELSE None]
    BY <1>2 DEF ReconcileRead
  <2> DEFINE l == [thread[t] EXCEPT !.at = "lock", !.role = role,
                          !.list = IF DhcpWanted(thread[t].v, role) THEN list ELSE None]
  <2>2. l \in Locals /\ l.at = "lock" /\ l.gen = thread[t].gen BY DEF TypeOK, Locals
  <2>3. thread' = [thread EXCEPT ![t] = l] BY <2>1 DEF TypeOK
  <2>4. UNCHANGED <<services, gen, missed, running, reserved>> /\ thread[t].at = "start"
    BY <1>2 DEF ReconcileRead, env, listener
  <2> QED BY <2>2, <2>3, <2>4, MoveRefresh
<1>3. CASE Reconcile(t) /\ thread' = [thread EXCEPT ![t].at = "bind"] /\ StopLocked
  <2> DEFINE l == [thread[t] EXCEPT !.at = "bind"]
  <2>1. l \in Locals /\ l.at = "bind" /\ l.gen = thread[t].gen BY DEF TypeOK, Locals
  <2>2. thread' = [thread EXCEPT ![t] = l] BY <1>3 DEF TypeOK
  <2>3. UNCHANGED <<services, gen, missed>> /\ thread[t].at = "lock" /\ running' = None
    BY <1>3 DEF Reconcile, env, StopLocked
  <2> QED BY <2>1, <2>2, <2>3, MoveRefresh
<1> QED BY <1>1, <1>2, <1>3 DEF Reconcile, BindFails, Bind

\* A refresh that begins is the newest: no other goroutine can publish any more.
LEMMA BeginRefresh == ASSUME TypeOK, RefreshComing, NEW t \in Threads, RefreshBegin(t) PROVE RefreshComing'
<1>1. /\ gen' = gen + 1 /\ gen' \in Nat /\ gen < gen' /\ gen' <= gen'
      /\ UNCHANGED <<services, missed, running, reserved>>
  BY DEF RefreshBegin, env, listener, TypeOK
<1>2. \A u \in Threads : thread[u].gen \in Nat BY DEF TypeOK, Locals
<1>3. \A u \in Threads : thread[u].gen <= gen' /\ thread[u].gen # gen' BY <1>1, <1>2 DEF RefreshComing, TypeOK
<1>4. CASE running = None
  <2>1. PICK l \in Locals : thread' = [thread EXCEPT ![t] = l] /\ l.at \in {"idle", "status"} /\ l.gen = 0
    BY <1>4, FinishOK DEF RefreshBegin
  <2>2. thread'[t] = l /\ \A u \in Threads : u # t => thread'[u] = thread[u] BY <2>1 DEF TypeOK
  <2>3. \A u \in Threads : Begins(thread'[u], gen')
    BY <1>1, <1>3, <2>1, <2>2 DEF Begins, RefreshComing
  <2>4. \A u \in Threads : thread'[u].at = "publish" => thread'[u].gen # gen'
    BY <1>3, <2>1, <2>2
  <2> QED BY <1>1, <1>4, <2>3, <2>4 DEF RefreshComing, Begun, Begins
<1>5. CASE running # None
  <2> DEFINE l == [thread[t] EXCEPT !.at = "read", !.gen = gen', !.alloc = running]
  <2>1. thread' = [thread EXCEPT ![t] = l] BY <1>5 DEF RefreshBegin, TypeOK
  <2>2. l.at = "read" /\ l.gen = gen' /\ l.alloc = running BY DEF TypeOK, Locals
  <2>3. thread'[t] = l /\ \A u \in Threads : u # t => thread'[u] = thread[u] BY <2>1 DEF TypeOK
  <2>4. \A u \in Threads : Begins(thread'[u], gen')
    <3>1. Begins(thread'[t], gen') BY <1>1, <1>5, <2>2, <2>3 DEF Begins
    <3>2. \A u \in Threads : u # t => Begins(thread'[u], gen') BY <1>3, <2>3 DEF Begins, RefreshComing
    <3> QED BY <3>1, <3>2
  <2>5. \A u \in Threads : thread'[u].at = "publish" => thread'[u].gen # gen'
    BY <1>3, <2>2, <2>3
  <2>6. thread'[t].at = "read" /\ Begun(t)' BY <1>1, <2>2, <2>3 DEF Begun
  <2> QED BY <1>1, <2>4, <2>5, <2>6 DEF RefreshComing, Begun, Begins
<1> QED BY <1>4, <1>5

\* The list that is read is the newest one; a read that fails is remembered.
LEMMA ReadRefresh == ASSUME TypeOK, RefreshComing, NEW t \in Threads, RefreshRead(t) PROVE RefreshComing'
<1>1. /\ thread[t].at = "read" /\ UNCHANGED <<services, gen, running, reserved>>
  BY DEF RefreshRead, env, listener
<1>2. CASE Finish(t) /\ missed' = TRUE
  <2>1. PICK l \in Locals : thread' = [thread EXCEPT ![t] = l] /\ l.at \in {"idle", "status"} /\ l.gen = 0
    BY <1>2, FinishOK
  <2>2. thread'[t] = l /\ \A u \in Threads : u # t => thread'[u] = thread[u] BY <2>1 DEF TypeOK
  <2>3. \A u \in Threads : Begins(thread'[u], gen') BY <1>1, <2>1, <2>2 DEF Begins, RefreshComing, TypeOK
  <2>4. Owed => Owed' BY <1>1, <2>2 DEF Owed
  <2>5. \A u \in Threads : thread'[u].at = "publish" => thread'[u] = thread[u] BY <2>1, <2>2
  <2> QED BY <1>1, <1>2, <2>3, <2>4, <2>5 DEF RefreshComing, Begun, Begins
<1>3. CASE thread' = [thread EXCEPT ![t].at = "publish", ![t].list = services] /\ missed' = missed
  <2> DEFINE l == [thread[t] EXCEPT !.at = "publish", !.list = services]
  <2>1. thread' = [thread EXCEPT ![t] = l] BY <1>3 DEF TypeOK
  <2>2. l.at = "publish" /\ l.list = services /\ l.gen = thread[t].gen /\ l.alloc = thread[t].alloc
    BY DEF TypeOK, Locals
  <2>3. thread'[t] = l /\ \A u \in Threads : u # t => thread'[u] = thread[u] BY <2>1 DEF TypeOK
  <2>4. \A u \in Threads : Begins(thread'[u], gen')
    BY <1>1, <2>2, <2>3 DEF Begins, RefreshComing
  <2>5. Owed => Owed' BY <1>1, <2>3 DEF Owed
  <2>6. \A u \in Threads : Begun(u)' <=> Begun(u) BY <1>1, <2>2, <2>3 DEF Begun
  <2>7. \A u \in Threads : thread[u].at \in {"read", "publish"} => thread'[u].at \in {"read", "publish"}
    BY <2>2, <2>3
  <2>8. \A u \in Threads : thread'[u].at = "publish" /\ Begun(u)' => thread'[u].list = services' \/ Owed'
    BY <1>1, <2>2, <2>3, <2>5, <2>6 DEF RefreshComing
  <2> QED BY <1>1, <1>3, <2>4, <2>5, <2>6, <2>7, <2>8 DEF RefreshComing, Begins
<1> QED BY <1>2, <1>3 DEF RefreshRead

\* A refresh that was not overtaken publishes the newest list, or one is still to come.
LEMMA PublishRefresh == ASSUME TypeOK, RefreshComing, NEW t \in Threads, RefreshPublish(t) PROVE RefreshComing'
<1>1. /\ thread[t].at = "publish" /\ UNCHANGED <<services, gen, running>>
      /\ reserved' = IF Overtaken(t) THEN reserved ELSE thread[t].list
      /\ missed' = (missed /\ Overtaken(t))
  BY DEF RefreshPublish, env
<1>2. PICK l \in Locals : thread' = [thread EXCEPT ![t] = l] /\ l.at \in {"idle", "status"} /\ l.gen = 0
  BY FinishOK DEF RefreshPublish
<1>3. thread'[t] = l /\ \A u \in Threads : u # t => thread'[u] = thread[u] BY <1>2 DEF TypeOK
<1>4. \A u \in Threads : Begins(thread'[u], gen') BY <1>1, <1>2, <1>3 DEF Begins, RefreshComing, TypeOK
<1>5. Owed => Owed' BY <1>1, <1>3 DEF Owed
<1>6. \A u \in Threads : thread'[u].at = "publish" => thread'[u] = thread[u] BY <1>2, <1>3
<1>7. \A u \in Threads : thread'[u].at = "publish" /\ Begun(u)' => thread'[u].list = services' \/ Owed'
  BY <1>1, <1>5, <1>6 DEF RefreshComing, Begun
<1>8. CASE Overtaken(t)
  <2>1. ~Begun(t) BY <1>8 DEF Overtaken, Begun
  <2>2. \A u \in Threads : thread[u].at \in {"read", "publish"} /\ Begun(u) =>
            thread'[u].at \in {"read", "publish"} /\ Begun(u)'
    BY <1>1, <1>3, <2>1 DEF Begun
  <2>3. reserved' = reserved /\ (~missed' => ~missed) BY <1>1, <1>8
  <2> QED BY <1>1, <1>4, <1>5, <1>7, <2>2, <2>3 DEF RefreshComing, Begins
<1>9. CASE ~Overtaken(t)
  <2>1. reserved' = thread[t].list BY <1>1, <1>9
  <2>2. thread[t].list = services \/ Owed BY <1>1, <1>9 DEF Overtaken, Begun, RefreshComing
  <2> QED BY <1>1, <1>4, <1>5, <1>7, <2>1, <2>2 DEF RefreshComing, Begins
<1> QED BY <1>8, <1>9

\* Applies and promotions are no refreshes; a write owes one.
LEMMA StartRefresh ==
    ASSUME TypeOK, RefreshComing,
           \/ ApplyStatus \/ ApplySource \/ OnPromote
           \/ \E v \in Saved : Save(v)
           \/ \E w \in Writers : Write(w)
    PROVE  RefreshComing'
<1> USE DEF env, listener
<1>1. CASE ApplyStatus
  <2>1. PICK l \in Locals : thread' = [thread EXCEPT !["apply"] = l] /\ l.at \in {"source", "idle"} /\ l.gen = 0
    BY TheCallers, <1>1, GotoOK, RestOK DEF ApplyStatus
  <2> QED BY TheCallers, <1>1, <2>1, MoveRefresh DEF ApplyStatus
<1>2. CASE ApplySource BY TheCallers, <1>2, MoveRefresh, RestOK DEF ApplySource
<1>3. CASE OnPromote
  <2> DEFINE l == [thread["promote"] EXCEPT !.at = "start", !.v = held]
  <2>1. l \in Locals /\ l.at = "start" /\ l.gen = thread["promote"].gen BY TheCallers DEF Locals, TypeOK
  <2>2. thread' = [thread EXCEPT !["promote"] = l] BY TheCallers, <1>3 DEF OnPromote, TypeOK
  <2> QED BY TheCallers, <1>3, <2>1, <2>2, MoveRefresh DEF OnPromote
<1>4. ASSUME NEW v \in Saved, Save(v) PROVE RefreshComing'
  <2> DEFINE l == [AtRest EXCEPT !.at = "start", !.v = v]
  <2>1. l \in Locals /\ l.at = "start" /\ l.gen = 0 BY TheCallers, RestOK DEF Locals
  <2> QED BY TheCallers, <1>4, <2>1, MoveRefresh DEF Save
<1>5. ASSUME NEW w \in Writers, Write(w) PROVE RefreshComing' BY TheCallers, <1>5, TowardsRefresh DEF Write
<1> QED BY <1>1, <1>2, <1>3, <1>4, <1>5

\* The promotion finds its goroutine idle; it has no refresh under way to lose.
LEMMA PromoteRefresh == ASSUME Control, RefreshComing, Promote PROVE RefreshComing'
<1>1. PICK l \in Locals : thread' = [thread EXCEPT !["promote"] = l] /\ l.at = "call" /\ l.gen = 0
  BY TheCallers, GotoOK DEF Promote, Control
<1>2. thread["promote"].at = "idle" BY DEF Promote, Control, RoleRead
<1> QED BY <1>1, <1>2, TheCallers, MoveRefresh DEF Promote, Control, listener

\* Every step.
LEMMA NextRefresh == ASSUME Control, RefreshComing, [Next]_vars PROVE RefreshComing'
<1>0. TypeOK BY DEF Control
<1>1. ASSUME NEW t \in Threads, Runner(t) PROVE RefreshComing'
  BY <1>0, <1>1, ReconcileRefresh, BeginRefresh, ReadRefresh, PublishRefresh DEF Runner
<1>2. CASE UNCHANGED <<thread, services, gen, running, reserved, missed>>
  BY <1>2 DEF RefreshComing, Owed, Begun
<1>3. CASE ProbeSend \/ \E l \in Listeners : CheckForeign(l)
  BY <1>2, <1>3 DEF ProbeSend, CheckForeign, env, listener
<1>4. CASE UNCHANGED vars BY <1>2, <1>4 DEF vars, env, listener
<1> QED BY <1>0, <1>1, <1>3, <1>4, PromoteRefresh, StartRefresh DEF Next

----------------------------------------------------------------------------
(* The theorems. *)

\* serve has reconciled once: what runs is what the settings and the role ask for.
LEMMA InitInd == Init => IndInv
<1> SUFFICES ASSUME Init PROVE IndInv OBVIOUS
<1>1. \A t \in Threads : thread[t] = AtRest BY DEF Init
<1>2. held \in Settings BY RunnerAssumption DEF Init
<1>3. running \in Nat \cup {None} /\ started \in Nat /\ (running # None => running = 1) BY DEF Init
<1>4. TypeOK BY <1>2, <1>3, RestOK DEF Init, TypeOK
<1>5. MutexOK BY <1>1, RestOK, NotNone DEF Init, MutexOK
<1>6. RoleRead BY <1>1, RestOK, TheCallers DEF RoleRead
<1>7. OneListener /\ ReplicaNeverServes
  BY DEF Init, OneListener, ReplicaNeverServes, DhcpWanted
<1>8. StatusHonest
  BY <1>2, RunnerAssumption DEF Init, StatusHonest, DhcpWanted, RoleRefusal, Errors, Settings
<1>9. RefreshComing
  <2>1. running # None => reserved = services BY DEF Init
  <2>2. 0 <= gen BY DEF Init
  <2> QED BY <1>1, <2>1, <2>2, RestOK DEF RefreshComing
<1> QED BY <1>4, <1>5, <1>6, <1>7, <1>8, <1>9 DEF IndInv

\* The invariant holds throughout, however applies, a promotion, writes and probes overlap.
THEOREM Inductive == Spec => []IndInv
<1>1. IndInv /\ [Next]_vars => IndInv' BY NextControl, NextRefresh DEF IndInv, Control
<1> QED BY InitInd, <1>1, PTL DEF Spec

\* No replica has the listener bound, although the role is read before the lock
\* (dhcpRunner.Reconcile, dhcpWanted).
THEOREM ReplicasNeverServe == Spec => []ReplicaNeverServes
<1>1. IndInv => ReplicaNeverServes BY DEF IndInv
<1> QED BY Inductive, <1>1, PTL

\* The status is what runs, after every stop, refused build and failed bind
\* (dhcpRunner.Status, fail, stopLocked).
THEOREM StatusIsHonest == Spec => []StatusHonest
<1>1. IndInv => StatusHonest BY DEF IndInv
<1> QED BY Inductive, <1>1, PTL

\* Once every refresh is over and the newest could read, the allocator has the newest
\* reservations (dhcpRunner.RefreshReservations and its generation).
THEOREM ReservationsAreFresh == Spec => []ReservationsFresh
<1>1. IndInv => ReservationsFresh
  <2> SUFFICES ASSUME IndInv, RefreshesDone, running # None, ~missed PROVE reserved = services
    BY DEF ReservationsFresh
  <2> QED BY DEF IndInv, RefreshComing, RefreshesDone, Owed
<1> QED BY Inductive, <1>1, PTL

\* The banner is the running listener's (checkForeign under the lock, stopLocked).
THEOREM BannersAreOfTheRunning == Spec => []BannerOfRunning
<1>1. IndInv => BannerOfRunning BY DEF IndInv, OneListener, BannerOfRunning
<1> QED BY Inductive, <1>1, PTL

\* The poller's source is never a listener that is gone (stopLocked, liveComponents.Apply).
THEOREM SourcesAreNotGone == Spec => []SourceNotGone
<1>1. IndInv => SourceNotGone
  <2>1. Listeners \subseteq Nat BY RunnerAssumption DEF Listeners
  <2> QED BY <2>1, RunnerAssumption DEF IndInv, OneListener, SourceNotGone
<1> QED BY Inductive, <1>1, PTL
=============================================================================
