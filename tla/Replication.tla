---------------------------- MODULE Replication ----------------------------
(***************************************************************************)
(* One node that follows a primary: its pull loop (internal/replica), the  *)
(* primary's snapshot handler, the applier that commits a snapshot and     *)
(* rebuilds what is served (internal/app), promotion, joining, and crashes *)
(* between any two durable writes.                                         *)
(*                                                                         *)
(* A table's content is abstracted to where it was last written: on a      *)
(* primary, the config_version that write produced; on the node, the       *)
(* content it holds names the primary it was pulled from.  How a poll is   *)
(* reported (last error, backoff, relayed health) is left out.             *)
(***************************************************************************)
EXTENDS Integers, Sequences

CONSTANTS
    Primaries,      \* the nodes this one may be paired with
    Callers,        \* concurrent POST /replica/promote requests
    NoNode,         \* the empty node id of an unpaired replica_state row
    Self,           \* marks content written on this node itself
    MaxVersion      \* bound: config_version of each primary

ASSUME NodesAssumption ==
    /\ NoNode \notin Primaries
    /\ Self \notin Primaries
    /\ MaxVersion \in [Primaries -> Nat \ {0}]

(***************************************************************************)
(* The replicated tables, grouped by what is rebuilt from them: views,     *)
(* services and records feed the zone snapshot; settings the settings      *)
(* holder; lists, rules and blacklist settings the policy holder.          *)
(***************************************************************************)
Tables == {"zone", "settings", "policy"}

\* The order in which storeSource.Snapshot reads them.
ReadOrder == <<"zone", "settings", "policy">>

Content == [by : Primaries \cup {Self}, ver : Nat]

VARIABLES
    version,    \* [Primaries -> Nat]: config_version of each primary
    cfg,        \* [Primaries -> [Tables -> Nat]]: version of a table's last write
    rows,       \* [Tables -> Content]: this node's database        (durable)
    state,      \* its replica_state row: followed node and version  (durable)
    promotion,  \* its promotion row is there                        (durable)
    role,       \* RoleHolder: "replica" or "primary"
    served,     \* [Tables -> Content]: what the live holders were built from
    pc,         \* where the pull loop is
    pinned,     \* PullerConfig.Pinned
    held,       \* Puller.lastVersion
    snap,       \* the snapshot in flight: version, contents, tables read
    cancelled,  \* the pull loop's context is cancelled
    promoting   \* [Callers -> where a Promote call is]

primaryVars == <<version, cfg>>
durableVars == <<rows, state, promotion>>
pullVars == <<pc, pinned, held, snap, cancelled>>
vars == <<version, cfg, rows, state, promotion, role, served,
          pc, pinned, held, snap, cancelled, promoting>>

\* An in-flight snapshot in which nothing was read yet.
EmptySnap(v) ==
    [ver |-> v, read |-> 0, rows |-> [t \in Tables |-> [by |-> Self, ver |-> 0]]]

----------------------------------------------------------------------------
(* Boot *)

\* RoleAtBoot of a node whose config file names a primary.
RoleAtBoot(promoted) == IF promoted THEN "primary" ELSE "replica"

\* startReplication: a paired replica gets a pull loop that adopts the stored
\* version (NewPuller); a primary and an unpaired replica get none.
StartReplication(s, promoted) ==
    LET follows == RoleAtBoot(promoted) = "replica" /\ s.node # NoNode
    IN  /\ pc' = IF follows THEN "wait" ELSE "off"
        /\ pinned' = IF follows THEN s.node ELSE NoNode
        /\ held' = IF follows THEN s.ver ELSE 0
        /\ snap' = EmptySnap(0)
        /\ cancelled' = FALSE

Init ==
    \* A primary has written its settings row, so its version is never zero.
    /\ version = [p \in Primaries |-> 1]
    /\ cfg = [p \in Primaries |-> [t \in Tables |-> 1]]
    /\ rows = [t \in Tables |-> [by |-> Self, ver |-> 0]]
    /\ state = [node |-> NoNode, ver |-> 0]
    /\ promotion = FALSE
    /\ role = "replica"
    /\ served = rows
    /\ pc = "off" /\ pinned = NoNode /\ held = 0
    /\ snap = EmptySnap(0) /\ cancelled = FALSE
    /\ promoting = [c \in Callers |-> "idle"]

\* The process dies at any point and boots again from its database.
Restart ==
    /\ role' = RoleAtBoot(promotion)
    /\ served' = rows
    /\ StartReplication(state, promotion)
    /\ promoting' = [c \in Callers |-> "idle"]
    /\ UNCHANGED <<primaryVars, durableVars>>

----------------------------------------------------------------------------
(* The primary *)

\* One transaction on a primary writes some of the replicated tables; the
\* triggers move config_version with it.
Write(p, ts) ==
    /\ version[p] < MaxVersion[p]
    /\ version' = [version EXCEPT ![p] = @ + 1]
    /\ cfg' = [cfg EXCEPT ![p] =
                  [t \in Tables |-> IF t \in ts THEN version[p] + 1 ELSE @[t]]]
    /\ UNCHANGED <<durableVars, role, served, pullVars, promoting>>

----------------------------------------------------------------------------
(* The pull loop.  One poll is a sequence of steps other actors interleave *)
(* with; an error in any of them ends the poll and the next tick retries.  *)

EndPoll == pc' = "wait" /\ snap' = EmptySnap(0)

\* Mutant: a version one ahead of the held one counts as nothing to pull.
PollVersionSkipsOne ==
    /\ pc = "wait" /\ ~cancelled
    /\ version[pinned] > held + 1
    /\ pc' = "changed"
    /\ UNCHANGED <<primaryVars, durableVars, role, served,
                   pinned, held, snap, cancelled, promoting>>

\* GET /replica/version: equal versions mean there is nothing to pull.
PollVersion ==
    /\ pc = "wait" /\ ~cancelled
    /\ version[pinned] # held
    /\ pc' = "changed"
    /\ UNCHANGED <<primaryVars, durableVars, role, served,
                   pinned, held, snap, cancelled, promoting>>

\* GET /replica/snapshot: the handler reads config_version first ...
SnapshotVersion ==
    /\ pc = "changed" /\ ~cancelled
    /\ snap' = EmptySnap(version[pinned])
    /\ pc' = "reading"
    /\ UNCHANGED <<primaryVars, durableVars, role, served,
                   pinned, held, cancelled, promoting>>

\* Mutant: the version is read again after the last table.
SnapshotReadVersionLast ==
    /\ pc = "reading"
    /\ LET t == ReadOrder[snap.read + 1]
       IN  snap' = [ver  |-> version[pinned],
                    read |-> snap.read + 1,
                    rows |-> [snap.rows EXCEPT ![t] =
                                 [by |-> pinned, ver |-> cfg[pinned][t]]]]
    /\ pc' = IF snap.read + 1 = Len(ReadOrder) THEN "apply" ELSE "reading"
    /\ UNCHANGED <<primaryVars, durableVars, role, served,
                   pinned, held, cancelled, promoting>>

\* ... and then each table in a query of its own.
SnapshotRead ==
    /\ pc = "reading"
    /\ LET t == ReadOrder[snap.read + 1]
       IN  snap' = [ver  |-> snap.ver,
                    read |-> snap.read + 1,
                    rows |-> [snap.rows EXCEPT ![t] =
                                 [by |-> pinned, ver |-> cfg[pinned][t]]]]
    /\ pc' = IF snap.read + 1 = Len(ReadOrder) THEN "apply" ELSE "reading"
    /\ UNCHANGED <<primaryVars, durableVars, role, served,
                   pinned, held, cancelled, promoting>>

\* store.ApplySnapshot: every replicated table is replaced in one transaction.
ApplySnapshot ==
    /\ pc = "apply"
    /\ rows' = snap.rows
    /\ pc' = "settings"
    /\ UNCHANGED <<primaryVars, state, promotion, role, served,
                   pinned, held, snap, cancelled, promoting>>

Publish(t) == served' = [served EXCEPT ![t] = rows[t]]

\* settings.Holder.Rebuild
RebuildSettings ==
    /\ pc = "settings"
    /\ Publish("settings")
    /\ pc' = "live"
    /\ UNCHANGED <<primaryVars, durableVars, role,
                   pinned, held, snap, cancelled, promoting>>

\* liveComponents.Apply ends with zone.Holder.Rebuild; a failed rebuild is
\* logged, the previous zone keeps serving and Apply returns normally.
LiveApply ==
    /\ pc = "live"
    /\ Publish("zone") \/ served' = served
    /\ pc' = "policy"
    /\ UNCHANGED <<primaryVars, durableVars, role,
                   pinned, held, snap, cancelled, promoting>>

\* Mutant: a failed policy rebuild is only logged.
RebuildPolicyLogsError ==
    /\ pc = "policy"
    /\ Publish("policy") \/ served' = served
    /\ pc' = "record"
    /\ UNCHANGED <<primaryVars, durableVars, role,
                   pinned, held, snap, cancelled, promoting>>

\* policy.Holder.Rebuild
RebuildPolicy ==
    /\ pc = "policy"
    /\ Publish("policy")
    /\ pc' = "record"
    /\ UNCHANGED <<primaryVars, durableVars, role,
                   pinned, held, snap, cancelled, promoting>>

\* SetReplicaState with the pin, then synced.
RecordState ==
    /\ pc = "record"
    /\ state' = [node |-> pinned, ver |-> snap.ver]
    /\ held' = snap.ver
    /\ EndPoll
    /\ UNCHANGED <<primaryVars, rows, promotion, role, served,
                   pinned, cancelled, promoting>>

\* The request is refused or lost, the transaction or a rebuild fails, or the
\* bookkeeping write fails: lastVersion stays, so the next tick pulls again.
PollFails ==
    /\ pc \in {"changed", "reading", "apply", "settings", "policy", "record"}
    /\ EndPoll
    /\ UNCHANGED <<primaryVars, durableVars, role, served,
                   pinned, held, cancelled, promoting>>

\* A request made under a cancelled context fails without being sent.
RequestCancelled ==
    /\ pc = "changed" /\ cancelled
    /\ EndPoll
    /\ UNCHANGED <<primaryVars, durableVars, role, served,
                   pinned, held, cancelled, promoting>>

\* Run sees its cancelled context between two polls and returns.
PullExits ==
    /\ pc = "wait" /\ cancelled
    /\ pc' = "off"
    /\ UNCHANGED <<primaryVars, durableVars, role, served,
                   pinned, held, snap, cancelled, promoting>>

----------------------------------------------------------------------------
(* The operator *)

\* Mutant: pairing again with the same primary keeps the version already held.
JoinKeepsVersion(p) ==
    /\ state' = [node |-> p, ver |-> IF state.node = p THEN state.ver ELSE 0]
    /\ promotion' = FALSE
    /\ UNCHANGED <<primaryVars, rows, role, served, pullVars, promoting>>

\* pairingState.SetReplicaState = store.FollowPrimary: the new pin is recorded
\* at version zero and the promotion dropped in one transaction.  Neither the
\* live role nor a running pull loop changes before the next boot.
Join(p) ==
    /\ state' = [node |-> p, ver |-> 0]
    /\ promotion' = FALSE
    /\ UNCHANGED <<primaryVars, rows, role, served, pullVars, promoting>>

\* Promote: its guard.  "Promote is not atomic across its guard": several calls
\* can be past it, and stay past it whatever else happens.
PromoteCheck(c) ==
    /\ promoting[c] = "idle" /\ role = "replica"
    /\ promoting' = [promoting EXCEPT ![c] = "checked"]
    /\ UNCHANGED <<primaryVars, durableVars, role, served, pullVars>>

\* RecordPromotion, and the cancel with which stopPull begins: the loop never
\* looks at the promotion, so a poll it starts between the two is one it could
\* have started before them.
PromoteRecord(c) ==
    /\ promoting[c] = "checked"
    /\ promotion' = TRUE
    /\ cancelled' = TRUE
    /\ promoting' = [promoting EXCEPT ![c] = "stopping"]
    /\ UNCHANGED <<primaryVars, rows, state, role, served,
                   pc, pinned, held, snap>>

\* Mutant: stopPull signals the loop and does not wait for it.
PromoteClearNoWait(c) ==
    /\ promoting[c] = "stopping"
    /\ state' = [node |-> NoNode, ver |-> 0]
    /\ promoting' = [promoting EXCEPT ![c] = "flipping"]
    /\ UNCHANGED <<primaryVars, rows, promotion, role, served, pullVars>>

\* stopPull returned, so the loop has exited; replica_state is cleared.
PromoteClear(c) ==
    /\ promoting[c] = "stopping" /\ pc = "off"
    /\ state' = [node |-> NoNode, ver |-> 0]
    /\ promoting' = [promoting EXCEPT ![c] = "flipping"]
    /\ UNCHANGED <<primaryVars, rows, promotion, role, served, pullVars>>

\* RecordPromotion or SetReplicaState failed: Promote returns its error, the role
\* stays.
PromoteFails(c) ==
    /\ promoting[c] = "checked" \/ (promoting[c] = "stopping" /\ pc = "off")
    /\ promoting' = [promoting EXCEPT ![c] = "idle"]
    /\ UNCHANGED <<primaryVars, durableVars, role, served, pullVars>>

\* role.Set(RolePrimary): the write gates let writes through from here on.
PromoteFlip(c) ==
    /\ promoting[c] = "flipping"
    /\ role' = "primary"
    /\ promoting' = [promoting EXCEPT ![c] = "idle"]
    /\ UNCHANGED <<primaryVars, durableVars, served, pullVars>>

\* A configuration change made on this node.  WriteGate refuses it on a
\* replica; the handler rebuilds what is served from the table it wrote.
LocalWrite(t) ==
    /\ role # "replica"
    /\ rows' = [rows EXCEPT ![t] = [by |-> Self, ver |-> 1]]
    /\ served' = [served EXCEPT ![t] = [by |-> Self, ver |-> 1]]
    /\ UNCHANGED <<primaryVars, state, promotion, role, pullVars, promoting>>

----------------------------------------------------------------------------
Poll ==
    \/ PollVersion \/ SnapshotVersion \/ SnapshotRead
    \/ ApplySnapshot \/ RebuildSettings \/ LiveApply \/ RebuildPolicy
    \/ RecordState \/ RequestCancelled \/ PullExits

Promote == \E c \in Callers :
    \/ PromoteCheck(c) \/ PromoteRecord(c) \/ PromoteClear(c)
    \/ PromoteFails(c) \/ PromoteFlip(c)

Next ==
    \/ \E p \in Primaries, ts \in SUBSET Tables \ {{}} : Write(p, ts)
    \/ Poll \/ PollFails
    \/ \E p \in Primaries : Join(p)
    \/ Promote
    \/ \E t \in Tables : LocalWrite(t)
    \/ Restart

Spec == Init /\ [][Next]_vars

\* The pull loop has its own goroutine and timer: it is never starved.
FairSpec == Spec /\ WF_vars(Poll)

----------------------------------------------------------------------------
(* Properties *)

TypeOK ==
    /\ version \in [Primaries -> Nat]
    /\ cfg \in [Primaries -> [Tables -> Nat]]
    /\ rows \in [Tables -> Content]
    /\ served \in [Tables -> Content]
    /\ state \in [node : Primaries \cup {NoNode}, ver : Nat]
    /\ promotion \in BOOLEAN
    /\ role \in {"replica", "primary"}
    /\ pc \in {"off", "wait", "changed", "reading", "apply", "settings",
               "live", "policy", "record"}
    /\ pinned \in Primaries \cup {NoNode}
    /\ held \in Nat
    /\ snap \in [ver : Nat, read : 0 .. 3, rows : [Tables -> Content]]
    /\ cancelled \in BOOLEAN
    /\ promoting \in [Callers -> {"idle", "checked", "stopping", "flipping"}]

\* The contents c hold what primary p had at version v: every table p has not
\* written since is exactly p's.
Covers(c, p, v, ts) ==
    \A t \in ts : cfg[p][t] <= v => c[t] = [by |-> p, ver |-> cfg[p][t]]

\* A node that would boot as a replica of p at version v really holds p's
\* configuration of version v: otherwise the equal version numbers of the next
\* poll would make it stop asking for the rest.  This is what Snapshot's
\* version-first order, the retry after a failed apply, and FollowPrimary's
\* single transaction are for.
StateCovers ==
    ~promotion /\ state.node # NoNode =>
        Covers(rows, state.node, state.ver, Tables)

\* The version a running pull loop reports as held is being served, as far as
\* the settings and the policy go: their rebuild errors fail the apply.
ServesHeld ==
    pc # "off" => Covers(served, pinned, held, {"settings", "policy"})

\* Once this node accepts writes, no pull overwrites them: only its own writes
\* change its rows until it boots as a replica again.
NoPullOverPrimary ==
    [][role = "primary" =>
          \A t \in Tables : rows'[t] # rows[t] => rows'[t].by = Self]_vars

\* What Follower says of a node, for this one: its database is the content, its
\* replica_state row the claim, its live role whether it accepts writes.
F == INSTANCE Follower WITH
        content  <- rows,
        claim    <- state,
        promoted <- promotion,
        writable <- role = "primary"

\* Every step of the pull loop, the snapshot handler, a promotion and a boot is
\* one of Follower's or changes nothing it sees: a poll installs a whole
\* configuration and claims it afterwards, never an older one over a newer, and
\* never on a node that accepts writes.
Refines == F!Spec

(***************************************************************************)
(* The inductive invariant behind StateCovers, ServesHeld and              *)
(* NoPullOverPrimary.                                                      *)
(***************************************************************************)

\* A primary's tables were written at versions it has reached.
CfgOK == \A p \in Primaries, t \in Tables : cfg[p][t] \in 1 .. version[p]

\* Only a replica pulls, and a promotion past its wait has no loop left.
RoleOK ==
    /\ pc # "off" => role = "replica" /\ pinned \in Primaries
    /\ \A c \in Callers : promoting[c] = "flipping" => pc = "off" /\ state.ver = 0

\* A recorded version is one its primary reached; a pin that is not the running
\* loop's, and the row of a joined but still live primary, are at version zero.
StateOK ==
    /\ state.node # NoNode => state.ver <= version[state.node]
    /\ state.node = NoNode => state.ver = 0
    /\ pc # "off" /\ state.node # pinned => state.ver = 0
    /\ role = "primary" /\ ~promotion => state.ver = 0

\* The tables a snapshot has read so far.
ReadSet(n) == {ReadOrder[i] : i \in 1 .. n}

\* Steps of a poll that hold a complete snapshot, and those past its commit.
Complete == {"apply", "settings", "live", "policy", "record"}
Committed == {"settings", "live", "policy", "record"}

\* The snapshot in flight is at least as new as what is recorded and held, and
\* what it has read covers the version it carries.
SnapOK ==
    /\ pc # "off" => held <= version[pinned]
    /\ pc = "reading" => snap.read < 3
    /\ pc \in Complete => snap.read = 3
    /\ pc \in Complete \cup {"reading"} =>
          /\ snap.ver <= version[pinned]
          /\ held <= snap.ver
          /\ state.node = pinned => state.ver <= snap.ver
          /\ Covers(snap.rows, pinned, snap.ver, ReadSet(snap.read))
    /\ pc \in Committed => rows = snap.rows

\* What has been republished by the apply in progress covers its version.
PublishOK ==
    /\ pc \in {"live", "policy", "record"} =>
          Covers(served, pinned, snap.ver, {"settings"})
    /\ pc = "record" => Covers(served, pinned, snap.ver, {"policy"})

\* Every reachable state of a following node satisfies all of them; together
\* they are preserved by every step.
IndInv ==
    /\ TypeOK /\ CfgOK /\ RoleOK /\ StateOK /\ SnapOK /\ PublishOK
    /\ StateCovers /\ ServesHeld

\* What pull and serve have in common with the primary once it is quiet.
InSync ==
    \/ pc = "off"
    \/ /\ held = version[pinned]
       /\ rows = [t \in Tables |-> [by |-> pinned, ver |-> cfg[pinned][t]]]
       /\ \A t \in {"settings", "policy"} : served[t] = rows[t]

\* What the operator and the environment do to the node.
Disturbance ==
    PollFails \/ Promote \/ Restart \/ (\E p \in Primaries : Join(p))

\* Whatever happened before, torn snapshots and half-done applies included: once
\* polls stop failing and the operator leaves the node alone, it ends up holding
\* and serving its primary's configuration.
Convergence == <>[][~Disturbance]_vars => <>[]InSync

----------------------------------------------------------------------------
(* What the code's comments and the README promise and the code does not keep *)

\* "Rows nothing has read are not replication" (app/replication.go): the zone,
\* too, is served at the version the loop reports as held.
ZoneServesHeld == pc # "off" => Covers(served, pinned, held, {"zone"})

\* "a primary held for one poll must not be able to leave its own key pinned
\* behind it" (replica/puller.go): the pin changes only by pairing or promotion,
\* both of which reset the version.
PinOnlyByOperator == [][state'.node # state.node => state'.ver = 0]_vars

\* "the second call costs a redundant write and changes nothing"
\* (app/replication.go): a call that passed the guard before another one finished
\* writes nothing new on the primary the node has become, so it does not undo a
\* join made in between.
SecondPromoteIdle ==
    [][role = "primary" => /\ promotion' => promotion
                           /\ state'.node = NoNode => state.node = NoNode]_vars

\* "a promoted node comes back a primary at every later start" (README), or, when
\* it was joined to a primary since, as that primary's replica: never as a
\* replica of nobody.
NeverStranded == role = "primary" => promotion \/ state.node # NoNode
=============================================================================
