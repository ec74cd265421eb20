-------------------------- MODULE ReplicationProofs --------------------------
(***************************************************************************)
(* Replication for every set of primaries, every number of concurrent      *)
(* promotions and every bound on the versions.  The safety properties are  *)
(* not inductive by themselves: StateCovers needs to know that a snapshot  *)
(* in flight is complete and at least as new as what is recorded (SnapOK), *)
(* that a pin other than the running loop's is at version zero (StateOK),  *)
(* and that a promotion past its wait has no loop left (RoleOK).  IndInv   *)
(* is their conjunction; one lemma per action shows that it is preserved.  *)
(***************************************************************************)
EXTENDS Replication, TLAPS

\* A snapshot that made its three reads has read every replicated table.
LEMMA ReadAll == ReadSet(3) = Tables
BY DEF ReadSet, ReadOrder, Tables

\* A snapshot in flight has read replicated tables only.
LEMMA ReadSome == \A n \in 0 .. 3 : ReadSet(n) \subseteq Tables
BY DEF ReadSet, ReadOrder, Tables

\* A transaction on a primary: it may be any primary, and land between any two
\* reads of a snapshot; a table it writes is newer than every version recorded.
LEMMA WriteStep ==
    ASSUME IndInv, NEW p \in Primaries, NEW ts \in SUBSET Tables, Write(p, ts)
    PROVE  IndInv'
<1> USE NodesAssumption DEF IndInv, Tables, primaryVars, durableVars, pullVars
<1>1. TypeOK' BY DEF Write, TypeOK
<1>2. CfgOK' BY DEF Write, CfgOK, TypeOK
<1>3. RoleOK' BY DEF Write, RoleOK
<1>4. StateOK' BY DEF Write, StateOK, TypeOK
<1>5. SnapOK'
  <2>1. version[p] < version'[p] /\ \A q \in Primaries : version[q] <= version'[q]
    BY DEF Write, TypeOK
  <2>2. ASSUME pc \in Complete \cup {"reading"}, NEW t \in ReadSet(snap.read), cfg'[pinned][t] <= snap.ver
        PROVE  snap.rows[t] = [by |-> pinned, ver |-> cfg'[pinned][t]]
    <3>1. t \in Tables /\ pinned \in Primaries
      BY <2>2, ReadSome DEF TypeOK, RoleOK, Complete
    <3>2. cfg'[pinned][t] = cfg[pinned][t]
      BY <2>2, <3>1 DEF Write, TypeOK, SnapOK, Complete
    <3> QED BY <2>2, <3>1, <3>2 DEF SnapOK, Covers
  <2>3. pc \in Complete \cup {"reading"} => Covers(snap.rows, pinned, snap.ver, ReadSet(snap.read))'
    BY <2>2 DEF Covers, Write, ReadSet
  <2>4. UNCHANGED <<pc, pinned, held, snap, rows, state>> BY DEF Write
  <2>5. pc # "off" => pinned \in Primaries BY DEF RoleOK
  <2>6. pc # "off" => version[pinned] <= version'[pinned] /\ version[pinned] \in Nat /\ version'[pinned] \in Nat BY <2>1, <2>5 DEF TypeOK, Write
  <2>7. (pc # "off" => held <= version[pinned])' BY <2>4, <2>6 DEF SnapOK, TypeOK
  <2>8. (pc \in Complete \cup {"reading"} => snap.ver <= version[pinned])' BY <2>4, <2>6 DEF SnapOK, TypeOK, Complete
  <2> HIDE DEF Tables
  <2> QED BY <2>3, <2>4, <2>7, <2>8 DEF SnapOK, Complete, Committed
<1>6. PublishOK' BY DEF Write, PublishOK, SnapOK, TypeOK, Covers, Complete
<1>7. StateCovers' BY DEF Write, StateCovers, StateOK, TypeOK, Covers
<1>8. ServesHeld' BY DEF Write, ServesHeld, SnapOK, TypeOK, Covers
<1> QED BY <1>1, <1>2, <1>3, <1>4, <1>5, <1>6, <1>7, <1>8

\* The version request changes nothing but where the loop is.
LEMMA PollVersionStep == ASSUME IndInv, PollVersion PROVE IndInv'
<1> USE NodesAssumption DEF IndInv, Tables, primaryVars, durableVars, pullVars
<1>1. TypeOK' BY DEF PollVersion, TypeOK
<1>2. CfgOK' BY DEF PollVersion, CfgOK
<1>3. RoleOK' BY DEF PollVersion, RoleOK
<1>4. StateOK' BY DEF PollVersion, StateOK
<1>5. SnapOK' BY DEF PollVersion, SnapOK, Complete, Committed
<1>6. PublishOK' BY DEF PollVersion, PublishOK
<1>7. StateCovers' BY DEF PollVersion, StateCovers, Covers
<1>8. ServesHeld' BY DEF PollVersion, ServesHeld, Covers
<1> QED BY <1>1, <1>2, <1>3, <1>4, <1>5, <1>6, <1>7, <1>8

\* The snapshot handler reads the version: the snapshot is at least as new as
\* what is held and recorded, and has read nothing yet.
LEMMA SnapshotVersionStep == ASSUME IndInv, SnapshotVersion PROVE IndInv'
<1> USE NodesAssumption DEF IndInv, Tables, primaryVars, durableVars, pullVars
<1>1. TypeOK' BY DEF SnapshotVersion, EmptySnap, TypeOK, Content, RoleOK
<1>2. CfgOK' BY DEF SnapshotVersion, CfgOK
<1>3. RoleOK' BY DEF SnapshotVersion, RoleOK
<1>4. StateOK' BY DEF SnapshotVersion, StateOK
<1>5. SnapOK' BY DEF SnapshotVersion, EmptySnap, SnapOK, TypeOK, RoleOK, StateOK, Covers, ReadSet, Complete, Committed
<1>6. PublishOK' BY DEF SnapshotVersion, PublishOK
<1>7. StateCovers' BY DEF SnapshotVersion, StateCovers, Covers
<1>8. ServesHeld' BY DEF SnapshotVersion, ServesHeld, Covers
<1> QED BY <1>1, <1>2, <1>3, <1>4, <1>5, <1>6, <1>7, <1>8

\* Reading a table after the version: what it reads covers that version.
LEMMA SnapshotReadStep == ASSUME IndInv, SnapshotRead PROVE IndInv'
<1> USE NodesAssumption DEF IndInv, Tables, primaryVars, durableVars, pullVars
<1>1. TypeOK' BY DEF SnapshotRead, ReadOrder, TypeOK, Content, RoleOK, SnapOK
<1>2. CfgOK' BY DEF SnapshotRead, CfgOK
<1>3. RoleOK' BY DEF SnapshotRead, RoleOK
<1>4. StateOK' BY DEF SnapshotRead, StateOK
<1>5. SnapOK' BY DEF SnapshotRead, ReadOrder, SnapOK, TypeOK, Covers, ReadSet, Committed
<1>6. PublishOK' BY DEF SnapshotRead, PublishOK
<1>7. StateCovers' BY DEF SnapshotRead, StateCovers, Covers
<1>8. ServesHeld' BY DEF SnapshotRead, ServesHeld, Covers
<1> QED BY <1>1, <1>2, <1>3, <1>4, <1>5, <1>6, <1>7, <1>8

\* The commit of a complete snapshot: the rows now cover the snapshot's version,
\* and so the older one recorded.
LEMMA ApplySnapshotStep == ASSUME IndInv, ApplySnapshot PROVE IndInv'
<1> USE NodesAssumption DEF IndInv, Tables, primaryVars, durableVars, pullVars
<1>1. TypeOK' BY DEF ApplySnapshot, TypeOK
<1>2. CfgOK' BY DEF ApplySnapshot, CfgOK
<1>3. RoleOK' BY DEF ApplySnapshot, RoleOK
<1>4. StateOK' BY DEF ApplySnapshot, StateOK
<1>5. SnapOK' BY DEF ApplySnapshot, SnapOK, Covers, Complete
<1>6. PublishOK' BY DEF ApplySnapshot, PublishOK
<1>7. StateCovers' BY DEF ApplySnapshot, StateCovers, SnapOK, StateOK, CfgOK, TypeOK, Covers, Complete, ReadSet, ReadOrder
<1>8. ServesHeld' BY DEF ApplySnapshot, ServesHeld, Covers
<1> QED BY <1>1, <1>2, <1>3, <1>4, <1>5, <1>6, <1>7, <1>8

\* Republishing the settings from the committed rows.
LEMMA RebuildSettingsStep == ASSUME IndInv, RebuildSettings PROVE IndInv'
<1> USE NodesAssumption DEF IndInv, Tables, primaryVars, durableVars, pullVars
<1>1. TypeOK' BY DEF RebuildSettings, Publish, TypeOK
<1>2. CfgOK' BY DEF RebuildSettings, CfgOK
<1>3. RoleOK' BY DEF RebuildSettings, RoleOK
<1>4. StateOK' BY DEF RebuildSettings, StateOK
<1>5. SnapOK' BY DEF RebuildSettings, SnapOK, Covers, Complete, Committed
<1>6. PublishOK' 
  BY ReadAll DEF RebuildSettings, Publish, PublishOK, SnapOK, TypeOK, RoleOK, Covers, Complete, Committed
<1>7. StateCovers' BY DEF RebuildSettings, StateCovers, Covers
<1>8. ServesHeld' BY DEF RebuildSettings, Publish, ServesHeld, SnapOK, RoleOK, TypeOK, Covers, Complete, Committed, ReadSet, ReadOrder
<1> QED BY <1>1, <1>2, <1>3, <1>4, <1>5, <1>6, <1>7, <1>8

\* Republishing the zone, or failing to: neither is part of what is recorded.
LEMMA LiveApplyStep == ASSUME IndInv, LiveApply PROVE IndInv'
<1> USE NodesAssumption DEF IndInv, Tables, primaryVars, durableVars, pullVars
<1>1. TypeOK' BY DEF LiveApply, Publish, TypeOK
<1>2. CfgOK' BY DEF LiveApply, CfgOK
<1>3. RoleOK' BY DEF LiveApply, RoleOK
<1>4. StateOK' BY DEF LiveApply, StateOK
<1>5. SnapOK' BY DEF LiveApply, SnapOK, Covers, Complete, Committed
<1>6. PublishOK' BY DEF LiveApply, Publish, PublishOK, TypeOK, Covers
<1>7. StateCovers' BY DEF LiveApply, StateCovers, Covers
<1>8. ServesHeld' BY DEF LiveApply, Publish, ServesHeld, TypeOK, Covers
<1> QED BY <1>1, <1>2, <1>3, <1>4, <1>5, <1>6, <1>7, <1>8

\* Republishing the policy from the committed rows.
LEMMA RebuildPolicyStep == ASSUME IndInv, RebuildPolicy PROVE IndInv'
<1> USE NodesAssumption DEF IndInv, Tables, primaryVars, durableVars, pullVars
<1>1. TypeOK' BY DEF RebuildPolicy, Publish, TypeOK
<1>2. CfgOK' BY DEF RebuildPolicy, CfgOK
<1>3. RoleOK' BY DEF RebuildPolicy, RoleOK
<1>4. StateOK' BY DEF RebuildPolicy, StateOK
<1>5. SnapOK' BY DEF RebuildPolicy, SnapOK, Covers, Complete, Committed
<1>6. PublishOK' 
  BY ReadAll DEF RebuildPolicy, Publish, PublishOK, SnapOK, TypeOK, RoleOK, Covers, Complete, Committed
<1>7. StateCovers' BY DEF RebuildPolicy, StateCovers, Covers
<1>8. ServesHeld' BY DEF RebuildPolicy, Publish, ServesHeld, SnapOK, RoleOK, TypeOK, Covers, Complete, Committed, ReadSet, ReadOrder
<1> QED BY <1>1, <1>2, <1>3, <1>4, <1>5, <1>6, <1>7, <1>8

\* Recording the version: rows and holders already cover it.
LEMMA RecordStateStep == ASSUME IndInv, RecordState PROVE IndInv'
<1> USE NodesAssumption DEF IndInv, Tables, primaryVars, durableVars, pullVars
<1>1. TypeOK' BY DEF RecordState, EndPoll, EmptySnap, TypeOK, Content
<1>2. CfgOK' BY DEF RecordState, CfgOK
<1>3. RoleOK' BY DEF RecordState, RoleOK
<1>4. StateOK' BY DEF RecordState, StateOK, RoleOK, SnapOK, Complete
<1>5. SnapOK' BY DEF RecordState, EndPoll, SnapOK, Complete, Committed
<1>6. PublishOK' BY DEF RecordState, EndPoll, PublishOK
<1>7. StateCovers' BY DEF RecordState, StateCovers, SnapOK, Covers, Complete, Committed, ReadSet, ReadOrder
<1>8. ServesHeld' BY DEF RecordState, ServesHeld, PublishOK, Covers
<1> QED BY <1>1, <1>2, <1>3, <1>4, <1>5, <1>6, <1>7, <1>8

\* A poll that fails leaves the older version recorded and held.
LEMMA PollFailsStep == ASSUME IndInv, PollFails PROVE IndInv'
<1> USE NodesAssumption DEF IndInv, Tables, primaryVars, durableVars, pullVars
<1>1. TypeOK' BY DEF PollFails, EndPoll, EmptySnap, TypeOK, Content
<1>2. CfgOK' BY DEF PollFails, CfgOK
<1>3. RoleOK' BY DEF PollFails, RoleOK
<1>4. StateOK' BY DEF PollFails, StateOK
<1>5. SnapOK' BY DEF PollFails, EndPoll, SnapOK, Complete, Committed
<1>6. PublishOK' BY DEF PollFails, EndPoll, PublishOK
<1>7. StateCovers' BY DEF PollFails, StateCovers, Covers
<1>8. ServesHeld' BY DEF PollFails, ServesHeld, Covers
<1> QED BY <1>1, <1>2, <1>3, <1>4, <1>5, <1>6, <1>7, <1>8

\* A cancelled request ends the poll.
LEMMA RequestCancelledStep == ASSUME IndInv, RequestCancelled PROVE IndInv'
<1> USE NodesAssumption DEF IndInv, Tables, primaryVars, durableVars, pullVars
<1>1. TypeOK' BY DEF RequestCancelled, EndPoll, EmptySnap, TypeOK, Content
<1>2. CfgOK' BY DEF RequestCancelled, CfgOK
<1>3. RoleOK' BY DEF RequestCancelled, RoleOK
<1>4. StateOK' BY DEF RequestCancelled, StateOK
<1>5. SnapOK' BY DEF RequestCancelled, EndPoll, SnapOK, Complete, Committed
<1>6. PublishOK' BY DEF RequestCancelled, EndPoll, PublishOK
<1>7. StateCovers' BY DEF RequestCancelled, StateCovers, Covers
<1>8. ServesHeld' BY DEF RequestCancelled, ServesHeld, Covers
<1> QED BY <1>1, <1>2, <1>3, <1>4, <1>5, <1>6, <1>7, <1>8

\* The loop returns: nothing that is recorded changes.
LEMMA PullExitsStep == ASSUME IndInv, PullExits PROVE IndInv'
<1> USE NodesAssumption DEF IndInv, Tables, primaryVars, durableVars, pullVars
<1>1. TypeOK' BY DEF PullExits, TypeOK
<1>2. CfgOK' BY DEF PullExits, CfgOK
<1>3. RoleOK' BY DEF PullExits, RoleOK
<1>4. StateOK' BY DEF PullExits, StateOK
<1>5. SnapOK' BY DEF PullExits, SnapOK, Complete, Committed
<1>6. PublishOK' BY DEF PullExits, PublishOK
<1>7. StateCovers' BY DEF PullExits, StateCovers, Covers
<1>8. ServesHeld' BY DEF PullExits, ServesHeld
<1> QED BY <1>1, <1>2, <1>3, <1>4, <1>5, <1>6, <1>7, <1>8

\* Joining records the new pin at version zero, which every content covers.
LEMMA JoinStep == ASSUME IndInv, NEW p \in Primaries, Join(p) PROVE IndInv'
<1> USE NodesAssumption DEF IndInv, Tables, primaryVars, durableVars, pullVars
<1>1. TypeOK' BY DEF Join, TypeOK
<1>2. CfgOK' BY DEF Join, CfgOK
<1>3. RoleOK' BY DEF Join, RoleOK
<1>4. StateOK' BY DEF Join, StateOK, TypeOK
<1>5. SnapOK' BY DEF Join, SnapOK, TypeOK, Covers
<1>6. PublishOK' BY DEF Join, PublishOK, Covers
<1>7. StateCovers' BY DEF Join, StateCovers, CfgOK, Covers
<1>8. ServesHeld' BY DEF Join, ServesHeld, Covers
<1> QED BY <1>1, <1>2, <1>3, <1>4, <1>5, <1>6, <1>7, <1>8

\* Passing Promote's guard changes nothing but where the call is.
LEMMA PromoteCheckStep ==
    ASSUME IndInv, NEW c \in Callers, PromoteCheck(c)
    PROVE  IndInv'
<1> USE NodesAssumption DEF IndInv, Tables, primaryVars, durableVars, pullVars
<1>1. TypeOK' BY DEF PromoteCheck, TypeOK
<1>2. CfgOK' BY DEF PromoteCheck, CfgOK
<1>3. RoleOK' BY DEF PromoteCheck, RoleOK
<1>4. StateOK' BY DEF PromoteCheck, StateOK
<1>5. SnapOK' BY DEF PromoteCheck, SnapOK, Covers
<1>6. PublishOK' BY DEF PromoteCheck, PublishOK, Covers
<1>7. StateCovers' BY DEF PromoteCheck, StateCovers, Covers
<1>8. ServesHeld' BY DEF PromoteCheck, ServesHeld, Covers
<1> QED BY <1>1, <1>2, <1>3, <1>4, <1>5, <1>6, <1>7, <1>8

\* Recording a promotion, perhaps long after the guard: the next boot will not
\* follow anyone.
LEMMA PromoteRecordStep ==
    ASSUME IndInv, NEW c \in Callers, PromoteRecord(c)
    PROVE  IndInv'
<1> USE NodesAssumption DEF IndInv, Tables, primaryVars, durableVars, pullVars
<1>1. TypeOK' BY DEF PromoteRecord, TypeOK
<1>2. CfgOK' BY DEF PromoteRecord, CfgOK
<1>3. RoleOK' BY DEF PromoteRecord, RoleOK
<1>4. StateOK' BY DEF PromoteRecord, StateOK
<1>5. SnapOK' BY DEF PromoteRecord, SnapOK, Covers
<1>6. PublishOK' BY DEF PromoteRecord, PublishOK, Covers
<1>7. StateCovers' BY DEF PromoteRecord, StateCovers
<1>8. ServesHeld' BY DEF PromoteRecord, ServesHeld, Covers
<1> QED BY <1>1, <1>2, <1>3, <1>4, <1>5, <1>6, <1>7, <1>8

\* Clearing the pin once the loop has exited.
LEMMA PromoteClearStep == ASSUME IndInv, NEW c \in Callers, PromoteClear(c) PROVE IndInv'
<1> USE NodesAssumption DEF IndInv, Tables, primaryVars, durableVars, pullVars
<1>1. TypeOK' BY DEF PromoteClear, TypeOK
<1>2. CfgOK' BY DEF PromoteClear, CfgOK
<1>3. RoleOK' BY DEF PromoteClear, RoleOK
<1>4. StateOK' BY DEF PromoteClear, StateOK
<1>5. SnapOK' BY DEF PromoteClear, SnapOK, Complete
<1>6. PublishOK' BY DEF PromoteClear, PublishOK
<1>7. StateCovers' BY DEF PromoteClear, StateCovers
<1>8. ServesHeld' BY DEF PromoteClear, ServesHeld
<1> QED BY <1>1, <1>2, <1>3, <1>4, <1>5, <1>6, <1>7, <1>8

\* A promotion that could not be recorded, or could not clear the pin.
LEMMA PromoteFailsStep == ASSUME IndInv, NEW c \in Callers, PromoteFails(c) PROVE IndInv'
<1> USE NodesAssumption DEF IndInv, Tables, primaryVars, durableVars, pullVars
<1>1. TypeOK' BY DEF PromoteFails, TypeOK
<1>2. CfgOK' BY DEF PromoteFails, CfgOK
<1>3. RoleOK' BY DEF PromoteFails, RoleOK
<1>4. StateOK' BY DEF PromoteFails, StateOK
<1>5. SnapOK' BY DEF PromoteFails, SnapOK, Covers
<1>6. PublishOK' BY DEF PromoteFails, PublishOK, Covers
<1>7. StateCovers' BY DEF PromoteFails, StateCovers, Covers
<1>8. ServesHeld' BY DEF PromoteFails, ServesHeld, Covers
<1> QED BY <1>1, <1>2, <1>3, <1>4, <1>5, <1>6, <1>7, <1>8

\* The role flips only when no loop is left.
LEMMA PromoteFlipStep == ASSUME IndInv, NEW c \in Callers, PromoteFlip(c) PROVE IndInv'
<1> USE NodesAssumption DEF IndInv, Tables, primaryVars, durableVars, pullVars
<1>1. TypeOK' BY DEF PromoteFlip, TypeOK
<1>2. CfgOK' BY DEF PromoteFlip, CfgOK
<1>3. RoleOK' BY DEF PromoteFlip, RoleOK
<1>4. StateOK' BY DEF PromoteFlip, StateOK, RoleOK
<1>5. SnapOK' BY DEF PromoteFlip, SnapOK, Covers
<1>6. PublishOK' BY DEF PromoteFlip, PublishOK, Covers
<1>7. StateCovers' BY DEF PromoteFlip, StateCovers, Covers
<1>8. ServesHeld' BY DEF PromoteFlip, ServesHeld, Covers
<1> QED BY <1>1, <1>2, <1>3, <1>4, <1>5, <1>6, <1>7, <1>8

\* A write on a primary: no loop is running, and a pin it was joined to is at
\* version zero.
LEMMA LocalWriteStep == ASSUME IndInv, NEW u \in Tables, LocalWrite(u) PROVE IndInv'
<1> USE NodesAssumption DEF IndInv, Tables, primaryVars, durableVars, pullVars
<1>1. TypeOK' BY DEF LocalWrite, TypeOK, Content
<1>2. CfgOK' BY DEF LocalWrite, CfgOK
<1>3. RoleOK' BY DEF LocalWrite, RoleOK
<1>4. StateOK' BY DEF LocalWrite, StateOK
<1>5. SnapOK' BY DEF LocalWrite, SnapOK, RoleOK, Complete, Committed
<1>6. PublishOK' BY DEF LocalWrite, PublishOK, RoleOK
<1>7. StateCovers' BY DEF LocalWrite, StateCovers, StateOK, CfgOK, TypeOK, Covers
<1>8. ServesHeld' BY DEF LocalWrite, ServesHeld, RoleOK
<1> QED BY <1>1, <1>2, <1>3, <1>4, <1>5, <1>6, <1>7, <1>8

\* A boot adopts the recorded version and serves the stored rows.
LEMMA RestartStep == ASSUME IndInv, Restart PROVE IndInv'
<1> USE NodesAssumption DEF IndInv, Tables, primaryVars, durableVars, pullVars
<1>1. TypeOK' 
  <2>1. EmptySnap(0) \in [ver : Nat, read : 0 .. 3, rows : [Tables -> Content]]
    BY DEF EmptySnap, Content
  <2> HIDE DEF Tables
  <2> QED BY <2>1 DEF Restart, StartReplication, RoleAtBoot, TypeOK
<1>2. CfgOK' BY DEF Restart, CfgOK
<1>3. RoleOK' BY DEF Restart, StartReplication, RoleOK, TypeOK
<1>4. StateOK' BY DEF Restart, StartReplication, RoleAtBoot, StateOK
<1>5. SnapOK' BY DEF Restart, StartReplication, SnapOK, StateOK, Complete, Committed
<1>6. PublishOK' BY DEF Restart, StartReplication, PublishOK
<1>7. StateCovers' BY DEF Restart, StateCovers, Covers
<1>8. ServesHeld' BY DEF Restart, StartReplication, RoleAtBoot, ServesHeld, StateCovers, Covers
<1> QED BY <1>1, <1>2, <1>3, <1>4, <1>5, <1>6, <1>7, <1>8

----------------------------------------------------------------------------
\* A fresh node follows nobody, and every table of a primary was written at
\* version one.
LEMMA InitIndInv == Init => IndInv
<1> SUFFICES ASSUME Init PROVE IndInv
  OBVIOUS
<1> USE NodesAssumption DEF Init, EmptySnap
<1>1. TypeOK
  <2>1. [t \in Tables |-> [by |-> Self, ver |-> 0]] \in [Tables -> Content] BY DEF Content
  <2>2. rows \in [Tables -> Content] /\ served \in [Tables -> Content] BY <2>1
  <2>3. snap \in [ver : Nat, read : 0 .. 3, rows : [Tables -> Content]] BY <2>1
  <2>4. version \in [Primaries -> Nat] /\ cfg \in [Primaries -> [Tables -> Nat]] OBVIOUS
  <2>5. promoting \in [Callers -> {"idle", "checked", "stopping", "flipping"}] OBVIOUS
  <2> QED BY <2>2, <2>3, <2>4, <2>5 DEF TypeOK
<1>2. CfgOK BY DEF CfgOK
<1>3. RoleOK /\ StateOK /\ SnapOK /\ PublishOK
  BY DEF RoleOK, StateOK, SnapOK, PublishOK, Complete, Committed
<1>4. StateCovers /\ ServesHeld BY DEF StateCovers, ServesHeld
<1> QED BY <1>1, <1>2, <1>3, <1>4 DEF IndInv

\* Every step of the node, its primaries and its operator preserves IndInv.
LEMMA NextIndInv == IndInv /\ [Next]_vars => IndInv'
<1> SUFFICES ASSUME IndInv, [Next]_vars PROVE IndInv'
  OBVIOUS
<1>1. ASSUME NEW p \in Primaries, NEW ts \in SUBSET Tables \ {{}}, Write(p, ts) PROVE IndInv'
  BY <1>1, WriteStep
<1>2. CASE Poll
  BY <1>2, PollVersionStep, SnapshotVersionStep, SnapshotReadStep, ApplySnapshotStep,
     RebuildSettingsStep, LiveApplyStep, RebuildPolicyStep, RecordStateStep,
     RequestCancelledStep, PullExitsStep DEF Poll
<1>3. CASE PollFails BY <1>3, PollFailsStep
<1>4. ASSUME NEW p \in Primaries, Join(p) PROVE IndInv'
  BY <1>4, JoinStep
<1>5. CASE Promote
  BY <1>5, PromoteCheckStep, PromoteRecordStep, PromoteClearStep,
     PromoteFailsStep, PromoteFlipStep DEF Promote
<1>6. ASSUME NEW t \in Tables, LocalWrite(t) PROVE IndInv'
  BY <1>6, LocalWriteStep
<1>7. CASE Restart BY <1>7, RestartStep
<1>8. CASE UNCHANGED vars
  <2> USE <1>8 DEF vars
  <2>1. TypeOK' /\ CfgOK' /\ RoleOK' /\ StateOK' BY DEF IndInv, TypeOK, CfgOK, RoleOK, StateOK
  <2>2. SnapOK' /\ PublishOK' BY DEF IndInv, SnapOK, PublishOK, Covers
  <2>3. StateCovers' /\ ServesHeld' BY DEF IndInv, StateCovers, ServesHeld, Covers
  <2> QED BY <2>1, <2>2, <2>3 DEF IndInv
<1> QED BY <1>1, <1>2, <1>3, <1>4, <1>5, <1>6, <1>7, <1>8 DEF Next

\* Every reachable state satisfies the inductive invariant, its type invariant
\* included.
THEOREM Inductive == Spec => []IndInv
<1> QED BY InitIndInv, NextIndInv, PTL DEF Spec

\* A node that boots as a replica of p at version v holds p's configuration of
\* version v, however torn its snapshots and wherever it crashed: the version-first
\* read of storeSource.Snapshot is sound.
THEOREM RecordedVersionIsHeld == Spec => []StateCovers
<1>1. IndInv => StateCovers BY DEF IndInv
<1> QED BY <1>1, Inductive, PTL

\* The version a pull loop reports as held is the one its settings and policy
\* holders serve: replicaApplier.Apply fails when either rebuild does.
THEOREM HeldVersionIsServed == Spec => []ServesHeld
<1>1. IndInv => ServesHeld BY DEF IndInv
<1> QED BY <1>1, Inductive, PTL

\* Only a primary's own writes change a primary's rows: Promote waits for the pull
\* loop to exit before it flips the role.
THEOREM PromotedNodeIsNotPulledOver == Spec => NoPullOverPrimary
<1> DEFINE Own == role = "primary" =>
                    \A t \in Tables : rows'[t] # rows[t] => rows'[t].by = Self
<1>1. IndInv /\ [Next]_vars => [Own]_vars
  <2> SUFFICES ASSUME IndInv, Next, role = "primary", NEW t \in Tables, rows'[t] # rows[t]
               PROVE  rows'[t].by = Self
    OBVIOUS
  <2>1. pc = "off" BY DEF IndInv, RoleOK
  <2>2. ~ApplySnapshot BY <2>1 DEF ApplySnapshot
  <2>3. PICK u \in Tables : LocalWrite(u)
    BY <2>2 DEF Next, Write, Poll, PollVersion, SnapshotVersion, SnapshotRead,
       RebuildSettings, LiveApply, RebuildPolicy, RecordState, RequestCancelled, PullExits,
       PollFails, Join, Promote, PromoteCheck, PromoteRecord, PromoteClear,
       PromoteFails, PromoteFlip,
       Restart, durableVars
  <2>4. rows' = [rows EXCEPT ![u] = [by |-> Self, ver |-> 1]] BY <2>3 DEF LocalWrite
  <2>5. rows \in [Tables -> Content] BY DEF IndInv, TypeOK
  <2> QED BY <2>4, <2>5
<1> QED BY <1>1, Inductive, PTL DEF Spec, NoPullOverPrimary

----------------------------------------------------------------------------
(* Replication implements Follower. *)

\* The steps that Follower does not see: requests, reads of a snapshot, rebuilds of
\* what is served, failures, the loop's exit, and a promotion's guard.
LEMMA HiddenStep ==
    ASSUME PollVersion \/ SnapshotVersion \/ SnapshotRead \/ RebuildSettings \/ LiveApply
           \/ RebuildPolicy \/ RequestCancelled \/ PullExits \/ PollFails
           \/ (\E c \in Callers : PromoteCheck(c) \/ PromoteFails(c))
    PROVE  UNCHANGED F!vars
BY DEF PollVersion, SnapshotVersion, SnapshotRead, RebuildSettings, LiveApply,
       RebuildPolicy, RequestCancelled, PullExits, PollFails, PromoteCheck,
       PromoteFails, primaryVars, durableVars, F!vars

\* The commit of a snapshot installs the configuration of the version it carries,
\* which is no older than the one recorded.
LEMMA ApplyInstalls ==
    ASSUME IndInv, ApplySnapshot
    PROVE  \E p \in Primaries : \E v \in 0 .. version[p] : F!Install(p, v)
<1>1. /\ pc \in Complete /\ pc # "off"
      /\ pinned \in Primaries /\ role = "replica"
  BY DEF ApplySnapshot, Complete, IndInv, RoleOK
<1>2. snap.ver \in 0 .. version[pinned]
  BY <1>1 DEF IndInv, SnapOK, TypeOK, Complete
<1>3. F!NotOlder(pinned, snap.ver)
  BY <1>1, <1>2 DEF F!NotOlder, IndInv, SnapOK, StateOK, TypeOK
<1>4. Covers(snap.rows, pinned, snap.ver, Tables)
  BY <1>1, ReadAll DEF IndInv, SnapOK
<1>5. rows' = snap.rows /\ cfg' = cfg /\ snap.rows \in [Tables -> Content]
  BY DEF ApplySnapshot, primaryVars, IndInv, TypeOK
<1>6. F!Covers(rows', pinned, snap.ver)
  BY <1>4, <1>5 DEF Covers, F!Covers
<1>7. F!Install(pinned, snap.ver)
  BY <1>1, <1>3, <1>5, <1>6 DEF F!Install, ApplySnapshot, primaryVars, F!Content, Content
<1> QED BY <1>1, <1>2, <1>7

\* SetReplicaState claims what the commit before it installed.
LEMMA RecordClaims ==
    ASSUME IndInv, RecordState
    PROVE  \E p \in Primaries : \E v \in 0 .. version[p] : F!Record(p, v)
<1>1. /\ pc \in Complete /\ pc \in Committed /\ pc # "off"
      /\ pinned \in Primaries /\ role = "replica"
  BY DEF RecordState, Complete, Committed, IndInv, RoleOK
<1>2. snap.ver \in 0 .. version[pinned]
  BY <1>1 DEF IndInv, SnapOK, TypeOK
<1>3. F!NotOlder(pinned, snap.ver)
  BY <1>1, <1>2 DEF F!NotOlder, IndInv, SnapOK, StateOK, TypeOK
<1>4. Covers(rows, pinned, snap.ver, Tables)
  BY <1>1, ReadAll DEF IndInv, SnapOK
<1>5. F!Record(pinned, snap.ver)
  BY <1>1, <1>3, <1>4 DEF F!Record, F!Covers, Covers, RecordState, primaryVars
<1> QED BY <1>1, <1>2, <1>5

\* A promotion declares itself, forgets its claim, and only then accepts writes.
LEMMA PromotionTakesOver ==
    ASSUME IndInv, NEW c \in Callers
    PROVE  /\ PromoteRecord(c) => F!Declare
           /\ PromoteClear(c) => F!Forget
           /\ PromoteFlip(c) => F!TakeOver
<1>1. PromoteRecord(c) => F!Declare
  BY DEF PromoteRecord, F!Declare, primaryVars
<1>2. PromoteClear(c) => F!Forget
  BY DEF PromoteClear, F!Forget, primaryVars
<1>3. PromoteFlip(c) => F!TakeOver
  BY DEF PromoteFlip, F!TakeOver, primaryVars, durableVars, IndInv, RoleOK
<1> QED BY <1>1, <1>2, <1>3

\* Every step of the node is one of Follower's, or one Follower does not see.
LEMMA StepRefines == IndInv /\ [Next]_vars => [F!Next]_(F!vars)
<1> SUFFICES ASSUME IndInv, [Next]_vars PROVE F!Next \/ UNCHANGED F!vars
  OBVIOUS
<1>1. ASSUME NEW p \in Primaries, NEW ts \in SUBSET Tables, Write(p, ts) PROVE F!Next
  <2>1. F!Change(p, ts) BY <1>1 DEF Write, F!Change, durableVars
  <2> QED BY <2>1 DEF F!Next
<1>2. CASE ApplySnapshot BY <1>2, ApplyInstalls DEF F!Next
<1>3. CASE RecordState BY <1>3, RecordClaims DEF F!Next
<1>4. ASSUME NEW p \in Primaries, Join(p) PROVE F!Next
  <2>1. F!Follow(p) BY <1>4 DEF Join, F!Follow, primaryVars
  <2> QED BY <2>1 DEF F!Next
<1>5. ASSUME NEW c \in Callers, PromoteRecord(c) \/ PromoteClear(c) \/ PromoteFlip(c) PROVE F!Next
  BY <1>5, PromotionTakesOver DEF F!Next
<1>6. ASSUME NEW t \in Tables, LocalWrite(t) PROVE F!Next
  <2>1. role = "primary" BY <1>6 DEF LocalWrite, IndInv, TypeOK
  <2>2. F!Edit(t) BY <1>6, <2>1 DEF LocalWrite, F!Edit, primaryVars
  <2> QED BY <2>2 DEF F!Next
<1>7. CASE Restart
  <2>1. (role' = "primary") = promotion
    BY <1>7 DEF Restart, RoleAtBoot, IndInv, TypeOK
  <2>2. F!Boot BY <1>7, <2>1 DEF Restart, F!Boot, primaryVars, durableVars
  <2> QED BY <2>2 DEF F!Next
<1>8. CASE UNCHANGED vars BY <1>8 DEF vars, F!vars
<1> QED
  BY <1>1, <1>2, <1>3, <1>4, <1>5, <1>6, <1>7, <1>8, HiddenStep DEF Next, Poll, Promote

\* A following node implements Follower: its replica_state row never claims more
\* than its tables hold, and its tables never take a configuration while its
\* WriteGate is open, wherever polls, promotions, joins and crashes interleave.
THEOREM ReplicationRefinesFollower == Spec => Refines
<1>1. Init => F!Init
  BY DEF Init, F!Init
<1> QED BY <1>1, StepRefines, Inductive, PTL DEF Spec, F!Spec, Refines
=============================================================================
