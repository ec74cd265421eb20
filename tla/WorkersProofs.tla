---------------------------- MODULE WorkersProofs ----------------------------
(***************************************************************************)
(* Workers for any number of callers, services and sources.  NoLostWake is *)
(* not inductive: a setting may be stored in the middle of a cycle, so the *)
(* wake-up must be shown to be on its way wherever the loop is             *)
(* (WakeComing).  VerdictEarned needs the failure counter to be what the   *)
(* last two outcomes say (CountersAgree).                                  *)
(*                                                                         *)
(* The settings service, whose saves and pulls are the callers, follows in *)
(* the last section.                                                       *)
(***************************************************************************)
EXTENDS Workers, SettingsService, TLAPS

\* The part of the invariant about the wake-up protocol, and the part about statuses.
WakeTypes ==
    /\ loop \in [Loops -> {"off", "start", "busy", "sleep"}]
    /\ token \in [Loops -> BOOLEAN]
    /\ call \in [Callers -> Loops \cup {None}]
    /\ owes \in [Loops -> BOOLEAN]

StatusTypes ==
    /\ service \in [Ids -> Kinds] /\ todo \in [Ids -> Kinds]
    /\ entries \in [Ids -> Entries \cup {None}]
    /\ seen \in [Ids -> [last : Outcomes, before : Outcomes]]

WakeInv == WakeTypes /\ WakeComing
StatusInv == StatusTypes /\ CountersAgree /\ VerdictEarned

\* The two parts are the inductive invariant.
LEMMA Parts == IndInv <=> WakeInv /\ StatusInv
BY DEF IndInv, TypeOK, WakeInv, StatusInv, WakeTypes, StatusTypes

----------------------------------------------------------------------------
(* The wake-up protocol. *)

\* Storing a setting leaves its caller about to send.
LEMMA StoreStep == ASSUME WakeInv, NEW c \in Callers, NEW l \in Loops, Store(c, l) PROVE WakeInv'
<1> USE DEF WakeInv, WakeTypes
<1>1. WakeTypes' BY DEF Store
<1>2. WakeComing'
  <2> SUFFICES ASSUME NEW k \in Loops, owes'[k]
               PROVE  token'[k] \/ \E d \in Callers : call'[d] = k
    BY DEF WakeComing
  <2>1. CASE k = l BY <2>1 DEF Store
  <2>2. CASE k # l
    <3>1. owes[k] BY <2>2 DEF Store
    <3>2. CASE token[k] BY <3>2 DEF Store
    <3>3. ASSUME NEW d \in Callers, call[d] = k PROVE call'[d] = k
      <4>1. d # c BY <3>3, WorkersAssumption DEF Store, Loops
      <4> QED BY <4>1, <3>3 DEF Store
    <3> QED BY <3>1, <3>2, <3>3 DEF WakeComing
  <2> QED BY <2>1, <2>2
<1> QED BY <1>1, <1>2

\* A send leaves a token, whether or not one was there.
LEMMA SendStep == ASSUME WakeInv, NEW c \in Callers, Send(c) PROVE WakeInv'
<1> USE DEF WakeInv, WakeTypes
<1>0. call[c] \in Loops BY DEF Send
<1>1. WakeTypes' BY <1>0 DEF Send
<1>2. WakeComing'
  <2> SUFFICES ASSUME NEW k \in Loops, owes'[k]
               PROVE  token'[k] \/ \E d \in Callers : call'[d] = k
    BY DEF WakeComing
  <2>1. CASE k = call[c] BY <2>1, <1>0 DEF Send
  <2>2. CASE k # call[c]
    <3>1. CASE token[k] BY <3>1, <2>2 DEF Send
    <3>2. ASSUME NEW d \in Callers, call[d] = k PROVE call'[d] = k
      BY <3>2, <2>2 DEF Send
    <3> QED BY <3>1, <3>2 DEF WakeComing, Send
  <2> QED BY <2>1, <2>2
<1> QED BY <1>1, <1>2

\* Taking the token, or waking without it, starts a cycle that sees every setting
\* stored so far.
LEMMA WakeStep == ASSUME WakeInv, NEW l \in Loops, Wake(l) PROVE WakeInv'
<1> USE DEF WakeInv, WakeTypes
<1>1. WakeTypes' BY DEF Wake
<1>2. \A k \in Loops : k # l => token'[k] = token[k] /\ owes'[k] = owes[k]
  BY DEF Wake
<1>3. ~owes'[l] /\ call' = call BY DEF Wake
<1> QED BY <1>1, <1>2, <1>3 DEF WakeComing

\* Every other step leaves the settings and the tokens alone.
LEMMA OtherWakeStep ==
    ASSUME WakeInv, UNCHANGED <<token, call, owes>>,
           loop' \in [Loops -> {"off", "start", "busy", "sleep"}]
    PROVE  WakeInv'
BY DEF WakeInv, WakeTypes, WakeComing

\* Where a cycle goes is one of the places a loop can be.
LEMMA GotoType ==
    ASSUME WakeInv, NEW l \in Loops, NEW w \in {"start", "busy", "sleep"}, Goto(l, w)
    PROVE  loop' \in [Loops -> {"off", "start", "busy", "sleep"}]
BY DEF WakeInv, WakeTypes, Goto

\* A poll's steps are not part of the wake-up protocol.
LEMMA PollWakeStep == ASSUME WakeInv, NEW p \in Pollers, PollStep(p) PROVE WakeInv'
<1>0. "leases" \in Loops BY DEF Loops
<1>1. UNCHANGED <<token, call, owes>>
  BY DEF PollStep, PollSource, PollLeases, PollFails, PollPublish, PollEnds, wake
<1>2. \/ UNCHANGED loop
      \/ \E w \in {"start", "busy", "sleep"} : Goto("leases", w)
  BY DEF PollStep, PollSource, PollLeases, PollFails, PollPublish, PollEnds, wake
<1>3. loop' \in [Loops -> {"off", "start", "busy", "sleep"}]
  BY <1>0, <1>2, GotoType DEF WakeInv, WakeTypes
<1> QED BY <1>1, <1>3, OtherWakeStep

\* Nor are a sweep's.
LEMMA SweepWakeStep == ASSUME WakeInv, SweepStep PROVE WakeInv'
<1>0. "health" \in Loops BY DEF Loops
<1>1. UNCHANGED <<token, call, owes>>
  BY DEF SweepStep, Sweep, SweepFails, SweepEnds, Record, RecordUnknown, wake
<1>2. \/ UNCHANGED loop
      \/ \E w \in {"start", "busy", "sleep"} : Goto("health", w)
  BY DEF SweepStep, Sweep, SweepFails, SweepEnds, Record, RecordUnknown, wake
<1>3. loop' \in [Loops -> {"off", "start", "busy", "sleep"}]
  BY <1>0, <1>2, GotoType DEF WakeInv, WakeTypes
<1> QED BY <1>1, <1>3, OtherWakeStep

\* The wake-up protocol is kept by every step.
LEMMA NextWakeInv == WakeInv /\ [Next]_vars => WakeInv'
<1> SUFFICES ASSUME WakeInv, [Next]_vars PROVE WakeInv'
  OBVIOUS
<1>1. CASE UNCHANGED wake
  BY <1>1, OtherWakeStep DEF wake, WakeInv, WakeTypes
<1>2. ASSUME NEW i \in Ids, NEW s \in Kinds, PutService(i, s) PROVE UNCHANGED wake
  BY <1>2 DEF PutService
<1>3. ASSUME NEW s \in Sources, NEW set \in LeaseSets, LeasesChange(s, set) PROVE UNCHANGED wake
  BY <1>3 DEF LeasesChange
<1>4. CASE Link \/ PullHealth BY <1>4, <1>1 DEF Link, PullHealth
<1>5. CASE UNCHANGED vars BY <1>5, <1>1 DEF vars
<1> QED
  BY <1>1, <1>2, <1>3, <1>4, <1>5, StoreStep, SendStep, WakeStep, PollWakeStep, SweepWakeStep DEF Next

----------------------------------------------------------------------------
(* Statuses. *)

\* What one entry and its history must satisfy.
EntryOK(e, o) ==
    /\ e = None => o = Nothing
    /\ e # None => e.failures = CounterOf(o)
    /\ o.last = "none" => o.before = "none"
    /\ e # None =>
        e.state = CASE o.last = "ok"                            -> "up"
                    [] o = [last |-> "failed", before |-> "ok"]     -> "up"
                    [] o = [last |-> "failed", before |-> "failed"] -> "down"
                    [] OTHER                                    -> "unknown"

\* The invariant, entry by entry.
LEMMA ByEntry == (CountersAgree /\ VerdictEarned) <=> \A i \in Ids : EntryOK(entries[i], seen[i])
BY DEF CountersAgree, VerdictEarned, EntryOK

\* No status: nothing was recorded.  A fresh one: nothing counts.
LEMMA FreshOK == EntryOK(None, Nothing) /\ EntryOK(Fresh, Nothing) /\ Fresh \in Entries
BY DEF EntryOK, Fresh, Nothing, CounterOf, Entries, Threshold

\* record's hysteresis, from a status that agrees with its history.
LEMMA AfterOK ==
    ASSUME NEW e \in Entries, NEW o \in [last : Outcomes, before : Outcomes], EntryOK(e, o),
           e # None, NEW ok \in BOOLEAN
    PROVE  LET n == [last |-> IF ok THEN "ok" ELSE "failed", before |-> o.last]
           IN  After(e, ok) \in Entries /\ EntryOK(After(e, ok), n)
<1> DEFINE n == [last |-> IF ok THEN "ok" ELSE "failed", before |-> o.last]
<1>1. /\ e.failures \in 0 .. 2 /\ e.successes \in 0 .. 2
      /\ e.state \in {"unknown", "up", "down"}
  BY DEF Entries, Threshold
<1>2. After(e, ok) \in Entries
  BY <1>1 DEF After, Entries, Capped, Threshold
<1>3. After(e, ok) # None BY <1>2, WorkersAssumption
<1> SUFFICES EntryOK(After(e, ok), n) BY <1>2
<1>4. CASE ok
  BY <1>2, <1>3, <1>4 DEF After, EntryOK, CounterOf, Outcomes
<1>5. CASE ~ok
  <2>1. n = [last |-> "failed", before |-> o.last] BY <1>5
  <2>2. /\ After(e, ok).failures = Capped(e.failures + 1)
        /\ After(e, ok).state = IF e.failures + 1 >= 2 THEN "down" ELSE e.state
    BY <1>5 DEF After, Threshold
  <2>3. e.failures = CounterOf(o) BY DEF EntryOK
  <2>4. After(e, ok).failures = CounterOf(n)
    BY <2>1, <2>2, <2>3 DEF CounterOf, Capped, Threshold, Outcomes
  <2>5. o.last = "ok" => After(e, ok).state = "up"
    BY <2>2, <2>3 DEF CounterOf, EntryOK
  <2>6. o.last = "failed" => After(e, ok).state = "down"
    BY <2>2, <2>3 DEF CounterOf
  <2>7. o.last = "none" => After(e, ok).state = "unknown"
    <3>1. o.last = "none" => e.state = "unknown" BY DEF EntryOK
    <3> QED BY <2>2, <2>3, <3>1 DEF CounterOf
  <2>8. o.last \in {"none", "ok", "failed"} BY DEF Outcomes
  <2>9. CASE o.last = "ok" BY <1>3, <2>1, <2>4, <2>5, <2>9 DEF EntryOK
  <2>10. CASE o.last = "failed"
    <3>1. n = [last |-> "failed", before |-> "failed"] /\ n # [last |-> "failed", before |-> "ok"]
      BY <2>1, <2>10
    <3> HIDE DEF n
    <3> QED BY <1>3, <2>4, <2>6, <2>10, <3>1 DEF EntryOK
  <2>11. CASE o.last = "none"
    <3>1. /\ n.last = "failed" /\ n # [last |-> "failed", before |-> "failed"]
          /\ n # [last |-> "failed", before |-> "ok"]
      BY <2>1, <2>11
    <3> HIDE DEF n
    <3> QED BY <1>3, <2>4, <2>7, <2>11, <3>1 DEF EntryOK
  <2> QED BY <2>8, <2>9, <2>10, <2>11
<1> QED BY <1>2, <1>4, <1>5

\* The outcome of a probe lands on the status as it is now.
LEMMA RecordStep ==
    ASSUME StatusInv, NEW i \in Ids, NEW ok \in BOOLEAN, Record(i, ok)
    PROVE  StatusInv'
<1> DEFINE n == [last |-> IF ok THEN "ok" ELSE "failed", before |-> seen[i].last]
<1>1. EntryOK(Entry(i), seen[i]) /\ Entry(i) \in Entries /\ Entry(i) # None
  BY ByEntry, FreshOK, WorkersAssumption DEF StatusInv, StatusTypes, Entry, EntryOK
<1>2. After(Entry(i), ok) \in Entries /\ EntryOK(After(Entry(i), ok), n)
  BY <1>1, AfterOK DEF StatusInv, StatusTypes
<1>3. n \in [last : Outcomes, before : Outcomes]
  BY DEF StatusInv, StatusTypes, Outcomes
<1>4. /\ entries' = [entries EXCEPT ![i] = After(Entry(i), ok)]
      /\ seen' = [seen EXCEPT ![i] = n]
      /\ todo' = [todo EXCEPT ![i] = None] /\ service' = service
  BY DEF Record
<1>5. StatusTypes' BY <1>2, <1>3, <1>4 DEF StatusInv, StatusTypes, Kinds
<1>6. \A j \in Ids : EntryOK(entries'[j], seen'[j])
  BY <1>2, <1>4, ByEntry DEF StatusInv, StatusTypes
<1>7. (CountersAgree /\ VerdictEarned)'
  BY <1>6 DEF CountersAgree, VerdictEarned, EntryOK
<1> QED BY <1>5, <1>7 DEF StatusInv

\* A service without a check target starts over.
LEMMA RecordUnknownStep == ASSUME StatusInv, NEW i \in Ids, RecordUnknown(i) PROVE StatusInv'
<1>1. /\ entries' = [entries EXCEPT ![i] = Fresh] /\ seen' = [seen EXCEPT ![i] = Nothing]
      /\ todo' = [todo EXCEPT ![i] = None] /\ service' = service
  BY DEF RecordUnknown
<1>2. Nothing \in [last : Outcomes, before : Outcomes] BY DEF Nothing, Outcomes
<1>3. StatusTypes' BY <1>1, <1>2, FreshOK DEF StatusInv, StatusTypes, Kinds
<1>4. \A j \in Ids : EntryOK(entries'[j], seen'[j])
  BY <1>1, ByEntry, FreshOK DEF StatusInv, StatusTypes
<1>5. (CountersAgree /\ VerdictEarned)'
  BY <1>4 DEF CountersAgree, VerdictEarned, EntryOK
<1> QED BY <1>3, <1>5 DEF StatusInv

\* A sweep drops a status with its history.
LEMMA SweepStatusStep == ASSUME StatusInv, Sweep PROVE StatusInv'
<1>1. /\ entries' = [i \in Ids |-> IF service[i] = None THEN None ELSE entries[i]]
      /\ seen' = [i \in Ids |-> IF service[i] = None THEN Nothing ELSE seen[i]]
      /\ todo' = service /\ service' = service
  BY DEF Sweep
<1>2. Nothing \in [last : Outcomes, before : Outcomes] BY DEF Nothing, Outcomes
<1>3. StatusTypes' BY <1>1, <1>2 DEF StatusInv, StatusTypes
<1>4. \A j \in Ids : EntryOK(entries'[j], seen'[j])
  BY <1>1, ByEntry, FreshOK DEF StatusInv
<1>5. (CountersAgree /\ VerdictEarned)'
  BY <1>4 DEF CountersAgree, VerdictEarned, EntryOK
<1> QED BY <1>3, <1>5 DEF StatusInv

\* Steps that record nothing.
LEMMA OtherStatusStep ==
    ASSUME StatusInv, UNCHANGED checker, service' \in [Ids -> Kinds]
    PROVE  StatusInv'
BY DEF StatusInv, StatusTypes, CountersAgree, VerdictEarned, checker

\* Statuses agree with their history after every step.
LEMMA NextStatusInv == StatusInv /\ [Next]_vars => StatusInv'
<1> SUFFICES ASSUME StatusInv, [Next]_vars PROVE StatusInv'
  OBVIOUS
<1>0. service \in [Ids -> Kinds] BY DEF StatusInv, StatusTypes
<1>1. CASE UNCHANGED <<service, checker>>
  BY <1>0, <1>1, OtherStatusStep
<1>2. ASSUME NEW i \in Ids, NEW s \in Kinds, PutService(i, s) PROVE StatusInv'
  BY <1>0, <1>2, OtherStatusStep DEF PutService
<1>3. ASSUME NEW c \in Callers, Send(c) \/ \E l \in Loops : Store(c, l) PROVE StatusInv'
  BY <1>3, <1>1 DEF Send, Store
<1>4. ASSUME NEW l \in Loops, Wake(l) PROVE StatusInv'
  BY <1>4, <1>1 DEF Wake
<1>5. CASE SweepFails \/ SweepEnds \/ Link \/ PullHealth
  BY <1>5, <1>1 DEF SweepFails, SweepEnds, Link, PullHealth
<1>6. ASSUME NEW s \in Sources, NEW set \in LeaseSets, LeasesChange(s, set) PROVE StatusInv'
  BY <1>6, <1>1 DEF LeasesChange
<1>7. ASSUME NEW p \in Pollers, PollStep(p) PROVE StatusInv'
  BY <1>7, <1>1 DEF PollStep, PollSource, PollLeases, PollFails, PollPublish, PollEnds
<1>8. CASE UNCHANGED vars BY <1>8, <1>1 DEF vars
<1> QED
  BY <1>2, <1>3, <1>4, <1>5, <1>6, <1>7, <1>8, RecordStep, RecordUnknownStep, SweepStatusStep
  DEF Next, SweepStep

----------------------------------------------------------------------------
\* Both loops start with an empty channel and no statuses.
LEMMA InitInv == Init => WakeInv /\ StatusInv
<1> SUFFICES ASSUME Init PROVE WakeInv /\ StatusInv
  OBVIOUS
<1>1. WakeTypes BY DEF Init, WakeTypes
<1>2. WakeComing BY DEF Init, WakeComing
<1>3. StatusTypes BY DEF Init, StatusTypes, Kinds, Nothing, Outcomes
<1>4. CountersAgree /\ VerdictEarned BY ByEntry, FreshOK DEF Init
<1> QED BY <1>1, <1>2, <1>3, <1>4 DEF WakeInv, StatusInv

\* Every reachable state satisfies the inductive invariant.
THEOREM Inductive == Spec => []IndInv
<1>1. IndInv /\ [Next]_vars => IndInv'
  <2> SUFFICES ASSUME IndInv, [Next]_vars PROVE IndInv'
    OBVIOUS
  <2>1. WakeInv' /\ StatusInv' BY Parts, NextWakeInv, NextStatusInv
  <2> QED BY <2>1 DEF IndInv, TypeOK, WakeInv, StatusInv, WakeTypes, StatusTypes
<1>2. Init => IndInv BY InitInv, Parts
<1> QED BY <1>1, <1>2, PTL DEF Spec

\* However many settings are applied at once, wherever the loops are: no stored setting
\* waits for the old interval to run out.
THEOREM WakeIsNeverLost == Spec => []NoLostWake
<1>1. IndInv => NoLostWake BY DEF IndInv, WakeComing, NoLostWake
<1> QED BY <1>1, Inductive, PTL

\* A status is what the last two outcomes say, for any number of services.
THEOREM VerdictIsEarned == Spec => []VerdictEarned
<1>1. IndInv => VerdictEarned BY DEF IndInv
<1> QED BY <1>1, Inductive, PTL

----------------------------------------------------------------------------
(* The settings that retune the loops: SettingsService, for any number of  *)
(* requests and pulls.  HolderFresh is not inductive: in the middle of a   *)
(* write the holder is old, and what must be shown is that the stored row  *)
(* is on its way into it (Coming), also while a second writer changes the  *)
(* row under a rebuild that has already read it (Rebuilding).              *)

\* The last part of the invariant.
HolderUpToDate == failed \/ cur = row \/ Coming

\* A handler merges its keys over the running row; nothing stored changes.
LEMMA ComposeStep == ASSUME BootOK, SettingsInv, NEW r \in Requests, NEW f \in Fields, Compose(r, f) PROVE SettingsInv'
<1> USE DEF SettingsInv, Compose, To, pullVars, requestVars, BootOK, SettingsTypeOK, InSet
<1>1. SettingsTypeOK' BY DEF Rebuilding, Rows, Fields
<1>2. Writing' BY DEF Writing
<1>3. Rebuilding' BY DEF Writing, Rebuilding
<1>4. HolderUpToDate' BY DEF Writing, Rebuilding, Coming, HolderUpToDate
<1> QED BY <1>1, <1>2, <1>3, <1>4 DEF HolderUpToDate

\* Set is entered by one request at a time, the whole-row path on a primary only.
LEMMA EnterSetStep == ASSUME BootOK, SettingsInv, NEW r \in Requests, EnterSet(r) PROVE SettingsInv'
<1> USE DEF SettingsInv, EnterSet, To, pullVars, requestVars, BootOK, SettingsTypeOK, InSet
<1>1. SettingsTypeOK' BY DEF Rebuilding, Rows, Fields
<1>2. Writing' BY DEF Writing
<1>3. Rebuilding' BY DEF Writing, Rebuilding
<1>4. HolderUpToDate' BY DEF Writing, Rebuilding, Coming, HolderUpToDate
<1> QED BY <1>1, <1>2, <1>3, <1>4 DEF HolderUpToDate

\* A refused request has written nothing.
LEMMA RefuseStep == ASSUME BootOK, SettingsInv, NEW r \in Requests, Refuse(r) PROVE SettingsInv'
<1> USE DEF SettingsInv, Refuse, To, pullVars, requestVars, BootOK, SettingsTypeOK, InSet
<1>1. SettingsTypeOK' BY DEF Rebuilding, Rows, Fields
<1>2. Writing' BY DEF Writing
<1>3. Rebuilding' BY DEF Writing, Rebuilding
<1>4. HolderUpToDate' BY DEF Writing, Rebuilding, Coming, HolderUpToDate
<1> QED BY <1>1, <1>2, <1>3, <1>4 DEF HolderUpToDate

\* The row is stored, and its writer is about to publish that very row.
LEMMA PutSettingsStep == ASSUME BootOK, SettingsInv, NEW r \in Requests, PutSettings(r) PROVE SettingsInv'
<1> USE DEF SettingsInv, PutSettings, To, pullVars, requestVars, BootOK, SettingsTypeOK, InSet
<1>1. SettingsTypeOK' BY DEF Rebuilding, Rows, Fields
<1>2. Writing' BY DEF Writing
<1>3. Rebuilding' BY DEF Writing, Rebuilding
<1>4. HolderUpToDate' BY DEF Writing, Rebuilding, Coming, HolderUpToDate
<1> QED BY <1>1, <1>2, <1>3, <1>4 DEF HolderUpToDate

\* The published snapshot is the stored row.
LEMMA PublishStep == ASSUME BootOK, SettingsInv, NEW r \in Requests, Publish(r) PROVE SettingsInv'
<1> USE DEF SettingsInv, Publish, To, pullVars, requestVars, BootOK, SettingsTypeOK, InSet
<1>1. SettingsTypeOK' BY DEF Rebuilding, Rows, Fields
<1>2. Writing' BY DEF Writing
<1>3. Rebuilding' BY DEF Writing, Rebuilding
<1>4. HolderUpToDate' BY DEF Writing, Rebuilding, Coming, HolderUpToDate
<1> QED BY <1>1, <1>2, <1>3, <1>4 DEF HolderUpToDate

\* A replica stores its DHCP columns and goes on to rebuild.
LEMMA PutDHCPSettingsStep == ASSUME BootOK, SettingsInv, NEW r \in Requests, PutDHCPSettings(r) PROVE SettingsInv'
<1> USE DEF SettingsInv, PutDHCPSettings, To, pullVars, requestVars, BootOK, SettingsTypeOK, InSet
<1>1. SettingsTypeOK' BY DEF Rebuilding, Rows, Fields
<1>2. Writing' BY DEF Writing
<1>3. Rebuilding' BY DEF Writing, Rebuilding
<1>4. HolderUpToDate' BY DEF Writing, Rebuilding, Coming, HolderUpToDate
<1> QED BY <1>1, <1>2, <1>3, <1>4 DEF HolderUpToDate

\* The rebuild reads the row as it is.
LEMMA RebuildReadStep == ASSUME BootOK, SettingsInv, NEW r \in Requests, RebuildRead(r) PROVE SettingsInv'
<1> USE DEF SettingsInv, RebuildRead, To, pullVars, requestVars, BootOK, SettingsTypeOK, InSet
<1>1. SettingsTypeOK' BY DEF Rebuilding, Rows, Fields
<1>2. Writing' BY DEF Writing
<1>3. Rebuilding' BY DEF Writing, Rebuilding
<1>4. HolderUpToDate' BY DEF Writing, Rebuilding, Coming, HolderUpToDate
<1> QED BY <1>1, <1>2, <1>3, <1>4 DEF HolderUpToDate

\* It swaps the row in, or a pull that changed it since waits for the mutex.
LEMMA RebuildSwapStep == ASSUME BootOK, SettingsInv, NEW r \in Requests, RebuildSwap(r) PROVE SettingsInv'
<1> USE DEF SettingsInv, RebuildSwap, To, pullVars, requestVars, BootOK, SettingsTypeOK, InSet
<1>1. SettingsTypeOK' BY DEF Rebuilding, Rows, Fields
<1>2. Writing' BY DEF Writing
<1>3. Rebuilding' BY DEF Writing, Rebuilding
<1>4. HolderUpToDate' BY DEF Writing, Rebuilding, Coming, HolderUpToDate
<1> QED BY <1>1, <1>2, <1>3, <1>4 DEF HolderUpToDate

\* A failed rebuild is told to its caller.
LEMMA RebuildFailsStep == ASSUME BootOK, SettingsInv, NEW r \in Requests, RebuildFails(r) PROVE SettingsInv'
<1> USE DEF SettingsInv, RebuildFails, To, pullVars, requestVars, BootOK, SettingsTypeOK, InSet
<1>1. SettingsTypeOK' BY DEF Rebuilding, Rows, Fields
<1>2. Writing' BY DEF Writing
<1>3. Rebuilding' BY DEF Writing, Rebuilding
<1>4. HolderUpToDate' BY DEF Writing, Rebuilding, Coming, HolderUpToDate
<1> QED BY <1>1, <1>2, <1>3, <1>4 DEF HolderUpToDate

\* The snapshot to apply is loaded; holder and row stay.
LEMMA LoadCurrentStep == ASSUME BootOK, SettingsInv, NEW r \in Requests, LoadCurrent(r) PROVE SettingsInv'
<1> USE DEF SettingsInv, LoadCurrent, To, pullVars, requestVars, BootOK, SettingsTypeOK, InSet
<1>1. SettingsTypeOK' BY DEF Rebuilding, Rows, Fields
<1>2. Writing' BY DEF Writing
<1>3. Rebuilding' BY DEF Writing, Rebuilding
<1>4. HolderUpToDate' BY DEF Writing, Rebuilding, Coming, HolderUpToDate
<1> QED BY <1>1, <1>2, <1>3, <1>4 DEF HolderUpToDate

\* Set returns after the holder was given its row.
LEMMA ApplyStep == ASSUME BootOK, SettingsInv, NEW r \in Requests, Apply(r) PROVE SettingsInv'
<1> USE DEF SettingsInv, Apply, To, pullVars, requestVars, BootOK, SettingsTypeOK, InSet
<1>1. SettingsTypeOK' BY DEF Rebuilding, Rows, Fields
<1>2. Writing' BY DEF Writing
<1>3. Rebuilding' BY DEF Writing, Rebuilding
<1>4. HolderUpToDate' BY DEF Writing, Rebuilding, Coming, HolderUpToDate
<1> QED BY <1>1, <1>2, <1>3, <1>4 DEF HolderUpToDate

\* The next request of the same client.
LEMMA AgainStep == ASSUME BootOK, SettingsInv, NEW r \in Requests, Again(r) PROVE SettingsInv'
<1> USE DEF SettingsInv, Again, To, pullVars, requestVars, BootOK, SettingsTypeOK, InSet
<1>1. SettingsTypeOK' BY DEF Rebuilding, Rows, Fields
<1>2. Writing' BY DEF Writing
<1>3. Rebuilding' BY DEF Writing, Rebuilding
<1>4. HolderUpToDate' BY DEF Writing, Rebuilding, Coming, HolderUpToDate
<1> QED BY <1>1, <1>2, <1>3, <1>4 DEF HolderUpToDate

\* A pull stores the primary's half and goes on to rebuild.
LEMMA PullCommitStep == ASSUME BootOK, SettingsInv, PullCommit PROVE SettingsInv'
<1> USE DEF SettingsInv, PullCommit, pullVars, requestVars, BootOK, SettingsTypeOK, InSet
<1>1. SettingsTypeOK' BY DEF Rebuilding, Rows, Fields
<1>2. Writing' BY DEF Writing
<1>3. Rebuilding' BY DEF Writing, Rebuilding
<1>4. HolderUpToDate' BY DEF Writing, Rebuilding, Coming, HolderUpToDate
<1> QED BY <1>1, <1>2, <1>3, <1>4 DEF HolderUpToDate

\* The pull loop's rebuild reads the row as it is.
LEMMA PullRebuildReadStep == ASSUME BootOK, SettingsInv, PullRebuildRead PROVE SettingsInv'
<1> USE DEF SettingsInv, PullRebuildRead, pullVars, requestVars, BootOK, SettingsTypeOK, InSet
<1>1. SettingsTypeOK' BY DEF Rebuilding, Rows, Fields
<1>2. Writing' BY DEF Writing
<1>3. Rebuilding' BY DEF Writing, Rebuilding
<1>4. HolderUpToDate' BY DEF Writing, Rebuilding, Coming, HolderUpToDate
<1> QED BY <1>1, <1>2, <1>3, <1>4 DEF HolderUpToDate

\* It swaps the row in, or a request that changed it since waits for the mutex.
LEMMA PullRebuildSwapStep == ASSUME BootOK, SettingsInv, PullRebuildSwap PROVE SettingsInv'
<1> USE DEF SettingsInv, PullRebuildSwap, pullVars, requestVars, BootOK, SettingsTypeOK, InSet
<1>1. SettingsTypeOK' BY DEF Rebuilding, Rows, Fields
<1>2. Writing' BY DEF Writing
<1>3. Rebuilding' BY DEF Writing, Rebuilding
<1>4. HolderUpToDate' BY DEF Writing, Rebuilding, Coming, HolderUpToDate
<1> QED BY <1>1, <1>2, <1>3, <1>4 DEF HolderUpToDate

\* A failed rebuild of a pull counts as told: the pull is retried.
LEMMA PullRebuildFailsStep == ASSUME BootOK, SettingsInv, PullRebuildFails PROVE SettingsInv'
<1> USE DEF SettingsInv, PullRebuildFails, pullVars, requestVars, BootOK, SettingsTypeOK, InSet
<1>1. SettingsTypeOK' BY DEF Rebuilding, Rows, Fields
<1>2. Writing' BY DEF Writing
<1>3. Rebuilding' BY DEF Writing, Rebuilding
<1>4. HolderUpToDate' BY DEF Writing, Rebuilding, Coming, HolderUpToDate
<1> QED BY <1>1, <1>2, <1>3, <1>4 DEF HolderUpToDate

\* The pull loop loads what it will apply.
LEMMA PullLoadCurrentStep == ASSUME BootOK, SettingsInv, PullLoadCurrent PROVE SettingsInv'
<1> USE DEF SettingsInv, PullLoadCurrent, pullVars, requestVars, BootOK, SettingsTypeOK, InSet
<1>1. SettingsTypeOK' BY DEF Rebuilding, Rows, Fields
<1>2. Writing' BY DEF Writing
<1>3. Rebuilding' BY DEF Writing, Rebuilding
<1>4. HolderUpToDate' BY DEF Writing, Rebuilding, Coming, HolderUpToDate
<1> QED BY <1>1, <1>2, <1>3, <1>4 DEF HolderUpToDate

\* It applies it and is idle again.
LEMMA PullApplyStep == ASSUME BootOK, SettingsInv, PullApply PROVE SettingsInv'
<1> USE DEF SettingsInv, PullApply, pullVars, requestVars, BootOK, SettingsTypeOK, InSet
<1>1. SettingsTypeOK' BY DEF Rebuilding, Rows, Fields
<1>2. Writing' BY DEF Writing
<1>3. Rebuilding' BY DEF Writing, Rebuilding
<1>4. HolderUpToDate' BY DEF Writing, Rebuilding, Coming, HolderUpToDate
<1> QED BY <1>1, <1>2, <1>3, <1>4 DEF HolderUpToDate

\* A promotion stops the pull loop between two pulls, so it owes nothing.
LEMMA PromoteStep == ASSUME BootOK, SettingsInv, Promote PROVE SettingsInv'
<1> USE DEF SettingsInv, Promote, pullVars, requestVars, BootOK, SettingsTypeOK, InSet
<1>1. SettingsTypeOK' BY DEF Rebuilding, Rows, Fields
<1>2. Writing' BY DEF Writing
<1>3. Rebuilding' BY DEF Writing, Rebuilding
<1>4. HolderUpToDate' BY DEF Writing, Rebuilding, Coming, HolderUpToDate
<1> QED BY <1>1, <1>2, <1>3, <1>4 DEF HolderUpToDate

\* At boot the holder has the stored row.
LEMMA SettingsStart == ASSUME BootOK, SettingsInit PROVE SettingsInv
<1>1. BootRow \in Rows BY DEF BootRow, Rows
<1>2. SettingsTypeOK
  <2>1. pulled \in 0 .. MaxPulls BY DEF SettingsInit, BootOK
  <2>2. pull \in {"idle", "off"} /\ role \in {"replica", "primary"} BY DEF SettingsInit
  <2>3. doc \in [Requests -> Rows] /\ read \in [Requests \cup {Boot} -> Rows] BY <1>1 DEF SettingsInit
  <2>4. failed \in BOOLEAN BY DEF SettingsInit
  <2>5. \A r \in Requests : pc[r] \in InSet <=> writeMu = r BY DEF SettingsInit, InSet, BootOK
  <2>6. rebuildMu = "held" <=> pull = "swap" \/ \E r \in Requests : pc[r] = "swap" BY <2>2 DEF SettingsInit
  <2> QED BY <1>1, <2>1, <2>2, <2>3, <2>4, <2>5, <2>6 DEF SettingsInit, SettingsTypeOK, Fields
<1>3. Writing BY DEF SettingsInit, Writing
<1>4. Rebuilding /\ cur = row BY DEF SettingsInit, Rebuilding
<1> QED BY <1>2, <1>3, <1>4 DEF SettingsInv

\* The invariant is inductive.
LEMMA SettingsKept == ASSUME BootOK, SettingsInv, [SettingsNext]_settingsVars PROVE SettingsInv'
<1>1. CASE UNCHANGED settingsVars
  BY <1>1 DEF settingsVars, SettingsInv, SettingsTypeOK, InSet, Writing, Rebuilding, Coming
<1>2. CASE SettingsNext
  BY <1>2, ComposeStep, EnterSetStep, RefuseStep, PutSettingsStep, PublishStep, PutDHCPSettingsStep,
     RebuildReadStep, RebuildSwapStep, RebuildFailsStep, LoadCurrentStep, ApplyStep, AgainStep,
     PullCommitStep, PullRebuildReadStep, PullRebuildSwapStep, PullRebuildFailsStep,
     PullLoadCurrentStep, PullApplyStep, PromoteStep
  DEF SettingsNext
<1> QED BY <1>1, <1>2

\* Once every writer has returned without an error, the holder has the stored row, whatever
\* the order in which PATCHes and pulls committed, rebuilt and published (Service.Set,
\* setDHCPOnly, Holder.Rebuild, Holder.publish, replicaApplier.Apply).
THEOREM HolderIsFresh == SettingsSpec => []HolderFresh
<1>0. BootOK BY BootAssumption
<1>1. SettingsInv => HolderFresh
  BY <1>0 DEF SettingsInv, HolderFresh, Quiet, Coming, SettingsTypeOK, InSet, BootOK
<1>2. SettingsInit => SettingsInv BY <1>0, SettingsStart
<1>3. SettingsInv /\ [SettingsNext]_settingsVars => SettingsInv' BY <1>0, SettingsKept
<1> QED BY <1>1, <1>2, <1>3, PTL DEF SettingsSpec

\* On a replica only a pull changes the replicated columns and no pull changes a node-local
\* one, however stale the row a request composed (Service.Set, PutDHCPSettings,
\* ApplySnapshot).
THEOREM ColumnsKeepTheirOwners == SettingsSpec => OwnersKept
<1> DEFINE Step == /\ role = "replica" /\ pulled' = pulled => DhcpOnlyChange(row, row')
                   /\ pulled' # pulled => \A f \in {"local", "dhcp"} : row'[f] = row[f]
<1>0. BootOK BY BootAssumption
<1>1. ASSUME SettingsInv, SettingsNext PROVE Step
  <2>1. row \in [Fields -> Requests \cup {Boot} \cup 1 .. MaxPulls] /\ pulled \in Nat
    BY <1>0, <1>1 DEF SettingsInv, SettingsTypeOK, Rows, BootOK
  <2>2. \A r \in Requests : PutSettings(r) => role = "primary" /\ pulled' = pulled
    BY <1>1 DEF SettingsInv, Writing, PutSettings, pullVars
  <2>3. \A r \in Requests : PutDHCPSettings(r) => DhcpOnlyChange(row, row') /\ pulled' = pulled
    BY <2>1 DEF PutDHCPSettings, pullVars, Fields, DhcpOnlyChange
  <2>4. PullCommit => (\A f \in {"local", "dhcp"} : row'[f] = row[f]) /\ pulled' # pulled
    BY <2>1 DEF PullCommit, Fields
  <2>5. \/ row' = row /\ pulled' = pulled
        \/ PullCommit \/ \E r \in Requests : PutSettings(r) \/ PutDHCPSettings(r)
    BY <1>1 DEF SettingsNext, Compose, EnterSet, Refuse, Publish, RebuildRead, RebuildSwap,
                RebuildFails, LoadCurrent, Apply, Again, PullRebuildRead, PullRebuildSwap,
                PullRebuildFails, PullLoadCurrent, PullApply, Promote, pullVars
  <2> QED BY <2>2, <2>3, <2>4, <2>5 DEF DhcpOnlyChange
<1> HIDE DEF Step
<1>2. SettingsInit => SettingsInv BY <1>0, SettingsStart
<1>3. SettingsInv /\ [SettingsNext]_settingsVars => SettingsInv' BY <1>0, SettingsKept
<1>4. SettingsInv /\ [SettingsNext]_settingsVars => [Step]_settingsVars BY <1>1
<1>5. SettingsSpec => [][Step]_settingsVars BY <1>2, <1>3, <1>4, PTL DEF SettingsSpec
<1> QED BY <1>5 DEF OwnersKept, Step
=============================================================================
