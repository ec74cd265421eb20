-------------------------- MODULE SettingsService --------------------------
(***************************************************************************)
(* The settings row and its three copies: the database, the settings       *)
(* holder's snapshot, and what the live components were last given.        *)
(* PATCH /api/v1/settings handlers, the pull loop of a replica, and a      *)
(* promotion work on them concurrently.                                    *)
(*                                                                         *)
(* A row is three fields: "upstreams" stands for every replicated column,  *)
(* "dhcp" for the node-local columns a replica may edit, "local" for the   *)
(* other node-local ones (lease file, discovery interval, logging).  A     *)
(* field's value is abstracted to who wrote it last.                       *)
(***************************************************************************)
EXTENDS Integers

CONSTANTS
    Requests,   \* PATCH requests, each editing one field
    Boot,       \* the value every field boots with
    MaxPulls    \* bound: snapshots the pull loop applies

Fields == {"upstreams", "local", "dhcp"}

VARIABLES
    row,        \* [Fields -> value]: the settings row in the database
    cur,        \* settings.Holder.cur
    live,       \* the snapshot liveComponents.Apply ran with last
    role,       \* "replica" or "primary"
    writeMu,    \* Service.writeMu: the request in Set, or Boot when free
    rebuildMu,  \* Holder.rebuildMu: "held" or "free"
    pc,         \* [Requests -> where the handler is]
    field,      \* [Requests -> the field it edits]
    doc,        \* [Requests -> the row it composed, later the snapshot it applies]
    pull,       \* where the pull loop is; "off" once stopped
    pulled,     \* number of the snapshot being applied
    pullDoc,    \* the snapshot the pull loop has in hand
    read,       \* [Requests \cup {Boot} -> the row Rebuild read]; Boot is the pull loop
    failed      \* history: the last Rebuild failed, and its caller was told

settingsVars == <<row, cur, live, role, writeMu, rebuildMu, pc, field, doc,
                  pull, pulled, pullDoc, read, failed>>

BootOK == Boot \notin Requests /\ Boot \notin Nat /\ MaxPulls \in Nat
ASSUME BootAssumption == BootOK

Rows == [Fields -> Requests \cup {Boot} \cup 1 .. MaxPulls]
BootRow == [f \in Fields |-> Boot]

SettingsInit ==
    /\ row = BootRow /\ cur = BootRow /\ live = BootRow
    /\ role \in {"replica", "primary"}
    /\ writeMu = Boot /\ rebuildMu = "free"
    /\ pc = [r \in Requests |-> "idle"]
    /\ field = [r \in Requests |-> "dhcp"]
    /\ doc = [r \in Requests |-> BootRow]
    /\ pull = IF role = "replica" THEN "idle" ELSE "off"
    /\ pulled = 0 /\ pullDoc = BootRow
    /\ read = [x \in Requests \cup {Boot} |-> BootRow]
    /\ failed = FALSE

pullVars == <<pull, pulled, pullDoc>>
requestVars == <<writeMu, pc, field, doc>>

----------------------------------------------------------------------------
(* A PATCH request *)

To(r, where) == pc' = [pc EXCEPT ![r] = where]

\* patchSettings: Get returns the running snapshot's row, and the request's keys
\* are merged over it.
Compose(r, f) ==
    /\ pc[r] = "idle"
    /\ field' = [field EXCEPT ![r] = f]
    /\ doc' = [doc EXCEPT ![r] = [cur EXCEPT ![f] = r]]
    /\ To(r, "composed")
    /\ UNCHANGED <<row, cur, live, role, writeMu, rebuildMu, pullVars, read, failed>>

\* dhcpOnlyChange: the rows differ in the DHCP columns at most.
DhcpOnlyChange(prev, v) == \A f \in Fields \ {"dhcp"} : v[f] = prev[f]

\* Service.Set takes writeMu and picks its path: a primary writes the whole row,
\* a replica only a change that stays within the DHCP fields of what is running.
EnterSet(r) ==
    /\ pc[r] = "composed" /\ writeMu = Boot
    /\ writeMu' = r
    /\ \/ role # "replica" /\ To(r, "put")
       \/ role = "replica" /\ DhcpOnlyChange(cur, doc[r]) /\ To(r, "putDHCP")
    /\ UNCHANGED <<row, cur, live, role, rebuildMu, field, doc, pullVars, read, failed>>

\* Validation refuses the row, it is ErrReadOnlyReplica, or the store cannot write
\* it: nothing was written.
Refuse(r) ==
    /\ pc[r] = "composed" /\ writeMu = Boot
    /\ To(r, "refused")
    /\ UNCHANGED <<row, cur, live, role, writeMu, rebuildMu, field, doc, pullVars, read, failed>>

\* PutSettings, or PutSettingsRenamingZone: the whole row.
PutSettings(r) ==
    /\ pc[r] = "put"
    /\ row' = doc[r]
    /\ To(r, "publish")
    /\ UNCHANGED <<cur, live, role, writeMu, rebuildMu, field, doc, pullVars, read, failed>>

\* Mutant: the persisted snapshot is applied and never published.
PublishSkipped(r) ==
    /\ pc[r] = "publish" /\ rebuildMu = "free"
    /\ To(r, "apply")
    /\ UNCHANGED <<row, cur, live, role, writeMu, rebuildMu, field, doc, pullVars, read, failed>>

\* Holder.publish with the snapshot built from the row just persisted.
Publish(r) ==
    /\ pc[r] = "publish" /\ rebuildMu = "free"
    /\ cur' = doc[r]
    /\ failed' = FALSE
    /\ To(r, "apply")
    /\ UNCHANGED <<row, live, role, writeMu, rebuildMu, field, doc, pullVars, read>>

\* Mutant: a replica's write puts the whole row it composed.
PutWholeRow(r) ==
    /\ pc[r] = "putDHCP"
    /\ row' = doc[r]
    /\ To(r, "rebuild")
    /\ UNCHANGED <<cur, live, role, writeMu, rebuildMu, field, doc, pullVars, read, failed>>

\* setDHCPOnly: PutDHCPSettings, one UPDATE over the dhcp_* columns.
PutDHCPSettings(r) ==
    /\ pc[r] = "putDHCP"
    /\ row' = [row EXCEPT !["dhcp"] = doc[r]["dhcp"]]
    /\ To(r, "rebuild")
    /\ UNCHANGED <<cur, live, role, writeMu, rebuildMu, field, doc, pullVars, read, failed>>

\* setDHCPOnly: Holder.Rebuild reads the row under rebuildMu ...
RebuildRead(r) ==
    /\ pc[r] = "rebuild" /\ rebuildMu = "free"
    /\ rebuildMu' = "held"
    /\ read' = [read EXCEPT ![r] = row]
    /\ To(r, "swap")
    /\ UNCHANGED <<row, cur, live, role, writeMu, field, doc, pullVars, failed>>

\* ... and swaps what it built.
RebuildSwap(r) ==
    /\ pc[r] = "swap"
    /\ cur' = read[r]
    /\ rebuildMu' = "free"
    /\ failed' = FALSE
    /\ To(r, "current")
    /\ UNCHANGED <<row, live, role, writeMu, field, doc, pullVars, read>>

\* The row cannot be read or built: Set returns the error, the write stays.
RebuildFails(r) ==
    /\ pc[r] = "swap"
    /\ rebuildMu' = "free" /\ writeMu' = Boot
    /\ failed' = TRUE
    /\ To(r, "done")
    /\ UNCHANGED <<row, cur, live, role, field, doc, pullVars, read>>

\* onApply(h.Current()): the argument is loaded before liveComponents.Apply locks.
LoadCurrent(r) ==
    /\ pc[r] = "current"
    /\ doc' = [doc EXCEPT ![r] = cur]
    /\ To(r, "apply")
    /\ UNCHANGED <<row, cur, live, role, writeMu, rebuildMu, field, pullVars, read, failed>>

\* liveComponents.Apply, one call at a time under its own mutex; Set returns.
Apply(r) ==
    /\ pc[r] = "apply"
    /\ live' = doc[r]
    /\ writeMu' = Boot
    /\ To(r, "done")
    /\ UNCHANGED <<row, cur, role, rebuildMu, field, doc, pullVars, read, failed>>

\* The next PATCH of the same client.
Again(r) ==
    /\ pc[r] \in {"done", "refused"}
    /\ To(r, "idle")
    /\ UNCHANGED <<row, cur, live, role, writeMu, rebuildMu, field, doc, pullVars, read, failed>>

----------------------------------------------------------------------------
(* The pull loop: replicaApplier.Apply *)

\* ApplySnapshot: the primary's replicated columns, this node's own for the rest.
PullCommit ==
    /\ pull = "idle" /\ pulled < MaxPulls
    /\ pulled' = pulled + 1
    /\ row' = [row EXCEPT !["upstreams"] = pulled + 1]
    /\ pull' = "rebuild"
    /\ UNCHANGED <<cur, live, role, rebuildMu, requestVars, pullDoc, read, failed>>

PullRebuildRead ==
    /\ pull = "rebuild" /\ rebuildMu = "free"
    /\ rebuildMu' = "held"
    /\ read' = [read EXCEPT ![Boot] = row]
    /\ pull' = "swap"
    /\ UNCHANGED <<row, cur, live, role, requestVars, pulled, pullDoc, failed>>

PullRebuildSwap ==
    /\ pull = "swap"
    /\ cur' = read[Boot]
    /\ rebuildMu' = "free"
    /\ failed' = FALSE
    /\ pull' = "current"
    /\ UNCHANGED <<row, live, role, requestVars, pulled, pullDoc, read>>

\* The apply fails and the next poll pulls again.
PullRebuildFails ==
    /\ pull = "swap"
    /\ rebuildMu' = "free"
    /\ failed' = TRUE
    /\ pull' = "idle"
    /\ UNCHANGED <<row, cur, live, role, requestVars, pulled, pullDoc, read>>

\* live.Apply(settings.Current())
PullLoadCurrent ==
    /\ pull = "current"
    /\ pullDoc' = cur
    /\ pull' = "apply"
    /\ UNCHANGED <<row, cur, live, role, rebuildMu, requestVars, pulled, read, failed>>

PullApply ==
    /\ pull = "apply"
    /\ live' = pullDoc
    /\ pull' = "idle"
    /\ UNCHANGED <<row, cur, role, rebuildMu, requestVars, pulled, pullDoc, read, failed>>

\* Promote: the pull loop is stopped before the role flips.
Promote ==
    /\ role = "replica" /\ pull = "idle"
    /\ role' = "primary" /\ pull' = "off"
    /\ UNCHANGED <<row, cur, live, rebuildMu, requestVars, pulled, pullDoc, read, failed>>

----------------------------------------------------------------------------
SettingsNext ==
    \/ \E r \in Requests :
        \/ \E f \in Fields : Compose(r, f)
        \/ EnterSet(r) \/ Refuse(r) \/ PutSettings(r) \/ Publish(r)
        \/ PutDHCPSettings(r) \/ RebuildRead(r) \/ RebuildSwap(r) \/ RebuildFails(r)
        \/ LoadCurrent(r) \/ Apply(r) \/ Again(r)
    \/ PullCommit \/ PullRebuildRead \/ PullRebuildSwap \/ PullRebuildFails
    \/ PullLoadCurrent \/ PullApply
    \/ Promote

SettingsSpec == SettingsInit /\ [][SettingsNext]_settingsVars

----------------------------------------------------------------------------
(* Properties *)

\* Where a request is inside Service.Set.
InSet == {"put", "publish", "putDHCP", "rebuild", "swap", "current", "apply"}

\* Types, and both mutexes held exactly by who is inside them, on every path out
\* of Set and Rebuild.
SettingsTypeOK ==
    /\ row \in Rows /\ cur \in Rows /\ live \in Rows
    /\ role \in {"replica", "primary"}
    /\ writeMu \in Requests \cup {Boot} /\ rebuildMu \in {"free", "held"}
    /\ pc \in [Requests -> {"idle", "composed", "put", "publish", "putDHCP", "rebuild",
                            "swap", "current", "apply", "done", "refused"}]
    /\ field \in [Requests -> Fields]
    /\ doc \in [Requests -> Rows] /\ pullDoc \in Rows
    /\ pull \in {"idle", "rebuild", "swap", "current", "apply", "off"}
    /\ pulled \in 0 .. MaxPulls
    /\ read \in [Requests \cup {Boot} -> Rows]
    /\ failed \in BOOLEAN
    /\ \A r \in Requests : pc[r] \in InSet <=> writeMu = r
    /\ rebuildMu = "held" <=> pull = "swap" \/ \E r \in Requests : pc[r] = "swap"

\* Nobody is between a commit and the end of its apply.
Quiet ==
    /\ writeMu = Boot
    /\ pull \in {"idle", "off"}

\* Once every writer has returned without an error, the settings holder has the
\* stored row, in whatever order commits, rebuilds and publishes interleaved.
HolderFresh == Quiet /\ ~failed => cur = row

\* Each part of the row keeps its owner: on a replica only a pull changes the replicated
\* columns and nothing the other node-local ones, however stale the row a request
\* composed, and no pull changes a node-local column.
OwnersKept ==
    [][/\ role = "replica" /\ pulled' = pulled => DhcpOnlyChange(row, row')
       /\ pulled' # pulled => \A f \in {"local", "dhcp"} : row'[f] = row[f]]_settingsVars

----------------------------------------------------------------------------
(* Why the holder is fresh *)

\* The whole row is written by primaries only, which pull nothing.
Writing ==
    /\ role = "primary" <=> pull = "off"
    /\ \A r \in Requests : pc[r] \in {"put", "publish"} => role = "primary"
    /\ \A r \in Requests : pc[r] = "publish" => row = doc[r]

\* One rebuild at a time; a row that changes under it changes by a writer who waits to
\* rebuild after it.
Rebuilding ==
    /\ \A r \in Requests : pc[r] = "swap" => pull # "swap"
    /\ pull = "swap" => read[Boot] = row \/ \E r \in Requests : pc[r] = "rebuild"
    /\ \A r \in Requests : pc[r] = "swap" => read[r] = row \/ pull = "rebuild"

\* The stored row is on its way into the holder.
Coming ==
    \/ pull = "rebuild" \/ (pull = "swap" /\ read[Boot] = row)
    \/ \E r \in Requests : pc[r] \in {"publish", "rebuild"} \/ (pc[r] = "swap" /\ read[r] = row)

\* The holder has the stored row, is about to get it, or its caller has been told.
SettingsInv == SettingsTypeOK /\ Writing /\ Rebuilding /\ (failed \/ cur = row \/ Coming)

----------------------------------------------------------------------------
(* What the README promises and the code does not keep *)

\* "keys you leave out keep their value, so two people editing different settings
\* do not clobber each other" (README): a write changes only the edited field.
NoClobber ==
    [][\A r \in Requests : pc[r] = "put" /\ pc'[r] # "put" =>
          \A f \in Fields \ {field[r]} : row'[f] = row[f]]_settingsVars

\* "Everything applies the moment it is saved" (README): once every writer has
\* returned, the live components run what is stored.
LiveFresh == Quiet /\ ~failed => live = row
=============================================================================
