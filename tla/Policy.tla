------------------------------- MODULE Policy -------------------------------
(***************************************************************************)
(* Blacklist filtering: the lists, the rules and the global switch in the  *)
(* database, the handlers that edit them, the goroutines that download     *)
(* list bodies, the pull loop of a replica, and the snapshot that every    *)
(* forwarded query is decided against.                                     *)
(*                                                                         *)
(* A domain name is the sequence of its labels, normalised.  A source is a *)
(* URL read in one format; what it serves is a version, and a downloaded   *)
(* body is <<source, version>>.  The validators kept with a body (ETag,    *)
(* Last-Modified) are abstracted to the download they came with.  The      *)
(* block TTL rides with the switch and is left out, as are the counters    *)
(* and the refresh times: a refresh may find any list due.                 *)
(***************************************************************************)
EXTENDS Naturals, Sequences, FiniteSets, FiniteSetsExt

CONSTANTS
    Handlers,      \* HTTP handlers of the API and the web interface
    Domains,       \* names that are queried
    RuleDomains,   \* the ones a rule may be for
    ListNames,
    Manifest,      \* the definitions of the built-in lists, in the order they are shipped
    Sources,
    Url,           \* [Sources -> URL]: one URL may be read in several formats
    Content,       \* [Sources \X versions -> the domains of that body]
    Edits,         \* list definitions an operator saves
    Docs,          \* policies that are shipped, or pulled from a primary
    None,
    Versions,      \* [Sources -> what the source may serve when it is asked]
    MaxId,         \* bound: list ids
    MaxOps         \* bound: edits, imports, manual refreshes and pulls

Builtins == {Manifest[j].name : j \in DOMAIN Manifest}
Bodies == UNION {{s} \X Versions[s] : s \in Sources}
Kinds == {"allow", "deny"}
Ids == 1 .. MaxId
Definitions == [name : ListNames, src : Sources, on : BOOLEAN]
Rows == [name : ListNames, src : Sources, on : BOOLEAN, builtin : BOOLEAN,
         body : Bodies \cup {None}, tag : Bodies \cup {None}]
RuleTables == [RuleDomains -> Kinds \cup {None}]
Workers == Handlers \cup {"refresher", "puller"}

PolicyOK ==
    /\ Manifest \in Seq(Definitions) /\ DOMAIN Manifest \subseteq Ids
    /\ \A j \in DOMAIN Manifest : Manifest[j].on
    /\ \A j, k \in DOMAIN Manifest : Manifest[j].name = Manifest[k].name => j = k
    /\ RuleDomains \subseteq Domains /\ Edits \subseteq Definitions
    /\ \A doc \in Docs : /\ doc.enabled \in BOOLEAN /\ doc.rules \in RuleTables
                         /\ doc.lists \in Seq(Definitions) /\ DOMAIN doc.lists \subseteq Ids
                         /\ \A i, j \in DOMAIN doc.lists : doc.lists[i].name = doc.lists[j].name => i = j
    \* Names that are parsed or queried have at least one label.
    /\ \A d \in Domains \cup UNION {Content[b] : b \in Bodies} : d \in Seq(STRING) /\ d # <<>>
    /\ {MaxId, MaxOps} \subseteq Nat
    /\ None \notin Bodies \cup Kinds \cup Workers
    /\ Handlers \cap {"refresher", "puller"} = {}
ASSUME PolicyAssumption == PolicyOK

VARIABLES
    enabled,   \* blacklist_settings.enabled
    lists,     \* blacklist_lists: [some ids -> Rows]
    rules,     \* blacklist_rules: one kind per domain
    live,      \* Holder.cur
    mu,        \* Holder.rebuildMu: the worker in Rebuild, or None
    work,      \* [Workers -> what each is doing, with its locals]
    role,      \* "primary" or "replica", as at boot
    ops,       \* operations started so far
    unserved,  \* history: a committed change whose caller was told it failed is not served
    covers,    \* history: the rebuild under way started after the last such failure
    shipped    \* history: [built-in -> its URL], or None once an import was crossed or failed

vars == <<enabled, lists, rules, live, mu, work, role, ops, unserved, covers, shipped>>
db == <<enabled, lists, rules>>

----------------------------------------------------------------------------
(* The snapshot, and the decision on a name. *)

\* Build: the bodies of the enabled lists that have one.
Serving(ls) == {ls[i].body : i \in {j \in DOMAIN ls : ls[j].on /\ ls[j].body # None}}
Build(e, ls, rs) ==
    [enabled |-> e, bodies |-> Serving(ls),
     deny |-> {d \in RuleDomains : rs[d] = "deny"},
     allow |-> {d \in RuleDomains : rs[d] = "allow"}]

\* Match: the name itself or a suffix of it that starts at a label.
Match(set, name) == \E i \in 1 .. Len(name) : SubSeq(name, i, Len(name)) \in set

\* Decide: blocked or not.
Decide(snap, name) ==
    /\ snap.enabled
    /\ \/ Match(snap.deny, name)
       \/ /\ ~Match(snap.allow, name)
          /\ \E b \in snap.bodies : Match(Content[b], name)

----------------------------------------------------------------------------
(* The list table. *)

Named(ls, n) == {i \in DOMAIN ls : ls[i].name = n}
\* SQLite gives a new row the largest id in use plus one: ids come back.
NewId(ls) == IF DOMAIN ls = {} THEN 1 ELSE Max(DOMAIN ls) + 1
FreshRow(d, b) == [name |-> d.name, src |-> d.src, on |-> d.on, builtin |-> b,
                   body |-> None, tag |-> None]
Insert(ls, row) == [i \in DOMAIN ls \cup {NewId(ls)} |-> IF i \in DOMAIN ls THEN ls[i] ELSE row]
Without(ls, S) == [i \in DOMAIN ls \ S |-> ls[i]]

\* The definitions of a sequence that have no row get one in their order, and the ids
\* after the largest in use.
Missing(ls, defs) == {j \in DOMAIN defs : Named(ls, defs[j].name) = {}}
IdOf(ls, defs, j) == NewId(ls) + Cardinality({k \in Missing(ls, defs) : k < j})
Extend(ls, defs) ==
    [i \in DOMAIN ls \cup {IdOf(ls, defs, j) : j \in Missing(ls, defs)} |->
        IF i \in DOMAIN ls THEN ls[i]
        ELSE LET d == defs[CHOOSE j \in Missing(ls, defs) : IdOf(ls, defs, j) = i]
             IN  FreshRow(d, d.name \in Builtins)]

Idle == [at |-> "idle", arg |-> None, todo |-> {}, got |-> None, owes |-> FALSE, kind |-> None]

\* serve.go: the built-ins are seeded and the first snapshot built before anything runs.
Booted(ls) == Extend(ls, Manifest)

Init ==
    /\ enabled = TRUE
    /\ lists = Booted(<<>>)
    /\ rules = [d \in RuleDomains |-> None]
    /\ live = Build(enabled, lists, rules)
    /\ mu = None
    /\ work = [w \in Workers |-> Idle]
    /\ role \in {"primary", "replica"}
    /\ ops = 0 /\ unserved = FALSE /\ covers = FALSE
    /\ shipped = [j \in DOMAIN Manifest |-> Url[Manifest[j].src]]

----------------------------------------------------------------------------
(* Holder.Rebuild, called by every worker: three reads under rebuildMu.    *)

\* Where a worker goes after a commit.
Commit(w) == work' = [work EXCEPT ![w] = [Idle EXCEPT !.at = "rebuild", !.owes = TRUE]]

Reading(w) == [work[w] EXCEPT !.at = "lists", !.got = [enabled |-> enabled, bodies |-> {}]]

\* Mutant: Rebuild does not take rebuildMu.
RebuildStartUnlocked(w) ==
    /\ work[w].at = "rebuild"
    /\ mu' = w /\ covers' = TRUE
    /\ work' = [work EXCEPT ![w] = Reading(w)]
    /\ UNCHANGED <<enabled, lists, rules, live, role, ops, unserved, shipped>>

RebuildStart(w) ==
    /\ work[w].at = "rebuild" /\ mu = None
    /\ mu' = w /\ covers' = TRUE
    /\ work' = [work EXCEPT ![w] = Reading(w)]
    /\ UNCHANGED <<enabled, lists, rules, live, role, ops, unserved, shipped>>

RebuildLists(w) ==
    /\ work[w].at = "lists"
    /\ work' = [work EXCEPT ![w].at = "rules", ![w].got.bodies = Serving(lists)]
    /\ UNCHANGED <<enabled, lists, rules, live, mu, role, ops, unserved, covers, shipped>>

RebuildPublish(w) ==
    /\ work[w].at = "rules"
    /\ live' = [Build(work[w].got.enabled, <<>>, rules) EXCEPT !.bodies = work[w].got.bodies]
    /\ mu' = None
    /\ work' = [work EXCEPT ![w] = Idle]
    /\ unserved' = (unserved /\ ~covers)
    /\ covers' = FALSE
    /\ UNCHANGED <<enabled, lists, rules, role, ops, shipped>>

\* A read fails: the old snapshot stays, the caller is told (a refresh logs it).
RebuildFail(w) ==
    /\ work[w].at \in {"lists", "rules"}
    /\ mu' = None
    /\ work' = [work EXCEPT ![w] = Idle]
    /\ unserved' = (unserved \/ work[w].owes)
    /\ covers' = FALSE
    /\ UNCHANGED <<enabled, lists, rules, live, role, ops, shipped>>

\* An operation gives up between its commit and its rebuild.
GiveUp(w) ==
    /\ work' = [work EXCEPT ![w] = Idle]
    /\ unserved' = TRUE
    /\ covers' = FALSE

----------------------------------------------------------------------------
(* Edits.  WriteGate lets them through on a primary only. *)

Begin(h) ==
    /\ work[h].at = "idle" /\ h \in Handlers /\ role = "primary" /\ ops < MaxOps
    /\ ops' = ops + 1

Served == <<live, mu, role, unserved, covers>>
Others == <<Served, shipped>>

\* For the history: somebody is between two steps of an operation of these kinds.
Under(kinds) == \E w \in Workers : work[w].at \in kinds
Edited == shipped' = IF Under({"seed", "seeding"}) THEN None ELSE shipped

\* PATCH settings: the current row is read and the body merged onto it.
PatchSettings(h, e) ==
    /\ Begin(h)
    /\ work' = [work EXCEPT ![h] = [Idle EXCEPT !.at = "set", !.arg = IF e = None THEN enabled ELSE e]]
    /\ UNCHANGED <<db, Others>>

SetSettings(h) ==
    /\ work[h].at = "set"
    /\ enabled' = work[h].arg
    /\ Commit(h)
    /\ UNCHANGED <<lists, rules, ops, Others>>

CreateList(h, d) ==
    /\ Begin(h)
    /\ Named(lists, d.name) = {} /\ NewId(lists) \in Ids
    /\ lists' = Insert(lists, FreshRow(d, FALSE))
    /\ Commit(h)
    /\ Edited
    /\ UNCHANGED <<enabled, rules, Served>>

\* Mutant: a built-in may be renamed and repointed.
MayPutAny(row, d) == TRUE

\* A built-in keeps its shipped name and URL.
MayPut(row, d) == row.builtin => d.name = row.name /\ Url[d.src] = Url[row.src]

\* PutList of an existing id: look it up, then update it by id.
PutListCheck(h, i, d) ==
    /\ Begin(h)
    /\ i \in DOMAIN lists /\ MayPut(lists[i], d)
    /\ work' = [work EXCEPT ![h] = [Idle EXCEPT !.at = "put", !.arg = <<i, d>>]]
    /\ Edited
    /\ UNCHANGED <<db, Served>>

PutListWrite(h) ==
    LET i == work[h].arg[1]
        d == work[h].arg[2]
        ok == i \in DOMAIN lists /\ Named(lists, d.name) \subseteq {i}
    IN  /\ work[h].at = "put"
        /\ lists' = IF ok THEN [lists EXCEPT ![i].name = d.name, ![i].src = d.src, ![i].on = d.on]
                          ELSE lists
        /\ IF ok THEN Commit(h) ELSE work' = [work EXCEPT ![h] = Idle]
        /\ UNCHANGED <<enabled, rules, ops, Others>>

DeleteListCheck(h, i) ==
    /\ Begin(h)
    /\ i \in DOMAIN lists /\ ~lists[i].builtin
    /\ work' = [work EXCEPT ![h] = [Idle EXCEPT !.at = "delete", !.arg = i]]
    /\ Edited
    /\ UNCHANGED <<db, Served>>

DeleteListWrite(h) ==
    /\ work[h].at = "delete"
    /\ lists' = Without(lists, {work[h].arg})
    /\ IF work[h].arg \in DOMAIN lists THEN Commit(h) ELSE work' = [work EXCEPT ![h] = Idle]
    /\ UNCHANGED <<enabled, rules, ops, Others>>

\* One rule per domain: the unique index refuses a second one of either kind.
AddRule(h, k, d) ==
    /\ Begin(h)
    /\ rules[d] = None
    /\ rules' = [rules EXCEPT ![d] = k]
    /\ Commit(h)
    /\ UNCHANGED <<enabled, lists, Others>>

DeleteRule(h, d) ==
    /\ Begin(h)
    /\ rules[d] # None
    /\ rules' = [rules EXCEPT ![d] = None]
    /\ Commit(h)
    /\ UNCHANGED <<enabled, lists, Others>>

----------------------------------------------------------------------------
(* ReplacePolicy (import --replace): the bodies to keep are read first, the *)
(* tables are replaced in one transaction, the missing built-ins seeded.   *)

\* By URL; of two lists with one URL the later row wins.
Kept(ls) ==
    [u \in {Url[ls[i].src] : i \in DOMAIN ls} |->
        LET last == ls[Max({i \in DOMAIN ls : Url[ls[i].src] = u})]
        IN  [body |-> last.body, tag |-> last.tag]]

ImportRead(h, doc) ==
    /\ Begin(h)
    /\ work' = [work EXCEPT ![h] = [Idle EXCEPT !.at = "import", !.arg = doc, !.got = Kept(lists)]]
    /\ UNCHANGED <<db, Others>>

\* The builtin flag comes from the manifest, the body from a list that had the URL.
ImportedRow(d, kept) ==
    LET row == FreshRow(d, d.name \in Builtins)
        u == Url[d.src]
    IN  IF u \in DOMAIN kept
        THEN [row EXCEPT !.body = kept[u].body, !.tag = kept[u].tag]
        ELSE row

\* For the history: the URLs the built-ins have from now on, an imported definition's
\* or the manifest's.
ShippedBy(doc) ==
    [j \in DOMAIN Manifest |->
        LET named == {i \in DOMAIN doc.lists : doc.lists[i].name = Manifest[j].name}
        IN  IF named = {} THEN Url[Manifest[j].src]
            ELSE Url[doc.lists[CHOOSE i \in named : TRUE].src]]

ImportWrite(h) ==
    LET doc == work[h].arg
    IN  /\ work[h].at = "import"
        /\ enabled' = doc.enabled
        /\ lists' = [i \in DOMAIN doc.lists |-> ImportedRow(doc.lists[i], work[h].got)]
        /\ rules' = doc.rules
        /\ work' = [work EXCEPT ![h] = [Idle EXCEPT !.at = "seed", !.owes = TRUE]]
        /\ shipped' = IF shipped = None \/ Under({"put", "delete"}) THEN None ELSE ShippedBy(doc)
        /\ UNCHANGED <<ops, Served>>

SeedRead(h) ==
    /\ work[h].at = "seed"
    /\ work' = [work EXCEPT ![h].at = "seeding", ![h].todo = Missing(lists, Manifest)]
    /\ UNCHANGED <<db, ops, Others>>

SeedPut(h) ==
    /\ work[h].at = "seeding"
    /\ \/ /\ work[h].todo = {}
          /\ Commit(h)
          /\ UNCHANGED <<lists, unserved, covers, shipped>>
       \/ \E j \in work[h].todo :
             /\ \A k \in work[h].todo : j <= k
             /\ \/ /\ Named(lists, Manifest[j].name) = {} /\ NewId(lists) \in Ids
                   /\ lists' = Insert(lists, FreshRow(Manifest[j], TRUE))
                   /\ work' = [work EXCEPT ![h].todo = @ \ {j}]
                   /\ UNCHANGED <<unserved, covers, shipped>>
                \* The name was taken since it was read: the import stops here.
                \/ /\ Named(lists, Manifest[j].name) # {}
                   /\ GiveUp(h)
                   /\ shipped' = None
                   /\ UNCHANGED lists
    /\ UNCHANGED <<enabled, rules, live, mu, role, ops>>

----------------------------------------------------------------------------
(* The pull loop of a replica: replaceBlacklistDefinitions, matched by name. *)

\* Mutant: a repointed list loses its body and keeps the validators.
RepointedKeepsTag(row, d) ==
    [row EXCEPT !.src = d.src, !.on = d.on,
                !.body = IF Url[d.src] = Url[row.src] THEN row.body ELSE None]

\* The body belongs to the URL, not the name.
Repointed(row, d) ==
    IF Url[d.src] = Url[row.src]
    THEN [row EXCEPT !.src = d.src, !.on = d.on, !.builtin = d.name \in Builtins]
    ELSE FreshRow(d, d.name \in Builtins)

ApplyDefinitions(doc) ==
    LET incoming == {doc.lists[j] : j \in DOMAIN doc.lists}
        stay == {i \in DOMAIN lists : \E d \in incoming : d.name = lists[i].name}
        updated == [i \in DOMAIN lists |->
                      IF i \in stay
                      THEN Repointed(lists[i], CHOOSE d \in incoming : d.name = lists[i].name)
                      ELSE lists[i]]
    IN  Without(Extend(updated, doc.lists), DOMAIN lists \ stay)

ApplySnapshot(doc) ==
    /\ role = "replica" /\ work["puller"].at = "idle" /\ ops < MaxOps
    /\ DOMAIN ApplyDefinitions(doc) \subseteq Ids
    /\ enabled' = doc.enabled
    /\ lists' = ApplyDefinitions(doc)
    /\ rules' = doc.rules
    /\ Commit("puller")
    /\ ops' = ops + 1
    /\ UNCHANGED Others

\* An earlier rebuild of the applier fails: the policy is not rebuilt; the pull is retried.
ApplyAbandon ==
    /\ work["puller"].at = "rebuild"
    /\ GiveUp("puller")
    /\ UNCHANGED <<db, live, mu, role, ops, shipped>>

----------------------------------------------------------------------------
(* Refreshes: the scheduler's, and the operator's "refresh" buttons. *)

Read(S) == {[id |-> i, src |-> lists[i].src, tag |-> lists[i].tag] : i \in S}
Enabled == {i \in DOMAIN lists : lists[i].on}

RefreshDue(S) ==
    /\ work["refresher"].at = "idle" /\ S # {} /\ S \subseteq Enabled
    /\ work' = [work EXCEPT !["refresher"] =
                   [Idle EXCEPT !.at = "refresh", !.todo = Read(S), !.kind = "due"]]
    /\ UNCHANGED <<db, ops, Others>>

RefreshAll(h) ==
    /\ Begin(h)
    /\ work' = [work EXCEPT ![h] = [Idle EXCEPT !.at = "refresh", !.todo = Read(Enabled), !.kind = "all"]]
    /\ UNCHANGED <<db, Others>>

RefreshList(h, i) ==
    /\ Begin(h)
    /\ i \in DOMAIN lists
    /\ work' = [work EXCEPT ![h] = [Idle EXCEPT !.at = "refresh", !.todo = Read({i}), !.kind = "list"]]
    /\ UNCHANGED <<db, Others>>

\* A 304 is answered only to a request that carries validators, the stored ones of
\* whatever server.
MayBeUnmodified(t) == t.tag # None

\* Parse finds at least one usable domain in the body.
Parses(b) == Content[b] # {}

\* A download that fails, does not parse or holds no usable domain is recorded as an
\* error and changes nothing else.
Fetch(w) ==
    /\ work[w].at = "refresh"
    /\ \E t \in work[w].todo :
          \/ \* an error
             work' = [work EXCEPT ![w].todo = @ \ {t},
                                  ![w].kind = IF @ = "list" THEN "failed" ELSE @]
          \/ \* 304
             /\ MayBeUnmodified(t)
             /\ work' = [work EXCEPT ![w].todo = @ \ {t}]
          \/ \E v \in Versions[t.src] :
             /\ Parses(<<t.src, v>>)
             /\ work' = [work EXCEPT ![w].at = "install", ![w].got = [row |-> t, body |-> <<t.src, v>>]]
    /\ UNCHANGED <<db, ops, Others>>

\* SetBlacklistSnapshot: one UPDATE by id; no such row is a failed refresh.
Install(w) ==
    LET t == work[w].got.row
        ok == t.id \in DOMAIN lists
    IN  /\ work[w].at = "install"
        /\ lists' = IF ok THEN [lists EXCEPT ![t.id].body = work[w].got.body,
                                             ![t.id].tag = work[w].got.body]
                          ELSE lists
        /\ work' = [work EXCEPT ![w].at = "refresh", ![w].todo = @ \ {t}, ![w].got = None,
                                ![w].owes = @ \/ ok,
                                ![w].kind = IF ok \/ @ # "list" THEN @ ELSE "failed"]
        /\ UNCHANGED <<enabled, rules, ops, Others>>

\* RefreshDue rebuilds if a body changed, RefreshAll always, RefreshList unless it failed.
RefreshEnd(w) ==
    /\ work[w].at = "refresh" /\ work[w].todo = {}
    /\ LET rebuilds == \/ work[w].kind = "due" /\ work[w].owes
                       \/ work[w].kind \in {"all", "list"}
       IN  work' = [work EXCEPT ![w] = IF rebuilds THEN [Idle EXCEPT !.at = "rebuild", !.owes = work[w].owes]
                                                   ELSE Idle]
    /\ UNCHANGED <<db, ops, Others>>

\* A crash and the next boot.
Restart ==
    /\ DOMAIN Booted(lists) \subseteq Ids
    /\ lists' = Booted(lists)
    /\ live' = Build(enabled, lists', rules)
    /\ mu' = None
    /\ work' = [w \in Workers |-> Idle]
    /\ unserved' = FALSE /\ covers' = FALSE
    /\ UNCHANGED <<enabled, rules, role, ops, shipped>>

\* The operations the API and the blacklists page offer.
Handle(h) ==
    \/ \E e \in BOOLEAN \cup {None} : PatchSettings(h, e)
    \/ SetSettings(h)
    \/ \E d \in Edits : CreateList(h, d)
    \/ \E i \in Ids, d \in Edits : PutListCheck(h, i, d)
    \/ PutListWrite(h)
    \/ \E i \in Ids : DeleteListCheck(h, i) \/ RefreshList(h, i)
    \/ DeleteListWrite(h)
    \/ \E d \in RuleDomains : DeleteRule(h, d) \/ \E k \in Kinds : AddRule(h, k, d)
    \/ \E doc \in Docs : ImportRead(h, doc)
    \/ ImportWrite(h) \/ SeedRead(h) \/ SeedPut(h)
    \/ RefreshAll(h)

Next ==
    \/ \E h \in Handlers : Handle(h)
    \/ \E w \in Workers :
          \/ RebuildStart(w) \/ RebuildLists(w) \/ RebuildPublish(w) \/ RebuildFail(w)
          \/ Fetch(w) \/ Install(w) \/ RefreshEnd(w)
    \/ \E S \in SUBSET Enabled : RefreshDue(S)
    \/ \E doc \in Docs : ApplySnapshot(doc)
    \/ ApplyAbandon
    \/ Restart

Spec == Init /\ [][Next]_vars

----------------------------------------------------------------------------
(* Properties. *)

Steps == {"idle", "set", "put", "delete", "import", "seed", "seeding", "rebuild",
          "lists", "rules", "refresh", "install"}
Shape(t) == t = [at |-> t.at, arg |-> t.arg, todo |-> t.todo, got |-> t.got, owes |-> t.owes, kind |-> t.kind]

\* Every variable holds what its column or field can hold.
TypeOK ==
    /\ enabled \in BOOLEAN /\ rules \in RuleTables
    /\ lists = [i \in DOMAIN lists |-> lists[i]] /\ DOMAIN lists \subseteq Ids
    /\ \A i \in DOMAIN lists : lists[i] \in Rows
    /\ mu \in Workers \cup {None}
    /\ work = [w \in Workers |-> work[w]]
    /\ \A w \in Workers : Shape(work[w]) /\ work[w].at \in Steps /\ work[w].owes \in BOOLEAN
    /\ role \in {"primary", "replica"} /\ ops \in 0 .. MaxOps
    /\ {unserved, covers} \subseteq BOOLEAN
    /\ shipped \in [DOMAIN Manifest -> {Url[s] : s \in Sources}] \cup {None}

\* A rule or list entry d is for the name n: n is d, or ends in d at a label.
Covers(d, n) ==
    Len(d) <= Len(n) /\ \A k \in 1 .. Len(d) : d[Len(d) + 1 - k] = n[Len(n) + 1 - k]
Ruled(k, n) == \E d \in RuleDomains : rules[d] = k /\ Covers(d, n)
Listed(n) == \E i \in Enabled : lists[i].body # None /\ \E d \in Content[lists[i].body] : Covers(d, n)

\* Whenever no operation is between its commit and the end of its rebuild, and none
\* ended in an error, a query is decided as the database says: a denied name is
\* blocked, an allowed one is not, any other exactly if an enabled list holds it.
\* Edits, imports, downloads and pulls commit and rebuild in any interleaving.
FilterObeyed ==
    (~unserved /\ \A w \in Workers : ~work[w].owes) =>
        \A n \in Domains :
            Decide(live, n) = (enabled /\ (Ruled("deny", n) \/ (~Ruled("allow", n) /\ Listed(n))))

\* The validators stored with a list are those of the body stored with it, so a
\* "304 Not Modified" never stands for a body this node does not have.
TagDescribesBody == \A i \in DOMAIN lists : lists[i].tag = lists[i].body

\* On a primary every built-in list is there under its name, with the URL it was shipped
\* with or last imported with, or an import is about to seed it: whatever is edited,
\* disabled, reformatted, deleted and created, whichever documents replace the tables,
\* and when the process dies between a replacement and its seeding.  Not promised once
\* an edit of the lists has overlapped an import, or an import failed in its seeding.
Reseeds(j) ==
    \E w \in Workers : work[w].at = "seed" \/ (work[w].at = "seeding" /\ j \in work[w].todo)
AsShipped(row, j) == row.builtin /\ Url[row.src] = shipped[j]
BuiltinsKept ==
    (role = "primary" /\ shipped # None) =>
        \A j \in DOMAIN Manifest :
            Reseeds(j) \/ \E i \in Named(lists, Manifest[j].name) : AsShipped(lists[i], j)

----------------------------------------------------------------------------
(* Why the properties hold. *)

\* What is read early and written later, of each kind of operation, is fit to be written.
KeptOK(kept) == \A s \in DOMAIN kept : kept[s].body \in Bodies \cup {None} /\ kept[s].tag = kept[s].body
Fit(t) ==
    /\ t.at = "set" => t.arg \in BOOLEAN
    /\ t.at = "put" => t.arg \in Ids \X Edits
    /\ t.at = "import" => t.arg \in Docs /\ KeptOK(t.got)
    /\ t.at = "seeding" => t.todo \subseteq DOMAIN Manifest
    /\ t.at \in {"refresh", "install"} => \A r \in t.todo : r.src \in Sources
    /\ t.at = "install" => t.got.row \in t.todo /\ t.got.body \in Bodies
    /\ t.at \in {"lists", "rules"} => t.got = [enabled |-> t.got.enabled, bodies |-> t.got.bodies]
TableInv == TypeOK /\ TagDescribesBody /\ \A w \in Workers : Fit(work[w])

\* A worker owes a rebuild from its commit on, and no refresh that has stored a body
\* ends without one.
OwesFit(t) ==
    /\ t.at \in {"idle", "set", "put", "delete", "import"} => ~t.owes
    /\ t.at \in {"seed", "seeding"} => t.owes
    /\ t.at \in {"refresh", "install"} =>
         /\ t.kind \in {"due", "all", "list", "failed"}
         /\ t.kind = "failed" => ~t.owes /\ t.todo = {}
         /\ t.kind = "list" => (t.owes => t.todo = {}) /\ \A r, s \in t.todo : r = s

\* What a rebuild has read may be old only while somebody else owes one, or after an
\* operation gave up during it.
Outdated(w) == (unserved /\ ~covers) \/ \E v \in Workers \ {w} : work[v].owes
InHand(w) ==
    Outdated(w) \/ /\ work[w].got.enabled = enabled
                   /\ work[w].at = "rules" => work[w].got.bodies = Serving(lists)

UpToDate == unserved \/ (\E w \in Workers : work[w].owes) \/ live = Build(enabled, lists, rules)

ServeInv ==
    /\ \A w \in Workers : OwesFit(work[w]) /\ (mu = w <=> work[w].at \in {"lists", "rules"})
    /\ \A w \in Workers : mu = w => InHand(w)
    /\ UpToDate

\* While no import was crossed: an edit decided on the row of an id that is now a
\* built-in's leaves it as shipped, none is under way during a seeding, and a built-in
\* is as shipped or missing and about to be seeded with the manifest's URL.
EditFits(t) ==
    /\ t.at = "put" /\ t.arg[1] \in DOMAIN lists => MayPut(lists[t.arg[1]], t.arg[2])
    /\ t.at = "delete" /\ t.arg \in DOMAIN lists => ~lists[t.arg].builtin
Uncrossed == Under({"seed", "seeding"}) => ~Under({"put", "delete"})
ShippedAt(j) ==
    /\ \A i \in Named(lists, Manifest[j].name) : AsShipped(lists[i], j)
    /\ Named(lists, Manifest[j].name) = {} => Reseeds(j) /\ shipped[j] = Url[Manifest[j].src]
ShippedInv ==
    (role = "primary" /\ shipped # None) =>
        /\ Uncrossed /\ \A w \in Workers : EditFits(work[w])
        /\ \A j \in DOMAIN Manifest : ShippedAt(j)

IndInv == TableInv /\ ServeInv /\ ShippedInv

----------------------------------------------------------------------------
(* What the code does not keep. *)

\* "The body belongs to the URL, not the name: a repointed list must not keep serving the
\* old source's downloaded content" (store/blacklist.go:251-252).  An edit of the URL
\* keeps the body, and so does an install of what was downloaded before it.  With the
\* same URL in another format the body stays on every path.
OwnBody == \A i \in DOMAIN lists : lists[i].body # None => Url[lists[i].body[1]] = Url[lists[i].src]

\* "A built-in may be enabled, disabled and re-tuned, but never renamed away from its
\* manifest entry or re-pointed at a different URL" (policy/service.go:94-96).  The check
\* is on a row read before the write: after an import in between the id is the built-in's.
NeverRepointed ==
    [][\A h \in Handlers : PutListWrite(h) =>
          \A i \in DOMAIN lists : lists[i].builtin => MayPut(lists[i], lists'[i])]_vars
=============================================================================
