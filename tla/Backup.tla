------------------------------- MODULE Backup -------------------------------
(***************************************************************************)
(* Backups: pairing with a recovery server, pinning its key, and what a    *)
(* capsule collected, sealed, exported or deposited meanwhile carries      *)
(* (backup/backup.go, backup/drill.go and their HTTP handlers).            *)
(*                                                                         *)
(* The recovery key lives in two places: the file recovery.pub and a pin   *)
(* row in the database.  No lock covers the two, nor the url and token     *)
(* rows of a pairing, so requests interleave and a crash may come between  *)
(* any two of these writes.  A capsule is the database as one snapshot and *)
(* the file as it was read afterwards; a node restored from it starts from *)
(* both.                                                                   *)
(*                                                                         *)
(* The recoveryclient library is not part of the repository.  It is taken  *)
(* to write the file before the pin row and the url before the token, to   *)
(* create the file exclusively, and to load the key before it collects, as *)
(* Export does.  A key, its id and its share numbers are one value; a      *)
(* token is the server that issued it; backup_key and node_key never       *)
(* change and are left out.                                                *)
(***************************************************************************)
CONSTANTS
    Workers,     \* requests of both HTTP interfaces, and the scheduler
    Keys,        \* suite recovery public keys
    Servers,     \* recovery servers
    KeyOf,       \* [Servers -> Keys]: the suite a server belongs to
    LocalDir,    \* whether a directory for local copies is configured
    None         \* nothing there

Writers == {"pair", "pin", "unpair"}
Collectors == {"export", "run", "drill"}
Steps == {"claim", "file", "pin", "url", "token", "clearUrl", "clearToken",
          "load", "db", "pub", "send", "check"}

ASSUME BackupAssumption ==
    /\ KeyOf \in [Servers -> Keys]
    /\ None \notin Keys \cup Servers \cup Writers \cup Collectors \cup Steps
    /\ LocalDir \in BOOLEAN

VARIABLES
    pub,     \* the key in recovery.pub, or None
    row,     \* local_settings: the pin, the url and the sealed token
    task,    \* [Workers -> the request it is serving]
    out      \* the last capsule to leave the node

vars == <<pub, row, task, out>>

Rows == [pin : Keys \cup {None}, url : Servers \cup {None}, token : Servers \cup {None}]
NoRows == [pin |-> None, url |-> None, token |-> None]

Tasks == [op : Writers \cup Collectors \cup {None}, at : Steps \cup {None},
          server : Servers \cup {None},      \* whom to pair with
          key : Keys \cup {None},            \* the key to pin, or the key loaded
          db : Rows, pub : Keys \cup {None}, \* what has been collected
          alone : BOOLEAN]                   \* history: no other writer at the same time
Idle == [op |-> None, at |-> None, server |-> None, key |-> None,
         db |-> NoRows, pub |-> None, alone |-> FALSE]

\* A capsule: its members, the key it is sealed to, and the server it went to, if any.
Capsules == [db : Rows, pub : Keys \cup {None}, to : Keys \cup {None}, server : Servers \cup {None}]
NoCapsule == [db |-> NoRows, pub |-> None, to |-> None, server |-> None]

Init ==
    /\ pub = None
    /\ row = NoRows
    /\ task = [w \in Workers |-> Idle]
    /\ out = NoCapsule

Ready(w, op, at) == task[w].op = op /\ task[w].at = at
Goto(w, at) == task' = [task EXCEPT ![w].at = at]
Done(w) == task' = [task EXCEPT ![w] = Idle]

----------------------------------------------------------------------------
(* Requests. *)

\* A writer begins: those under way, and it if there are any, are no longer alone.
Begin(w, op, at, s, k) ==
    /\ task[w] = Idle
    /\ LET others == \E v \in Workers : task[v].op \in Writers
       IN task' = [v \in Workers |->
              IF v = w THEN [Idle EXCEPT !.op = op, !.at = at, !.server = s, !.key = k, !.alone = ~others]
              ELSE [task[v] EXCEPT !.alone = FALSE]]
    /\ UNCHANGED <<pub, row, out>>

BeginPair(w, s) == Begin(w, "pair", "claim", s, None)
BeginPin(w, k) == Begin(w, "pin", "file", None, k)
BeginUnpair(w) == Begin(w, "unpair", "clearUrl", None, None)

\* Mutant: Export and Run collect before they load the key.
AfterCollects(op, at) ==
    CASE at = None -> "db"
      [] at = "db" -> "pub"
      [] at = "pub" -> IF op = "drill" THEN "check" ELSE "load"
      [] at = "load" -> "send"

\* The steps of Export, Run and Drill, in order.  A drill needs no key.
After(op, at) ==
    CASE at = None -> IF op = "drill" THEN "db" ELSE "load"
      [] at = "load" -> "db"
      [] at = "db" -> "pub"
      [] at = "pub" -> IF op = "drill" THEN "check" ELSE "send"

BeginCollect(w, op) ==
    /\ task[w] = Idle
    /\ task' = [task EXCEPT ![w] = [Idle EXCEPT !.op = op, !.at = After(op, None)]]
    /\ UNCHANGED <<pub, row, out>>

BeginExport(w) == BeginCollect(w, "export")

\* By an admin or by the schedule; while one runs another is refused.
BeginRun(w) == BeginCollect(w, "run") /\ \A v \in Workers : task[v].op # "run"

\* While one runs another waits for drillMu.
BeginDrill(w) == BeginCollect(w, "drill") /\ \A v \in Workers : task[v].op # "drill"

\* Any step of a request can fail, or refuse: the claim, a file or a row that cannot be read
\* or written, a key that is not pinned, an audit row that cannot be written before an export,
\* no destination, an upload.  The request ends there and nothing is rolled back.
Fails(w) ==
    /\ task[w] # Idle
    /\ Done(w)
    /\ UNCHANGED <<pub, row, out>>

----------------------------------------------------------------------------
(* Pair, PinKey, Unpair. *)

\* The server answers with its suite's key.
ClaimPairing(w) ==
    /\ Ready(w, "pair", "claim")
    /\ task' = [task EXCEPT ![w].key = KeyOf[task[w].server], ![w].at = "file"]
    /\ UNCHANGED <<pub, row, out>>

\* StoreRecoveryKey: the pin is write-once, in the row and in the file.
Pinnable(k) == row.pin \in {None, k} /\ pub \in {None, k}

\* Mutant: Pair goes on to StorePairing when the key is refused.
KeyFileIgnored(w) ==
    /\ task[w].at = "file"
    /\ IF Pinnable(task[w].key)
       THEN pub' = task[w].key /\ Goto(w, "pin")
       ELSE task[w].op = "pair" /\ UNCHANGED pub /\ Goto(w, "url")
    /\ UNCHANGED <<row, out>>

\* Mutant: a key file that is there already is taken for a finished pin.
KeyFileSuffices(w) ==
    /\ task[w].at = "file"
    /\ Pinnable(task[w].key)
    /\ pub' = task[w].key
    /\ IF pub # None /\ task[w].op = "pair" THEN Goto(w, "url") ELSE Goto(w, "pin")
    /\ UNCHANGED <<row, out>>

\* StoreRecoveryKey: recovery.pub is created, or found with the same key in it ...
KeyFile(w) ==
    /\ task[w].at = "file"
    /\ Pinnable(task[w].key)
    /\ pub' = task[w].key
    /\ Goto(w, "pin")
    /\ UNCHANGED <<row, out>>

\* ... and the pin row is set.  PinKey ends here.
PinRow(w) ==
    /\ task[w].at = "pin"
    /\ row' = [row EXCEPT !.pin = task[w].key]
    /\ IF task[w].op = "pair" THEN Goto(w, "url") ELSE Done(w)
    /\ UNCHANGED <<pub, out>>

\* StorePairing.
UrlRow(w) ==
    /\ task[w].at = "url"
    /\ row' = [row EXCEPT !.url = task[w].server]
    /\ Goto(w, "token")
    /\ UNCHANGED <<pub, out>>

TokenRow(w) ==
    /\ task[w].at = "token"
    /\ row' = [row EXCEPT !.token = task[w].server]
    /\ Done(w)
    /\ UNCHANGED <<pub, out>>

\* ClearPairing: the pairing's rows go, the pin stays.
ClearUrl(w) ==
    /\ task[w].at = "clearUrl"
    /\ row' = [row EXCEPT !.url = None]
    /\ Goto(w, "clearToken")
    /\ UNCHANGED <<pub, out>>

ClearToken(w) ==
    /\ task[w].at = "clearToken"
    /\ row' = [row EXCEPT !.token = None]
    /\ Done(w)
    /\ UNCHANGED <<pub, out>>

----------------------------------------------------------------------------
(* Export, Run, Drill. *)

\* LoadRecoveryKey gives the key when the file is there and matches the pin row.
Loadable(p, d) == p # None /\ d.pin = p

Load(w) ==
    /\ task[w].at = "load"
    /\ Loadable(pub, row)
    /\ task' = [task EXCEPT ![w].key = pub, ![w].at = After(task[w].op, "load")]
    /\ UNCHANGED <<pub, row, out>>

\* Collect: one consistent copy of the database ...
SnapshotTo(w) ==
    /\ task[w].at = "db"
    /\ task' = [task EXCEPT ![w].db = row, ![w].at = After(task[w].op, "db")]
    /\ UNCHANGED <<pub, row, out>>

\* ... and then recovery.pub, if there is one.
ReadFiles(w) ==
    /\ task[w].at = "pub"
    /\ task' = [task EXCEPT ![w].pub = pub, ![w].at = After(task[w].op, "pub")]
    /\ UNCHANGED <<pub, row, out>>

\* The capsule is sealed to the key loaded and leaves: with an export's answer, to the local
\* directory, or to the server that url and token rows name.
Send(w) ==
    /\ task[w].at = "send"
    /\ \E s \in Servers \cup {None} :
          /\ \/ s = None /\ (task[w].op = "export" \/ LocalDir)
             \/ task[w].op = "run" /\ s # None /\ s = row.url /\ row.token # None
          /\ out' = [db |-> task[w].db, pub |-> task[w].pub, to |-> task[w].key, server |-> s]
    /\ Done(w)
    /\ UNCHANGED <<pub, row>>

\* drillPairing: what the drill asks of the rows and the file it has extracted.
DrillPasses(p, d) ==
    /\ d.pin # None \/ p # None => Loadable(p, d)
    /\ d.url # None \/ d.token # None => d.url # None /\ d.token # None /\ Loadable(p, d)

\* A drill reports, keeps nothing, and lets the next one start.
Check(w) ==
    /\ task[w].at = "check"
    /\ Done(w)
    /\ UNCHANGED <<pub, row, out>>

----------------------------------------------------------------------------
(* Faults. *)

Crash ==
    /\ task' = [w \in Workers |-> Idle]
    /\ UNCHANGED <<pub, row, out>>

\* The node is rebuilt from the last capsule; recovery.pub may not come across.
Restore ==
    /\ out # NoCapsule
    /\ task' = [w \in Workers |-> Idle]
    /\ pub' \in {out.pub, None}
    /\ row' = out.db
    /\ UNCHANGED out

Next ==
    \/ \E w \in Workers :
          \/ \E s \in Servers : BeginPair(w, s)
          \/ \E k \in Keys : BeginPin(w, k)
          \/ BeginUnpair(w)
          \/ BeginExport(w) \/ BeginRun(w) \/ BeginDrill(w)
          \/ Fails(w)
          \/ ClaimPairing(w) \/ KeyFile(w) \/ PinRow(w) \/ UrlRow(w) \/ TokenRow(w)
          \/ ClearUrl(w) \/ ClearToken(w)
          \/ Load(w) \/ SnapshotTo(w) \/ ReadFiles(w) \/ Send(w) \/ Check(w)
    \/ Crash
    \/ Restore

Spec == Init /\ [][Next]_vars

----------------------------------------------------------------------------
(* Properties. *)

TypeOK ==
    /\ pub \in Keys \cup {None}
    /\ row \in Rows
    /\ task \in [Workers -> Tasks]
    /\ out \in Capsules

\* A capsule that left the node carries the key it is sealed to, in recovery.pub and as the
\* pin row of its database, though key, database and file are read at different times and a
\* pairing may be writing: "a restored node with the pin row but no key file cannot seal its
\* next backup" (Service.Export, Service.Collect).
CapsuleWhole == out.pub = out.to /\ out.db.pin = out.to

\* A capsule is deposited only with a server of the suite whose key it is sealed to, though
\* the key is loaded before the url row is read and requests, crashes and restores come in
\* between (Service.Pair, Service.Run).
SealedForServer == out.server # None => out.to = KeyOf[out.server]

\* A Pair that finishes, no other request having written meanwhile, leaves the node paired and
\* fit to pass a drill, whatever half-made pairing, crash or incomplete restore came before
\* (Service.Pair, drillPairing).
PairHeals ==
    [][\A w \in Workers :
          TokenRow(w) /\ task[w].alone =>
             /\ DrillPasses(pub', row')
             /\ row' = [pin |-> task[w].key, url |-> task[w].server, token |-> task[w].server]]_vars

\* The two places of the key agree unless the file is missing, and a pairing is with a server
\* of the pinned suite.
KeysAgree ==
    /\ row.pin # None => pub \in {None, row.pin}
    /\ row.url # None => row.pin = KeyOf[row.url]

\* What a request t relies on at each step, the file holding p and the database d.
TaskOK(t, p, d) ==
    /\ t.op = "pair" => t.at \in {"claim", "file", "pin", "url", "token"} /\ t.server # None
    /\ t.op = "pair" /\ t.at # "claim" => t.key = KeyOf[t.server]
    /\ t.op = "pin" => t.at \in {"file", "pin"} /\ t.key # None
    /\ t.op = "unpair" => t.at \in {"clearUrl", "clearToken"}
    /\ t.op = "drill" => t.at \in {"db", "pub", "check"}
    /\ t.op \in {"export", "run"} => t.at \in {"load", "db", "pub", "send"}
    /\ t.op = None => t.at = None
    /\ t.at \in {"pin", "url", "token"} => p = t.key
    /\ t.at \in {"url", "token"} => d.pin = t.key
    /\ t.op \in {"export", "run"} /\ t.at # "load" => t.key # None /\ p = t.key /\ d.pin = t.key
    /\ t.op \in {"export", "run"} /\ t.at \in {"pub", "send"} => t.db.pin = t.key
    /\ t.at = "send" => t.pub = t.key
    /\ t.db.url # None => t.db.pin = KeyOf[t.db.url]
    /\ t.alone => t.op \in Writers
    /\ t.at = "token" /\ t.alone => d.url = t.server

TasksOK == \A w \in Workers : TaskOK(task[w], pub, row)

\* The history bit says what it should.
AloneMeansAlone ==
    \A v, w \in Workers : v # w /\ task[w].alone => task[v].op \notin Writers

\* A node restored from the last capsule starts in a sound state.
CapsuleRestores == out.db.url # None => out.db.pin = KeyOf[out.db.url]

IndInv ==
    /\ TypeOK /\ KeysAgree /\ TasksOK /\ AloneMeansAlone
    /\ CapsuleWhole /\ CapsuleRestores /\ SealedForServer

\* Does not hold: without the condition on other writers a finished Pair may be undone in half,
\* and two Pairs with servers of one suite may leave the url of one and the token of the other.
PairSticks ==
    [][\A w \in Workers : TokenRow(w) => DrillPasses(pub', row') /\ row'.url = row'.token]_vars

\* Does not hold: a drill that collects while a key is being pinned finds the file without its
\* row, and reports a failure of a node that has none.
NoFalseAlarm ==
    \A w \in Workers : task[w].at = "check" /\ DrillPasses(pub, row) => DrillPasses(task[w].pub, task[w].db)
============================================================================
