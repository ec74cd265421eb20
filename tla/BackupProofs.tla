----------------------------- MODULE BackupProofs -----------------------------
(***************************************************************************)
(* Backup for any number of requests, servers and suites.  Capsules are    *)
(* sound because a key, once in a place, is never replaced by another one  *)
(* while a request is under way: what each request relies on (TaskOK) then *)
(* survives every step of the others (TaskStable).                         *)
(***************************************************************************)
EXTENDS Backup, TLAPS

\* The file is created or left alone, the pin row set or left alone.
Grows(p, q, d, e) ==
    /\ p # None => q = p
    /\ d.pin # None => e.pin = d.pin

\* What a request relies on is not disturbed by the writes of others.
LEMMA TaskStable ==
    ASSUME NEW t \in Tasks, NEW p \in Keys \cup {None}, NEW q \in Keys \cup {None},
           NEW d \in Rows, NEW e \in Rows,
           TaskOK(t, p, d), Grows(p, q, d, e), t.alone => e.url = d.url
    PROVE  TaskOK(t, q, e)
<1>1. t.op = "pair" /\ t.at # "claim" => t.key # None BY BackupAssumption DEF TaskOK, Tasks
<1>2. t.at \in {"pin", "url", "token"} => t.op \in {"pair", "pin"} /\ t.key # None
  BY <1>1, BackupAssumption DEF TaskOK, Tasks, Writers, Collectors, Steps
<1> QED BY <1>2 DEF TaskOK, Grows

\* Losing its history bit does not hurt a request.
LEMMA TaskNotAlone ==
    ASSUME NEW t \in Tasks, NEW p, NEW d, TaskOK(t, p, d)
    PROVE  /\ [t EXCEPT !.alone = FALSE] \in Tasks
           /\ TaskOK([t EXCEPT !.alone = FALSE], p, d)
<1>1. [t EXCEPT !.alone = FALSE] \in Tasks BY DEF Tasks
<1> QED BY <1>1 DEF TaskOK, Tasks

\* An idle worker relies on nothing.
LEMMA IdleOK == ASSUME NEW p, NEW d PROVE Idle \in Tasks /\ TaskOK(Idle, p, d)
BY BackupAssumption DEF Idle, Tasks, Rows, NoRows, TaskOK, Writers, Collectors, Steps

\* Enough for a step of one worker that sends no capsule: its own part, and what it does to
\* file and rows.
LEMMA WorkerStep ==
    ASSUME IndInv, NEW w \in Workers, NEW t \in Tasks,
           task' = [task EXCEPT ![w] = t], out' = out,
           pub' \in Keys \cup {None}, row' \in Rows, KeysAgree',
           Grows(pub, pub', row, row'),
           row'.url # row.url => task[w].op \in Writers,
           TaskOK(t, pub', row'),
           t.op \in Writers => task[w].op \in Writers,
           t.alone => task[w].alone
    PROVE  IndInv'
<1> USE DEF IndInv, TypeOK
<1>1. TypeOK' OBVIOUS
<1>2. TasksOK'
  <2> SUFFICES ASSUME NEW v \in Workers PROVE TaskOK(task'[v], pub', row') BY DEF TasksOK
  <2>1. CASE v = w BY <2>1
  <2>2. CASE v # w
    <3>1. task'[v] = task[v] /\ task[v] \in Tasks /\ TaskOK(task[v], pub, row) BY <2>2 DEF TasksOK
    <3>2. task[v].alone => row'.url = row.url BY <2>2 DEF AloneMeansAlone
    <3> QED BY <3>1, <3>2, TaskStable
  <2> QED BY <2>1, <2>2
<1>3. AloneMeansAlone' BY DEF AloneMeansAlone
<1>4. CapsuleWhole' /\ CapsuleRestores' /\ SealedForServer'
  BY DEF CapsuleWhole, CapsuleRestores, SealedForServer
<1> QED BY <1>1, <1>2, <1>3, <1>4

\* A writer that begins takes the history bit from all others.
LEMMA BeginStep ==
    ASSUME IndInv, NEW w \in Workers, NEW op \in Writers, NEW at \in Steps,
           NEW s \in Servers \cup {None}, NEW k \in Keys \cup {None},
           Begin(w, op, at, s, k),
           op = "pair" => at = "claim" /\ s # None,
           op = "pin" => at = "file" /\ k # None,
           op = "unpair" => at = "clearUrl"
    PROVE  IndInv'
<1> USE DEF IndInv, TypeOK
<1> DEFINE others == \E v \in Workers : task[v].op \in Writers
           t == [Idle EXCEPT !.op = op, !.at = at, !.server = s, !.key = k, !.alone = ~others]
<1>1. /\ task' = [v \in Workers |-> IF v = w THEN t ELSE [task[v] EXCEPT !.alone = FALSE]]
      /\ pub' = pub /\ row' = row /\ out' = out
  BY DEF Begin
<1>2. t \in Tasks /\ t.op = op /\ t.at = at /\ t.server = s /\ t.key = k /\ t.db = NoRows
  <2>1. others \in BOOLEAN OBVIOUS
  <2> QED BY <2>1, IdleOK DEF Idle, Tasks
<1>3. TaskOK(t, pub, row) BY <1>2, BackupAssumption DEF TaskOK, Writers, Collectors, Steps, NoRows
<1>4. ASSUME NEW v \in Workers, v # w
      PROVE  task'[v] \in Tasks /\ TaskOK(task'[v], pub', row') /\ task'[v].alone = FALSE /\ task'[v].op = task[v].op
  <2>1. task[v] \in Tasks /\ TaskOK(task[v], pub, row) BY DEF TasksOK
  <2>2. task'[v] = [task[v] EXCEPT !.alone = FALSE] BY <1>1, <1>4
  <2> QED BY <1>1, <2>1, <2>2, TaskNotAlone DEF Tasks
<1>5. TypeOK' /\ TasksOK' BY <1>1, <1>2, <1>3, <1>4 DEF TasksOK
<1>6. t.alone = ~others BY DEF Idle
<1>7. AloneMeansAlone'
  <2> SUFFICES ASSUME NEW v \in Workers, NEW u \in Workers, v # u, task'[u].alone
               PROVE  task'[v].op \notin Writers
    BY DEF AloneMeansAlone
  <2>1. u = w BY <1>4
  <2>2. task'[u] = t BY <1>1, <2>1
  <2>3. ~others BY <1>6, <2>2
  <2> QED BY <1>4, <2>1, <2>3
<1>8. KeysAgree' /\ CapsuleWhole' /\ CapsuleRestores' /\ SealedForServer'
  BY <1>1 DEF KeysAgree, CapsuleWhole, CapsuleRestores, SealedForServer
<1> QED BY <1>5, <1>7, <1>8

\* A request ends with its last row write, or without one.
LEMMA EndStep ==
    ASSUME IndInv, NEW w \in Workers, Done(w), out' = out,
           pub' \in Keys \cup {None}, row' \in Rows, KeysAgree',
           Grows(pub, pub', row, row'),
           row'.url # row.url => task[w].op \in Writers
    PROVE  IndInv'
<1>1. Idle.op \notin Writers /\ ~Idle.alone BY BackupAssumption DEF Idle
<1> QED BY <1>1, IdleOK, WorkerStep DEF Done

\* A step that leaves file and rows alone grows neither.
LEMMA Still ==
    ASSUME IndInv, pub' = pub, row' = row
    PROVE  pub' \in Keys \cup {None} /\ row' \in Rows /\ KeysAgree' /\ Grows(pub, pub', row, row')
BY DEF IndInv, TypeOK, KeysAgree, Grows

----------------------------------------------------------------------------
(* The actions. *)

LEMMA BeginPairStep == ASSUME IndInv, NEW w \in Workers, NEW s \in Servers, BeginPair(w, s) PROVE IndInv'
BY BeginStep, BackupAssumption DEF BeginPair, Writers, Steps

LEMMA BeginPinStep == ASSUME IndInv, NEW w \in Workers, NEW k \in Keys, BeginPin(w, k) PROVE IndInv'
BY BeginStep, BackupAssumption DEF BeginPin, Writers, Steps

LEMMA BeginUnpairStep == ASSUME IndInv, NEW w \in Workers, BeginUnpair(w) PROVE IndInv'
BY BeginStep DEF BeginUnpair, Writers, Steps

LEMMA BeginCollectStep ==
    ASSUME IndInv, NEW w \in Workers, NEW op \in Collectors, BeginCollect(w, op) PROVE IndInv'
<1> DEFINE t == [Idle EXCEPT !.op = op, !.at = After(op, None)]
<1>1. After(op, None) = IF op = "drill" THEN "db" ELSE "load" BY BackupAssumption DEF After, Steps
<1>2. t \in Tasks /\ t.op = op /\ t.at = After(op, None) /\ ~t.alone /\ t.db = NoRows
  BY <1>1, IdleOK DEF Idle, Tasks, Steps
<1>3. TaskOK(t, pub, row) BY <1>1, <1>2, BackupAssumption DEF TaskOK, Collectors, Writers, NoRows
<1>4. task' = [task EXCEPT ![w] = t] /\ pub' = pub /\ row' = row /\ out' = out BY DEF BeginCollect
<1>5. t.op \notin Writers BY <1>2 DEF Writers, Collectors
<1> QED BY <1>2, <1>3, <1>4, <1>5, Still, WorkerStep

LEMMA FailsStep == ASSUME IndInv, NEW w \in Workers, Fails(w) PROVE IndInv'
BY EndStep, Still DEF Fails

LEMMA CheckStep == ASSUME IndInv, NEW w \in Workers, Check(w) PROVE IndInv'
BY EndStep, Still DEF Check

\* The claim gives the key of the server's suite.
LEMMA ClaimPairingStep == ASSUME IndInv, NEW w \in Workers, ClaimPairing(w) PROVE IndInv'
<1> DEFINE t == [task[w] EXCEPT !.key = KeyOf[task[w].server], !.at = "file"]
<1>0. task[w] \in Tasks /\ TaskOK(task[w], pub, row) BY DEF IndInv, TypeOK, TasksOK
<1>1. task[w].op = "pair" /\ task[w].server \in Servers BY <1>0 DEF ClaimPairing, Ready, TaskOK, Tasks
<1>2. t \in Tasks BY <1>0, <1>1, BackupAssumption DEF Tasks, Steps
<1>3. TaskOK(t, pub, row) BY <1>0, <1>1 DEF TaskOK, Tasks, Writers
<1>4. t.op = task[w].op /\ t.alone = task[w].alone BY <1>0 DEF Tasks
<1>5. task' = [task EXCEPT ![w] = t] /\ pub' = pub /\ row' = row /\ out' = out
  BY <1>0 DEF ClaimPairing, IndInv, TypeOK, Tasks
<1> QED BY <1>2, <1>3, <1>4, <1>5, Still, WorkerStep

\* A request at one of the steps that write the key has one.
LEMMA WritesKey ==
    ASSUME IndInv, NEW w \in Workers, task[w].at \in {"file", "pin", "url", "token"}
    PROVE  /\ task[w] \in Tasks /\ TaskOK(task[w], pub, row)
           /\ task[w].op \in {"pair", "pin"} /\ task[w].key \in Keys
           /\ task[w].op = "pair" => task[w].server \in Servers
<1>1. task[w] \in Tasks /\ TaskOK(task[w], pub, row) BY DEF IndInv, TypeOK, TasksOK
<1>2. task[w].op \in {"pair", "pin"}
  BY <1>1, BackupAssumption DEF TaskOK, Tasks, Writers, Collectors, Steps
<1>3. task[w].op = "pair" => task[w].server \in Servers BY <1>1 DEF TaskOK, Tasks
<1>4. task[w].key \in Keys BY <1>1, <1>2, <1>3, BackupAssumption DEF TaskOK, Tasks
<1> QED BY <1>1, <1>2, <1>3, <1>4

\* The file is created only where there is none, so no request's key is replaced.
LEMMA KeyFileStep == ASSUME IndInv, NEW w \in Workers, KeyFile(w) PROVE IndInv'
<1> DEFINE t == [task[w] EXCEPT !.at = "pin"]
<1>0. /\ task[w] \in Tasks /\ TaskOK(task[w], pub, row) /\ task[w].at = "file"
      /\ task[w].op \in {"pair", "pin"} /\ task[w].key \in Keys
  BY WritesKey DEF KeyFile
<1>1. /\ pub' = task[w].key /\ row' = row /\ out' = out
      /\ pub \in {None, pub'} /\ row.pin \in {None, pub'}
  BY DEF KeyFile, Pinnable
<1>2. t \in Tasks BY <1>0 DEF Tasks, Steps
<1>3. TaskOK(t, pub', row') BY <1>0, <1>1, BackupAssumption DEF TaskOK, Tasks, Writers
<1>4. t.op = task[w].op /\ t.alone = task[w].alone BY <1>0 DEF Tasks
<1>5. task' = [task EXCEPT ![w] = t] BY <1>0 DEF KeyFile, Goto, IndInv, TypeOK, Tasks
<1>6. pub' \in Keys \cup {None} /\ row' \in Rows /\ KeysAgree' /\ Grows(pub, pub', row, row')
  BY <1>0, <1>1 DEF IndInv, TypeOK, KeysAgree, Grows
<1> QED BY <1>1, <1>2, <1>3, <1>4, <1>5, <1>6, WorkerStep

\* The pin row is set to the key in the file, which is the one it had, if any.
LEMMA PinRowStep == ASSUME IndInv, NEW w \in Workers, PinRow(w) PROVE IndInv'
<1> DEFINE t == [task[w] EXCEPT !.at = "url"]
<1>0. /\ task[w] \in Tasks /\ TaskOK(task[w], pub, row) /\ task[w].at = "pin"
      /\ task[w].op \in {"pair", "pin"} /\ task[w].key \in Keys
  BY WritesKey DEF PinRow
<1>1. pub = task[w].key BY <1>0 DEF TaskOK
<1>2. row \in Rows /\ row' = [row EXCEPT !.pin = task[w].key] /\ pub' = pub /\ out' = out
  BY DEF PinRow, IndInv, TypeOK
<1>3. row' \in Rows /\ row'.pin = pub /\ row'.url = row.url BY <1>0, <1>1, <1>2 DEF Rows
<1>4. row.pin \in {None, pub} BY <1>0, <1>1, BackupAssumption DEF IndInv, KeysAgree
<1>5. KeysAgree' /\ Grows(pub, pub', row, row')
  BY <1>0, <1>2, <1>3, <1>4, BackupAssumption DEF IndInv, KeysAgree, Grows, Rows
<1>6. pub' \in Keys \cup {None} BY <1>2 DEF IndInv, TypeOK
<1>7. CASE task[w].op = "pair"
  <2>1. t \in Tasks BY <1>0 DEF Tasks, Steps
  <2>2. TaskOK(t, pub', row') BY <1>0, <1>1, <1>2, <1>3, <1>7 DEF TaskOK, Tasks, Writers
  <2>3. t.op = task[w].op /\ t.alone = task[w].alone BY <1>0 DEF Tasks
  <2>4. task' = [task EXCEPT ![w] = t] BY <1>0, <1>7 DEF PinRow, Goto, IndInv, TypeOK, Tasks
  <2> QED BY <1>2, <1>3, <1>5, <1>6, <2>1, <2>2, <2>3, <2>4, WorkerStep
<1>8. CASE task[w].op = "pin"
  <2>1. Done(w) BY <1>8 DEF PinRow
  <2> QED BY <1>2, <1>3, <1>5, <1>6, <2>1, EndStep
<1> QED BY <1>0, <1>7, <1>8

\* The url row names a server of the pinned suite.
LEMMA UrlRowStep == ASSUME IndInv, NEW w \in Workers, UrlRow(w) PROVE IndInv'
<1> DEFINE t == [task[w] EXCEPT !.at = "token"]
<1>0. /\ task[w] \in Tasks /\ TaskOK(task[w], pub, row) /\ task[w].at = "url"
      /\ task[w].op = "pair" /\ task[w].key \in Keys /\ task[w].server \in Servers
  BY WritesKey DEF UrlRow, TaskOK
<1>1. row.pin = task[w].key /\ task[w].key = KeyOf[task[w].server] /\ pub = task[w].key
  BY <1>0 DEF TaskOK
<1>2. row \in Rows /\ row' = [row EXCEPT !.url = task[w].server] /\ pub' = pub /\ out' = out
  BY DEF UrlRow, IndInv, TypeOK
<1>3. row' \in Rows /\ row'.pin = row.pin /\ row'.url = task[w].server BY <1>0, <1>2 DEF Rows
<1>4. KeysAgree' /\ Grows(pub, pub', row, row')
  BY <1>0, <1>1, <1>2, <1>3, BackupAssumption DEF IndInv, KeysAgree, Grows
<1>5. pub' \in Keys \cup {None} BY <1>2 DEF IndInv, TypeOK
<1>6. t \in Tasks BY <1>0 DEF Tasks, Steps
<1>7. TaskOK(t, pub', row') BY <1>0, <1>1, <1>2, <1>3 DEF TaskOK, Tasks, Writers
<1>8. t.op = task[w].op /\ t.alone = task[w].alone BY <1>0 DEF Tasks
<1>9. task' = [task EXCEPT ![w] = t] BY <1>0 DEF UrlRow, Goto, IndInv, TypeOK, Tasks
<1> QED BY <1>0, <1>2, <1>3, <1>4, <1>5, <1>6, <1>7, <1>8, <1>9, WorkerStep DEF Writers

LEMMA TokenRowStep == ASSUME IndInv, NEW w \in Workers, TokenRow(w) PROVE IndInv'
<1>0. task[w] \in Tasks /\ TaskOK(task[w], pub, row) /\ task[w].at = "token" /\ task[w].op = "pair"
      /\ task[w].server \in Servers
  BY WritesKey DEF TokenRow, TaskOK
<1>1. row \in Rows /\ row' = [row EXCEPT !.token = task[w].server] /\ pub' = pub /\ out' = out
  BY DEF TokenRow, IndInv, TypeOK
<1>2. row' \in Rows /\ row'.pin = row.pin /\ row'.url = row.url BY <1>0, <1>1 DEF Rows
<1>3. KeysAgree' /\ Grows(pub, pub', row, row') BY <1>1, <1>2 DEF IndInv, KeysAgree, Grows
<1> QED BY <1>1, <1>2, <1>3, EndStep DEF TokenRow, IndInv, TypeOK

LEMMA ClearUrlStep == ASSUME IndInv, NEW w \in Workers, ClearUrl(w) PROVE IndInv'
<1> DEFINE t == [task[w] EXCEPT !.at = "clearToken"]
<1>0. task[w] \in Tasks /\ TaskOK(task[w], pub, row) /\ task[w].at = "clearUrl"
  BY DEF ClearUrl, IndInv, TypeOK, TasksOK
<1>1. task[w].op = "unpair" BY <1>0, BackupAssumption DEF TaskOK, Tasks, Writers, Collectors, Steps
<1>2. row \in Rows /\ row' = [row EXCEPT !.url = None] /\ pub' = pub /\ out' = out
  BY DEF ClearUrl, IndInv, TypeOK
<1>3. row' \in Rows /\ row'.pin = row.pin /\ row'.url = None BY <1>2 DEF Rows
<1>4. KeysAgree' /\ Grows(pub, pub', row, row') BY <1>2, <1>3 DEF IndInv, KeysAgree, Grows
<1>5. t \in Tasks BY <1>0 DEF Tasks, Steps
<1>6. TaskOK(t, pub', row') BY <1>0, <1>1 DEF TaskOK, Tasks, Writers
<1>7. t.op = task[w].op /\ t.alone = task[w].alone BY <1>0 DEF Tasks
<1>8. task' = [task EXCEPT ![w] = t] BY <1>0 DEF ClearUrl, Goto, IndInv, TypeOK, Tasks
<1> QED BY <1>1, <1>2, <1>3, <1>4, <1>5, <1>6, <1>7, <1>8, WorkerStep DEF Writers, IndInv, TypeOK

LEMMA ClearTokenStep == ASSUME IndInv, NEW w \in Workers, ClearToken(w) PROVE IndInv'
<1>1. row \in Rows /\ row' = [row EXCEPT !.token = None] /\ pub' = pub /\ out' = out
  BY DEF ClearToken, IndInv, TypeOK
<1>2. row' \in Rows /\ row'.pin = row.pin /\ row'.url = row.url BY <1>1 DEF Rows
<1>3. KeysAgree' /\ Grows(pub, pub', row, row') BY <1>1, <1>2 DEF IndInv, KeysAgree, Grows
<1> QED BY <1>1, <1>2, <1>3, EndStep DEF ClearToken, IndInv, TypeOK

\* What a request collecting a capsule has, and where it goes next.
LEMMA Collecting ==
    ASSUME IndInv, NEW w \in Workers, task[w].at \in {"load", "db", "pub", "send"}
    PROVE  /\ task[w] \in Tasks /\ TaskOK(task[w], pub, row) /\ task[w].op \in Collectors
           /\ task[w].op \notin Writers /\ ~task[w].alone
<1>1. task[w] \in Tasks /\ TaskOK(task[w], pub, row) BY DEF IndInv, TypeOK, TasksOK
<1>2. task[w].op \in Collectors
  BY <1>1, BackupAssumption DEF TaskOK, Tasks, Writers, Collectors, Steps
<1> QED BY <1>1, <1>2 DEF TaskOK, Writers, Collectors

\* The key loaded is in the file and in the pin row.
LEMMA LoadStep == ASSUME IndInv, NEW w \in Workers, Load(w) PROVE IndInv'
<1> DEFINE t == [task[w] EXCEPT !.key = pub, !.at = After(task[w].op, "load")]
<1>0. /\ task[w] \in Tasks /\ TaskOK(task[w], pub, row) /\ task[w].at = "load"
      /\ task[w].op \in Collectors /\ task[w].op \notin Writers /\ ~task[w].alone
  BY Collecting DEF Load
<1>1. After(task[w].op, "load") = "db" BY BackupAssumption DEF After, Steps
<1>2. pub \in Keys \cup {None} /\ pub # None /\ row.pin = pub /\ pub' = pub /\ row' = row /\ out' = out
  BY DEF Load, Loadable, IndInv, TypeOK
<1>3. t \in Tasks BY <1>0, <1>1, <1>2 DEF Tasks, Steps
<1>4. TaskOK(t, pub, row) BY <1>0, <1>1, <1>2 DEF TaskOK, Tasks, Collectors
<1>5. t.op = task[w].op /\ t.alone = task[w].alone BY <1>0 DEF Tasks
<1>6. task' = [task EXCEPT ![w] = t] BY <1>0 DEF Load, IndInv, TypeOK, Tasks
<1> QED BY <1>2, <1>3, <1>4, <1>5, <1>6, Still, WorkerStep

\* The copy of the database has the pin row of the key loaded.
LEMMA SnapshotToStep == ASSUME IndInv, NEW w \in Workers, SnapshotTo(w) PROVE IndInv'
<1> DEFINE t == [task[w] EXCEPT !.db = row, !.at = After(task[w].op, "db")]
<1>0. /\ task[w] \in Tasks /\ TaskOK(task[w], pub, row) /\ task[w].at = "db"
      /\ task[w].op \in Collectors /\ task[w].op \notin Writers /\ ~task[w].alone
  BY Collecting DEF SnapshotTo
<1>1. After(task[w].op, "db") = "pub" BY BackupAssumption DEF After, Steps
<1>2. row \in Rows /\ pub' = pub /\ row' = row /\ out' = out BY DEF SnapshotTo, IndInv, TypeOK
<1>3. t \in Tasks BY <1>0, <1>1, <1>2 DEF Tasks, Steps
<1>4. row.url # None => row.pin = KeyOf[row.url] BY DEF IndInv, KeysAgree
<1>5. TaskOK(t, pub, row) BY <1>0, <1>1, <1>2, <1>4 DEF TaskOK, Tasks, Collectors
<1>6. t.op = task[w].op /\ t.alone = task[w].alone BY <1>0 DEF Tasks
<1>7. task' = [task EXCEPT ![w] = t] BY <1>0 DEF SnapshotTo, IndInv, TypeOK, Tasks
<1> QED BY <1>2, <1>3, <1>5, <1>6, <1>7, Still, WorkerStep

\* So does the file, read later.
LEMMA ReadFilesStep == ASSUME IndInv, NEW w \in Workers, ReadFiles(w) PROVE IndInv'
<1> DEFINE t == [task[w] EXCEPT !.pub = pub, !.at = After(task[w].op, "pub")]
<1>0. /\ task[w] \in Tasks /\ TaskOK(task[w], pub, row) /\ task[w].at = "pub"
      /\ task[w].op \in Collectors /\ task[w].op \notin Writers /\ ~task[w].alone
  BY Collecting DEF ReadFiles
<1>1. After(task[w].op, "pub") = IF task[w].op = "drill" THEN "check" ELSE "send"
  BY BackupAssumption DEF After, Steps
<1>2. pub \in Keys \cup {None} /\ pub' = pub /\ row' = row /\ out' = out BY DEF ReadFiles, IndInv, TypeOK
<1>3. t \in Tasks BY <1>0, <1>1, <1>2 DEF Tasks, Steps
<1>4. TaskOK(t, pub, row) BY <1>0, <1>1, <1>2 DEF TaskOK, Tasks, Collectors
<1>5. t.op = task[w].op /\ t.alone = task[w].alone BY <1>0 DEF Tasks
<1>6. task' = [task EXCEPT ![w] = t] BY <1>0 DEF ReadFiles, IndInv, TypeOK, Tasks
<1> QED BY <1>2, <1>3, <1>4, <1>5, <1>6, Still, WorkerStep

\* A capsule leaves with the key it is sealed to, to a server of that suite.
LEMMA SendStep == ASSUME IndInv, NEW w \in Workers, Send(w) PROVE IndInv'
<1> USE DEF IndInv, TypeOK
<1>0. /\ task[w] \in Tasks /\ TaskOK(task[w], pub, row) /\ task[w].at = "send"
      /\ task[w].op \in Collectors
  BY Collecting DEF Send
<1>1. PICK s \in Servers \cup {None} :
         /\ s # None => s = row.url
         /\ out' = [db |-> task[w].db, pub |-> task[w].pub, to |-> task[w].key, server |-> s]
  BY DEF Send
<1>2. task[w].op \in {"export", "run"} BY <1>0 DEF TaskOK, Collectors
<1>3. /\ task[w].pub = task[w].key /\ task[w].db.pin = task[w].key /\ row.pin = task[w].key
      /\ task[w].db.url # None => task[w].db.pin = KeyOf[task[w].db.url]
  BY <1>0, <1>2 DEF TaskOK
<1>4. CapsuleWhole' /\ CapsuleRestores' BY <1>1, <1>3 DEF CapsuleWhole, CapsuleRestores
<1>5. SealedForServer' BY <1>1, <1>3 DEF SealedForServer, KeysAgree
<1>6. task' = [task EXCEPT ![w] = Idle] /\ pub' = pub /\ row' = row BY DEF Send, Done
<1>7. TypeOK' BY <1>0, <1>1, <1>6, IdleOK DEF Capsules, Tasks
<1>8. TasksOK' BY <1>6, IdleOK DEF TasksOK
<1>9. AloneMeansAlone'
  <2>1. Idle.op \notin Writers /\ ~Idle.alone BY BackupAssumption DEF Idle
  <2> QED BY <1>6, <2>1 DEF AloneMeansAlone
<1>10. KeysAgree' BY <1>6 DEF KeysAgree
<1> QED BY <1>4, <1>5, <1>7, <1>8, <1>9, <1>10

\* All workers idle is sound with any file and rows that agree.
LEMMA AllIdle ==
    ASSUME IndInv, task' = [w \in Workers |-> Idle], out' = out,
           pub' \in Keys \cup {None}, row' \in Rows, KeysAgree'
    PROVE  IndInv'
<1> USE DEF IndInv
<1>1. TypeOK' BY IdleOK DEF TypeOK
<1>2. TasksOK' BY IdleOK DEF TasksOK
<1>3. AloneMeansAlone' BY BackupAssumption DEF AloneMeansAlone, Idle
<1>4. CapsuleWhole' /\ CapsuleRestores' /\ SealedForServer'
  BY DEF CapsuleWhole, CapsuleRestores, SealedForServer
<1> QED BY <1>1, <1>2, <1>3, <1>4

LEMMA CrashStep == ASSUME IndInv, Crash PROVE IndInv'
BY AllIdle, Still DEF Crash

LEMMA RestoreStep == ASSUME IndInv, Restore PROVE IndInv'
<1>1. out \in Capsules /\ out.pub = out.db.pin BY DEF IndInv, TypeOK, CapsuleWhole
<1>2. pub' \in Keys \cup {None} /\ row' \in Rows BY <1>1 DEF Restore, Capsules
<1>3. KeysAgree' BY <1>1 DEF Restore, KeysAgree, IndInv, CapsuleRestores
<1> QED BY <1>2, <1>3, AllIdle DEF Restore

----------------------------------------------------------------------------
(* The theorems. *)

LEMMA InitInd == Init => IndInv
<1> SUFFICES ASSUME Init PROVE IndInv OBVIOUS
<1>1. TypeOK BY IdleOK DEF Init, TypeOK, Rows, NoRows, Capsules, NoCapsule
<1>2. KeysAgree BY DEF Init, KeysAgree, NoRows
<1>3. TasksOK BY IdleOK DEF Init, TasksOK
<1>4. AloneMeansAlone BY BackupAssumption DEF Init, AloneMeansAlone, Idle
<1>5. CapsuleWhole /\ CapsuleRestores /\ SealedForServer
  BY DEF Init, CapsuleWhole, CapsuleRestores, SealedForServer, NoCapsule, NoRows
<1> QED BY <1>1, <1>2, <1>3, <1>4, <1>5 DEF IndInv

LEMMA NextInd == IndInv /\ [Next]_vars => IndInv'
<1> SUFFICES ASSUME IndInv, [Next]_vars PROVE IndInv' OBVIOUS
<1>1. CASE UNCHANGED vars
  BY <1>1 DEF vars, IndInv, TypeOK, KeysAgree, TasksOK, AloneMeansAlone, CapsuleWhole,
              CapsuleRestores, SealedForServer
<1>2. ASSUME NEW w \in Workers, NEW s \in Servers, BeginPair(w, s) PROVE IndInv' BY <1>2, BeginPairStep
<1>3. ASSUME NEW w \in Workers, NEW k \in Keys, BeginPin(w, k) PROVE IndInv' BY <1>3, BeginPinStep
<1>4. ASSUME NEW w \in Workers, BeginExport(w) \/ BeginRun(w) \/ BeginDrill(w) PROVE IndInv'
  BY <1>4, BeginCollectStep DEF BeginExport, BeginRun, BeginDrill, Collectors
<1>5. ASSUME NEW w \in Workers,
             BeginUnpair(w) \/ Fails(w) \/ ClaimPairing(w) \/ KeyFile(w) \/ PinRow(w)
      PROVE  IndInv'
  BY <1>5, BeginUnpairStep, FailsStep, ClaimPairingStep, KeyFileStep, PinRowStep
<1>6. ASSUME NEW w \in Workers,
             UrlRow(w) \/ TokenRow(w) \/ ClearUrl(w) \/ ClearToken(w)
      PROVE  IndInv'
  BY <1>6, UrlRowStep, TokenRowStep, ClearUrlStep, ClearTokenStep
<1>7. ASSUME NEW w \in Workers,
             Load(w) \/ SnapshotTo(w) \/ ReadFiles(w) \/ Send(w) \/ Check(w)
      PROVE  IndInv'
  BY <1>7, LoadStep, SnapshotToStep, ReadFilesStep, SendStep, CheckStep
<1>8. CASE Crash BY <1>8, CrashStep
<1>9. CASE Restore BY <1>9, RestoreStep
<1> QED BY <1>1, <1>2, <1>3, <1>4, <1>5, <1>6, <1>7, <1>8, <1>9 DEF Next

\* What requests, file, rows and the last capsule rely on holds in every reachable state.
THEOREM Inductive == Spec => []IndInv
BY InitInd, NextInd, PTL DEF Spec

\* Every capsule that leaves carries the key it is sealed to, as a file and as a pin row.
THEOREM CapsulesAreWhole == Spec => []CapsuleWhole
<1>1. IndInv => CapsuleWhole BY DEF IndInv
<1> QED BY <1>1, Inductive, PTL

\* No capsule is deposited with a server of another suite than the one it is sealed to.
THEOREM DepositsAreForTheirServer == Spec => []SealedForServer
<1>1. IndInv => SealedForServer BY DEF IndInv
<1> QED BY <1>1, Inductive, PTL

\* The last step of an undisturbed Pair leaves a sound pairing.
LEMMA PairStep ==
    ASSUME IndInv, NEW w \in Workers, TokenRow(w), task[w].alone
    PROVE  /\ DrillPasses(pub', row')
           /\ row' = [pin |-> task[w].key, url |-> task[w].server, token |-> task[w].server]
<1>1. /\ TaskOK(task[w], pub, row) /\ task[w].at = "token" /\ task[w].op = "pair"
      /\ task[w].key \in Keys /\ task[w].server \in Servers
  BY WritesKey DEF TokenRow, TaskOK
<1>2. pub = task[w].key /\ row.pin = task[w].key /\ row.url = task[w].server BY <1>1 DEF TaskOK
<1>3. row \in Rows /\ pub' = pub /\ row' = [row EXCEPT !.token = task[w].server]
  BY DEF TokenRow, IndInv, TypeOK
<1>4. row' = [pin |-> task[w].key, url |-> task[w].server, token |-> task[w].server]
  BY <1>2, <1>3 DEF Rows
<1> QED BY <1>1, <1>2, <1>3, <1>4, BackupAssumption DEF DrillPasses, Loadable

\* A Pair that finishes undisturbed heals whatever a crash or a restore left.
THEOREM PairAlwaysHeals == Spec => PairHeals
<1>1. IndInv /\ [Next]_vars =>
      [\A w \in Workers :
          TokenRow(w) /\ task[w].alone =>
             /\ DrillPasses(pub', row')
             /\ row' = [pin |-> task[w].key, url |-> task[w].server, token |-> task[w].server]]_vars
  BY PairStep
<1> QED BY <1>1, Inductive, PTL DEF Spec, PairHeals
============================================================================
