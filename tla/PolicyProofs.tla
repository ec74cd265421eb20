---------------------------- MODULE PolicyProofs ----------------------------
(***************************************************************************)
(* What a forwarded query meets: the filter, and the forwarder after it.   *)
(*                                                                         *)
(* Policy, for any names, lists, bodies, sources and number of handlers.   *)
(* Three invariants of the tables carry the three properties.  TableInv:   *)
(* what an operation has read and will write is fit to be written, however *)
(* the table changes meanwhile.  ServeInv: the snapshot served is a build  *)
(* of the tables unless somebody still owes a rebuild, and what a rebuild  *)
(* has in hand is out of date only while somebody else owes one.           *)
(* ShippedInv: while no import was crossed, an edit decided on one row     *)
(* does no harm to the row that has its id by then, none is under way      *)
(* while built-ins are being seeded, and a built-in is as shipped or about *)
(* to be.                                                                  *)
(*                                                                         *)
(* Forwarder follows in the last section.                                  *)
(***************************************************************************)
EXTENDS Policy, Forwarder, TLAPS, FiniteSetTheorems, SequenceTheorems, WellFoundedInduction

\* A non-empty set of list ids has a largest one.
LEMMA MaxIn ==
    ASSUME NEW N \in Nat, NEW T \in SUBSET (1 .. N), T # {}
    PROVE  Max(T) \in T /\ \A y \in T : Max(T) >= y
<1> DEFINE R == {ss \in Nat \X Nat : ss[1] < ss[2]}
           U == {N - x : x \in T}
<1>1. IsWellFoundedOn(R, Nat)
  <2>1. OpToRel(<, Nat) = R BY Zenon DEF OpToRel
  <2> HIDE DEF R
  <2> QED BY <2>1, NatLessThanWellFounded
<1>2. U \in SUBSET Nat /\ U # {}
  <2>1. \A x \in T : x \in Nat /\ N - x \in Nat OBVIOUS
  <2> QED BY <2>1
<1> HIDE DEF R, U
<1>3. PICK a \in U : \A b \in U : ~(<<b, a>> \in R) BY <1>1, <1>2, WFMin
<1>4. PICK x \in T : a = N - x BY DEF U
<1>5. ASSUME NEW y \in T, ~(x >= y) PROVE FALSE
  <2>1. N - y \in U /\ N - y \in Nat /\ a \in Nat /\ N - y < a BY <1>2, <1>4, <1>5 DEF U
  <2>2. <<N - y, a>> \in R BY <2>1 DEF R
  <2> QED BY <1>3, <2>1, <2>2
<1>6. \E z \in T : \A y \in T : z >= y BY <1>5
<1> QED BY <1>6 DEF Max

----------------------------------------------------------------------------
(* The decision *)

\* Set.Match finds the same names as the reference definition.
LEMMA MatchCovers ==
    ASSUME PolicyOK, NEW n \in Domains, NEW D, \A d \in D : d \in Seq(STRING) /\ d # <<>>
    PROVE  Match(D, n) <=> \E d \in D : Covers(d, n)
<1>1. n \in Seq(STRING) /\ Len(n) \in Nat BY DEF PolicyOK
<1>2. ASSUME NEW i \in 1 .. Len(n)
      PROVE  LET e == SubSeq(n, i, Len(n))
             IN  /\ e \in Seq(STRING) /\ Len(e) = Len(n) - i + 1
                 /\ \A k \in 1 .. Len(e) : e[k] = n[i + k - 1]
  <2>1. \A k \in i .. Len(n) : n[k] \in STRING BY <1>1
  <2> QED BY <1>1, <2>1, SubSeqProperties
<1>3. ASSUME NEW i \in 1 .. Len(n), SubSeq(n, i, Len(n)) \in D PROVE \E d \in D : Covers(d, n)
  <2> DEFINE e == SubSeq(n, i, Len(n))
  <2>1. Len(e) = Len(n) - i + 1 /\ \A k \in 1 .. Len(e) : e[k] = n[i + k - 1] BY <1>2
  <2>2. ASSUME NEW k \in 1 .. Len(e) PROVE e[Len(e) + 1 - k] = n[Len(n) + 1 - k]
    <3>0. Len(e) \in Nat /\ k \in 1 .. Len(e) BY <1>1, <2>1
    <3>1. Len(e) + 1 - k \in 1 .. Len(e) /\ i + (Len(e) + 1 - k) - 1 = Len(n) + 1 - k BY <1>1, <2>1, <3>0
    <3> QED BY <2>1, <3>1
  <2>3. Len(e) <= Len(n) BY <1>1, <2>1
  <2>4. Covers(e, n) BY <2>2, <2>3 DEF Covers
  <2> QED BY <1>3, <2>4
<1>4. ASSUME NEW d \in D, Covers(d, n) PROVE Match(D, n)
  <2>1. d \in Seq(STRING) /\ d # <<>> /\ Len(d) \in Nat OBVIOUS
  <2>2. Len(d) > 0 BY <2>1
  <2>3. PICK i \in 1 .. Len(n) : i = Len(n) - Len(d) + 1 BY <1>1, <1>4, <2>1, <2>2 DEF Covers
  <2> DEFINE e == SubSeq(n, i, Len(n))
  <2>4. e \in Seq(STRING) /\ Len(e) = Len(n) - i + 1 /\ \A k \in 1 .. Len(e) : e[k] = n[i + k - 1]
    BY <1>2
  <2>5. Len(e) = Len(d) BY <1>1, <2>1, <2>3, <2>4
  <2>6. ASSUME NEW k \in 1 .. Len(d) PROVE d[k] = e[k]
    <3>1. Len(d) + 1 - k \in 1 .. Len(d) /\ Len(d) + 1 - (Len(d) + 1 - k) = k
          /\ Len(n) + 1 - (Len(d) + 1 - k) = i + k - 1
      BY <1>1, <2>1, <2>3
    <3>2. d[Len(d) + 1 - (Len(d) + 1 - k)] = n[Len(n) + 1 - (Len(d) + 1 - k)] BY <1>4, <3>1 DEF Covers
    <3> QED BY <2>4, <2>5, <3>1, <3>2
  <2> HIDE DEF e
  <2>7. d = e BY <2>1, <2>4, <2>5, <2>6, SeqEqual
  <2> QED BY <2>3, <2>7 DEF Match, e
<1> QED BY <1>3, <1>4 DEF Match

\* A query decided against a snapshot of the tables is decided as the tables say.
LEMMA DecidedByTables ==
    ASSUME PolicyOK, TypeOK, live = Build(enabled, lists, rules), NEW n \in Domains
    PROVE  Decide(live, n) = (enabled /\ (Ruled("deny", n) \/ (~Ruled("allow", n) /\ Listed(n))))
<1>1. /\ live.enabled = enabled /\ live.bodies = Serving(lists)
      /\ live.deny = {d \in RuleDomains : rules[d] = "deny"}
      /\ live.allow = {d \in RuleDomains : rules[d] = "allow"}
  BY DEF Build
<1>2. \A d \in RuleDomains : d \in Seq(STRING) /\ d # <<>> BY DEF PolicyOK
<1>3. Match(live.deny, n) <=> Ruled("deny", n)
  <2>1. \A d \in live.deny : d \in Seq(STRING) /\ d # <<>> BY <1>1, <1>2
  <2> QED BY <1>1, <2>1, MatchCovers DEF Ruled
<1>4. Match(live.allow, n) <=> Ruled("allow", n)
  <2>1. \A d \in live.allow : d \in Seq(STRING) /\ d # <<>> BY <1>1, <1>2
  <2> QED BY <1>1, <2>1, MatchCovers DEF Ruled
<1>5. ASSUME NEW b \in live.bodies PROVE Match(Content[b], n) <=> \E d \in Content[b] : Covers(d, n)
  <2>1. b \in Bodies BY <1>1, <1>5 DEF Serving, TypeOK, Rows
  <2>2. \A d \in Content[b] : d \in Seq(STRING) /\ d # <<>> BY <2>1 DEF PolicyOK
  <2> QED BY <2>2, MatchCovers
<1>6. (\E b \in live.bodies : Match(Content[b], n)) <=> Listed(n)
  BY <1>1, <1>5 DEF Serving, Listed, Enabled
<1>7. Decide(live, n) <=> (enabled /\ (Ruled("deny", n) \/ (~Ruled("allow", n) /\ Listed(n))))
  BY <1>1, <1>3, <1>4, <1>6 DEF Decide
<1>8. enabled \in BOOLEAN BY DEF TypeOK
<1>9. Decide(live, n) \in BOOLEAN BY <1>1, <1>8 DEF Decide
<1> QED BY <1>7, <1>8, <1>9

----------------------------------------------------------------------------
(* Three kinds of step *)

\* Of the workers only w moves.
Turned(w) ==
    /\ work' = [v \in Workers |-> work'[v]]
    /\ \A v \in Workers \ {w} : work'[v] = work[v]

\* An action that gives w a new task moves w alone.
LEMMA Turns ==
    ASSUME TypeOK, NEW w \in Workers, NEW t, work' = [work EXCEPT ![w] = t]
    PROVE  Turned(w) /\ work'[w] = t
BY DEF TypeOK, Turned

\* What w goes on with is well formed.
GoesOn(w) == Shape(work[w]) /\ work[w].at \in Steps /\ work[w].owes \in BOOLEAN /\ Fit(work[w])

\* A table of lists in which every row is one, with the validators of its body.
RowsOK(ls) ==
    /\ ls = [i \in DOMAIN ls |-> ls[i]] /\ DOMAIN ls \subseteq Ids
    /\ \A i \in DOMAIN ls : ls[i] \in Rows /\ ls[i].tag = ls[i].body

\* What the history of the built-ins' URLs may be.
Histories == [DOMAIN Manifest -> {Url[s] : s \in Sources}] \cup {None}

\* A worker that writes well-formed rows and goes on well formed keeps TableInv.
LEMMA TableStep ==
    ASSUME TableInv, NEW w \in Workers, Turned(w), GoesOn(w)',
           enabled' \in BOOLEAN, rules' \in RuleTables, RowsOK(lists)', mu' \in Workers \cup {None},
           role' = role, ops' \in 0 .. MaxOps,
           unserved' \in BOOLEAN, covers' \in BOOLEAN, shipped' \in Histories
    PROVE  TableInv'
<1>1. \A v \in Workers : GoesOn(v)'
  <2> SUFFICES ASSUME NEW v \in Workers PROVE GoesOn(v)' OBVIOUS
  <2>1. CASE v = w BY <2>1
  <2>2. CASE v # w BY <2>2 DEF TableInv, TypeOK, GoesOn, Turned, Fit, Shape, KeptOK
  <2> QED BY <2>1, <2>2
<1>2. TypeOK' BY <1>1 DEF TableInv, TypeOK, Histories, GoesOn, RowsOK, Turned
<1> QED BY <1>1, <1>2 DEF TableInv, TagDescribesBody, GoesOn, RowsOK

\* A step of a worker that is not in Rebuild: either it owes a rebuild after it, or it has
\* changed nothing that is served.
LEMMA ServeStep ==
    ASSUME PolicyOK, TypeOK, ServeInv, NEW w \in Workers, Turned(w), OwesFit(work[w])',
           work[w].at \notin {"lists", "rules"}, work'[w].at \notin {"lists", "rules"},
           UNCHANGED <<live, mu, unserved, covers>>,
           work'[w].owes \/ (UNCHANGED db /\ work'[w].owes = work[w].owes)
    PROVE  ServeInv'
<1>1. \A v \in Workers \ {w} : work'[v] = work[v] BY DEF Turned
<1>2. \A v \in Workers : OwesFit(work[v])' /\ (mu' = v <=> work'[v].at \in {"lists", "rules"})
  BY <1>1 DEF ServeInv, OwesFit
<1>3. ASSUME NEW v \in Workers, mu' = v PROVE InHand(v)'
  <2>1. v # w /\ mu = v /\ work'[v] = work[v] /\ InHand(v) BY <1>1, <1>2, <1>3 DEF ServeInv
  <2>2. CASE work'[w].owes BY <2>1, <2>2 DEF InHand, Outdated
  <2>3. CASE UNCHANGED db /\ work'[w].owes = work[w].owes
    <3>1. Outdated(v) => Outdated(v)' BY <1>1, <2>1, <2>3 DEF Outdated
    <3> QED BY <2>1, <2>3, <3>1 DEF InHand, db, Serving
  <2> QED BY <2>2, <2>3
<1>4. UpToDate' BY <1>1 DEF ServeInv, UpToDate, db, Build, Serving
<1> QED BY <1>2, <1>3, <1>4 DEF ServeInv

\* The states ShippedInv is about, and what a worker may be at without mattering to it.
Intact == role = "primary" /\ shipped # None
Harmless(t) == t.at \notin {"seed", "seeding", "put", "delete"}

\* No built-in row is dropped, added, renamed or given another URL, and no other row gets
\* the name of one.
SameShipped ==
    /\ \A i \in DOMAIN lists : lists[i].builtin =>
          /\ i \in DOMAIN lists' /\ lists'[i].builtin
          /\ lists'[i].name = lists[i].name /\ Url[lists'[i].src] = Url[lists[i].src]
    /\ \A i \in DOMAIN lists' :
          /\ lists'[i].builtin => i \in DOMAIN lists /\ lists[i].builtin
          /\ lists'[i].name \in Builtins => lists'[i].builtin

\* Such is a step that leaves the table alone.
LEMMA ListsAlone == ASSUME ShippedInv, Intact, lists' = lists PROVE SameShipped
BY DEF ShippedInv, Intact, ShippedAt, AsShipped, Named, SameShipped, Builtins

\* A step of a worker that seeds nothing, before and after, keeps ShippedInv if the
\* built-in rows stay as they are; an edit begins only when nobody is seeding.
LEMMA ShippedStep ==
    ASSUME ShippedInv, NEW w \in Workers, Turned(w), role' = role, shipped' \in {shipped, None},
           work[w].at \notin {"seed", "seeding"}, work'[w].at \notin {"seed", "seeding"},
           Intact /\ shipped' = shipped =>
               /\ SameShipped /\ EditFits(work[w])'
               /\ Harmless(work'[w]) \/ ~Under({"seed", "seeding"})
    PROVE  ShippedInv'
<1> SUFFICES ASSUME Intact, shipped' = shipped
             PROVE  Uncrossed' /\ (\A v \in Workers : EditFits(work[v])') /\ \A j \in DOMAIN Manifest : ShippedAt(j)'
  BY DEF ShippedInv, Intact
<1>1. /\ Uncrossed /\ (\A v \in Workers : EditFits(work[v])) /\ \A j \in DOMAIN Manifest : ShippedAt(j)
      /\ \A v \in Workers \ {w} : work'[v] = work[v]
  BY DEF ShippedInv, Intact, Turned
<1>2. Uncrossed' BY <1>1 DEF Uncrossed, Under, Harmless
<1>3. ASSUME NEW v \in Workers, v # w PROVE EditFits(work[v])'
  <2>1. PICK t : t = work[v] /\ t = work'[v] BY <1>1, <1>3
  <2>2. EditFits(t) BY <1>1, <2>1
  <2>3. EditFits(t)' BY <2>2 DEF EditFits, MayPut, SameShipped
  <2> QED BY <2>1, <2>3 DEF EditFits
<1>4. ASSUME NEW j \in DOMAIN Manifest PROVE ShippedAt(j)'
  <2> DEFINE n == Manifest[j].name
  <2>1. n \in Builtins BY DEF Builtins
  <2>2. /\ \A i \in Named(lists, n) : AsShipped(lists[i], j)
        /\ Named(lists, n) = {} => Reseeds(j) /\ shipped[j] = Url[Manifest[j].src]
    BY <1>1 DEF ShippedAt
  <2>3. ASSUME NEW i \in Named(lists', n) PROVE i \in Named(lists, n) /\ AsShipped(lists[i], j)'
    <3>1. i \in DOMAIN lists' /\ lists'[i].name = n BY <2>3 DEF Named
    <3>2. i \in DOMAIN lists /\ lists'[i].builtin /\ lists'[i].name = lists[i].name /\ Url[lists'[i].src] = Url[lists[i].src]
      BY <2>1, <3>1 DEF SameShipped
    <3>3. i \in Named(lists, n) BY <3>1, <3>2 DEF Named
    <3> QED BY <2>2, <3>2, <3>3 DEF AsShipped
  <2>4. Named(lists', n) = {} => Named(lists, n) = {}
    <3> SUFFICES ASSUME NEW i \in Named(lists, n) PROVE i \in Named(lists', n) OBVIOUS
    <3> QED BY <2>2 DEF Named, AsShipped, SameShipped
  <2>5. Reseeds(j) => Reseeds(j)' BY <1>1 DEF Reseeds
  <2> HIDE DEF n
  <2>6. Named(lists, n)' = Named(lists', n) BY DEF Named, n
  <2> QED BY <2>2, <2>3, <2>4, <2>5, <2>6 DEF ShippedAt, n
<1> QED BY <1>2, <1>3, <1>4

\* A worker's step that keeps what is served keeps the tables and what is served of them ...
LEMMA TablesStep ==
    ASSUME PolicyOK, IndInv, NEW w \in Workers, Turned(w), GoesOn(w)', OwesFit(work[w])',
           work[w].at \notin {"lists", "rules"}, work'[w].at \notin {"lists", "rules"},
           UNCHANGED Served, shipped' \in Histories, ops' \in 0 .. MaxOps,
           work'[w].owes \/ (UNCHANGED db /\ work'[w].owes = work[w].owes),
           enabled' \in BOOLEAN, rules' \in RuleTables, RowsOK(lists)'
    PROVE  TableInv' /\ ServeInv'
<1>1. TypeOK /\ UNCHANGED <<live, mu, role, unserved, covers>> BY DEF IndInv, TableInv, Served
<1>2. mu' \in Workers \cup {None} /\ unserved' \in BOOLEAN /\ covers' \in BOOLEAN BY <1>1 DEF TypeOK
<1>3. TableInv' BY <1>1, <1>2, TableStep DEF IndInv
<1>4. ServeInv' BY <1>1, ServeStep DEF IndInv
<1> QED BY <1>3, <1>4

\* ... and the built-ins, if it is no step of an import or of an edit that begins.
LEMMA EditStep ==
    ASSUME PolicyOK, IndInv, NEW w \in Workers, Turned(w), GoesOn(w)', OwesFit(work[w])', Harmless(work'[w]),
           work[w].at \notin {"lists", "rules", "seed", "seeding"}, work'[w].at \notin {"lists", "rules"},
           UNCHANGED Others, ops' \in 0 .. MaxOps,
           work'[w].owes \/ (UNCHANGED db /\ work'[w].owes = work[w].owes),
           enabled' \in BOOLEAN, rules' \in RuleTables, RowsOK(lists)',
           Intact => SameShipped
    PROVE  IndInv'
<1>1. TypeOK /\ UNCHANGED Served /\ role' = role /\ shipped' = shipped BY DEF IndInv, TableInv, Others, Served
<1>2. shipped' \in Histories BY <1>1 DEF TypeOK, Histories
<1>3. TableInv' /\ ServeInv' BY <1>1, <1>2, TablesStep
<1>4. EditFits(work[w])' /\ work'[w].at \notin {"seed", "seeding"} BY DEF EditFits, Harmless
<1>5. ShippedInv' BY <1>1, <1>4, ShippedStep DEF IndInv
<1> QED BY <1>3, <1>5 DEF IndInv

\* For a step that stores nothing.
LEMMA ReadStep ==
    ASSUME PolicyOK, IndInv, NEW w \in Workers, Turned(w), GoesOn(w)', OwesFit(work[w])', Harmless(work'[w]),
           work[w].at \notin {"lists", "rules", "seed", "seeding"}, work'[w].at \notin {"lists", "rules"},
           UNCHANGED <<db, Others>>, ops' \in 0 .. MaxOps, work'[w].owes = work[w].owes
    PROVE  IndInv'
<1>1. UNCHANGED <<enabled, lists, rules>> /\ UNCHANGED db /\ UNCHANGED Others BY DEF db
<1>2. enabled' \in BOOLEAN /\ rules' \in RuleTables BY <1>1 DEF IndInv, TableInv, TypeOK
<1>3. RowsOK(lists)' BY <1>1 DEF IndInv, TableInv, TypeOK, TagDescribesBody, RowsOK
<1>4. Intact => SameShipped BY <1>1, ListsAlone DEF IndInv
<1> QED BY <1>1, <1>2, <1>3, <1>4, EditStep

\* A handler that begins owes nothing.
LEMMA Begins ==
    ASSUME PolicyOK, IndInv, NEW h, Begin(h)
    PROVE  /\ h \in Workers /\ work[h].at = "idle" /\ ~work[h].owes /\ ops' \in 0 .. MaxOps
           /\ work[h].at \notin {"lists", "rules", "seed", "seeding"}
<1>1. h \in Workers /\ work[h].at = "idle" BY DEF Begin, Workers
<1>2. ~work[h].owes BY <1>1 DEF IndInv, ServeInv, OwesFit
<1>3. ops \in 0 .. MaxOps /\ MaxOps \in Nat /\ ops < MaxOps /\ ops' = ops + 1
  BY DEF IndInv, TableInv, TypeOK, PolicyOK, Begin
<1>4. ops' \in 0 .. MaxOps BY <1>3
<1> QED BY <1>1, <1>2, <1>4

----------------------------------------------------------------------------
(* Edits *)

Tasks(step, arg, todo, got, owes, kind) ==
    [at : {step}, arg : {arg}, todo : {todo}, got : {got}, owes : {owes}, kind : {kind}]

\* What a committed operation goes on with.
LEMMA Commits ==
    ASSUME TypeOK, NEW w \in Workers, Commit(w)
    PROVE  /\ Turned(w) /\ GoesOn(w)' /\ OwesFit(work[w])' /\ Harmless(work'[w])
           /\ work'[w].owes /\ work'[w].at = "rebuild" /\ work'[w].at \notin {"lists", "rules"}
<1> DEFINE t == [Idle EXCEPT !.at = "rebuild", !.owes = TRUE]
<1>1. work' = [work EXCEPT ![w] = t] BY DEF Commit
<1>2. Turned(w) /\ work'[w] = t BY <1>1, Turns
<1>3. t \in Tasks("rebuild", None, {}, None, TRUE, None) BY DEF Idle, Tasks
<1> HIDE DEF t
<1>4. t.at = "rebuild" /\ t.owes = TRUE /\ Shape(t) BY <1>3 DEF Tasks, Shape
<1> QED BY <1>2, <1>4 DEF GoesOn, OwesFit, Harmless, Fit, Steps, Shape

\* What an operation that ends goes on with.
LEMMA Idles ==
    ASSUME TypeOK, NEW w \in Workers, work' = [work EXCEPT ![w] = Idle]
    PROVE  /\ Turned(w) /\ GoesOn(w)' /\ OwesFit(work[w])' /\ Harmless(work'[w])
           /\ ~work'[w].owes /\ work'[w].at = "idle" /\ work'[w].at \notin {"lists", "rules"}
<1>1. Turned(w) /\ work'[w] = Idle BY Turns
<1>2. Idle.at = "idle" /\ Idle.owes = FALSE /\ Shape(Idle) BY DEF Idle, Shape
<1> QED BY <1>1, <1>2 DEF GoesOn, OwesFit, Harmless, Fit, Steps, Shape

\* PATCH settings has a Boolean in hand: the one sent, or the one read.
LEMMA PatchSettingsStep ==
    ASSUME PolicyOK, IndInv, NEW h, NEW e \in BOOLEAN \cup {None}, PatchSettings(h, e) PROVE IndInv'
<1> DEFINE t == [Idle EXCEPT !.at = "set", !.arg = IF e = None THEN enabled ELSE e]
<1>1. Begin(h) /\ work' = [work EXCEPT ![h] = t] /\ UNCHANGED <<db, Others>> BY DEF PatchSettings
<1>2. TypeOK BY DEF IndInv, TableInv
<1>3. t.at = "set" /\ t.owes = FALSE /\ Shape(t) /\ t.arg \in BOOLEAN
  <2> DEFINE x == IF e = None THEN enabled ELSE e
  <2>1. x \in BOOLEAN BY <1>2 DEF TypeOK
  <2> HIDE DEF x
  <2>2. t \in Tasks("set", x, {}, None, FALSE, None) BY DEF Idle, Tasks, x
  <2> HIDE DEF t
  <2> QED BY <2>1, <2>2 DEF Tasks, Shape
<1> HIDE DEF t
<1>4. h \in Workers /\ ~work[h].owes /\ ops' \in 0 .. MaxOps /\ work[h].at \notin {"lists", "rules", "seed", "seeding"}
  BY <1>1, Begins
<1>5. Turned(h) /\ work'[h] = t BY <1>1, <1>2, <1>4, Turns
<1>6. GoesOn(h)' /\ OwesFit(work[h])' /\ Harmless(work'[h])
  BY <1>3, <1>5 DEF GoesOn, OwesFit, Harmless, Fit, Steps, Shape
<1>7. work[h].owes \in BOOLEAN BY <1>2, <1>4 DEF TypeOK
<1> QED BY <1>1, <1>3, <1>4, <1>5, <1>6, <1>7, ReadStep

\* Storing it leaves its handler owing a rebuild.
LEMMA SetSettingsStep == ASSUME PolicyOK, IndInv, NEW h \in Workers, SetSettings(h) PROVE IndInv'
<1>1. TypeOK /\ Fit(work[h]) BY DEF IndInv, TableInv
<1>2. work[h].at = "set" /\ enabled' = work[h].arg /\ Commit(h) /\ UNCHANGED <<lists, rules, ops>> /\ UNCHANGED Others
  BY DEF SetSettings
<1>3. enabled' \in BOOLEAN BY <1>1, <1>2 DEF Fit
<1>4. RowsOK(lists)' BY <1>2 DEF IndInv, TableInv, TypeOK, TagDescribesBody, RowsOK
<1>5. Intact => SameShipped BY <1>2, ListsAlone DEF IndInv
<1>6. rules' \in RuleTables /\ ops' \in 0 .. MaxOps BY <1>1, <1>2 DEF TypeOK
<1>7. work[h].at \notin {"lists", "rules", "seed", "seeding"} BY <1>2
<1> QED BY <1>1, <1>2, <1>3, <1>4, <1>5, <1>6, <1>7, Commits, EditStep

\* An edit of the lists begins: the history ends if somebody is seeding, and otherwise
\* every built-in has its row.
LEMMA EditBegins ==
    ASSUME PolicyOK, IndInv, Edited
    PROVE  /\ shipped' \in Histories /\ shipped' \in {shipped, None}
           /\ Intact /\ shipped' = shipped =>
                /\ ~Under({"seed", "seeding"})
                /\ \A n \in Builtins : \E i \in DOMAIN lists : lists[i].name = n /\ lists[i].builtin
<1>1. TypeOK BY DEF IndInv, TableInv
<1>2. shipped' \in Histories /\ shipped' \in {shipped, None} BY <1>1 DEF Edited, TypeOK, Histories
<1>3. ASSUME Intact, shipped' = shipped, NEW j \in DOMAIN Manifest
      PROVE  /\ ~Under({"seed", "seeding"})
             /\ \E i \in DOMAIN lists : lists[i].name = Manifest[j].name /\ lists[i].builtin
  <2>1. ~Under({"seed", "seeding"}) BY <1>3 DEF Edited, Intact
  <2>2. ~Reseeds(j) BY <2>1 DEF Under, Reseeds
  <2>3. ShippedAt(j) BY <1>3 DEF IndInv, ShippedInv, Intact
  <2> QED BY <2>1, <2>2, <2>3 DEF ShippedAt, AsShipped, Named
<1>4. Intact /\ shipped' = shipped => ~Under({"seed", "seeding"}) BY DEF Edited, Intact
<1> QED BY <1>2, <1>3, <1>4 DEF Builtins

\* A definition makes a row without a body.
LEMMA FreshRowOK ==
    ASSUME NEW d \in Definitions, NEW b \in BOOLEAN
    PROVE  /\ FreshRow(d, b) \in Rows /\ FreshRow(d, b).tag = FreshRow(d, b).body
           /\ FreshRow(d, b).builtin = b /\ FreshRow(d, b).name = d.name /\ FreshRow(d, b).src = d.src
BY DEF FreshRow, Rows, Definitions

\* Insert keeps every row and adds the one.
LEMMA InsertOK ==
    ASSUME NEW ls, RowsOK(ls), NEW row \in Rows, row.tag = row.body, NewId(ls) \in Ids
    PROVE  /\ RowsOK(Insert(ls, row))
           /\ \A i \in DOMAIN ls : i \in DOMAIN Insert(ls, row) /\ Insert(ls, row)[i] = ls[i]
           /\ \A i \in DOMAIN Insert(ls, row) : i \in DOMAIN ls \/ Insert(ls, row)[i] = row
BY DEF Insert, RowsOK

\* The invariant says of the table what RowsOK asks.
LEMMA TableRows == ASSUME IndInv PROVE RowsOK(lists)
BY DEF IndInv, TableInv, TypeOK, TagDescribesBody, RowsOK

\* A new list gets an id of its own, and its name is none of a built-in's.
LEMMA CreateListStep ==
    ASSUME PolicyOK, IndInv, NEW h, NEW d \in Edits, CreateList(h, d) PROVE IndInv'
<1>1. TypeOK /\ RowsOK(lists) BY TableRows DEF IndInv, TableInv
<1>2. /\ Begin(h) /\ NewId(lists) \in Ids /\ lists' = Insert(lists, FreshRow(d, FALSE)) /\ Commit(h)
      /\ UNCHANGED <<enabled, rules>> /\ UNCHANGED Served /\ Edited /\ Named(lists, d.name) = {}
  BY DEF CreateList
<1>3. d \in Definitions BY DEF PolicyOK
<1>4. PICK row \in Rows : row = FreshRow(d, FALSE) /\ row.tag = row.body /\ row.builtin = FALSE /\ row.name = d.name
  BY <1>3, FreshRowOK
<1>5. /\ RowsOK(Insert(lists, row))
      /\ \A i \in DOMAIN lists : i \in DOMAIN Insert(lists, row) /\ Insert(lists, row)[i] = lists[i]
      /\ \A i \in DOMAIN Insert(lists, row) : i \in DOMAIN lists \/ Insert(lists, row)[i] = row
  BY <1>1, <1>2, <1>4, InsertOK
<1>6. RowsOK(lists)' BY <1>2, <1>4, <1>5 DEF RowsOK
<1>7. enabled' \in BOOLEAN /\ rules' \in RuleTables BY <1>1, <1>2 DEF TypeOK
<1>8. h \in Workers /\ ops' \in 0 .. MaxOps /\ work[h].at \notin {"lists", "rules", "seed", "seeding"}
  BY <1>2, Begins
<1>9. /\ Turned(h) /\ GoesOn(h)' /\ OwesFit(work[h])' /\ Harmless(work'[h])
      /\ work'[h].owes /\ work'[h].at \notin {"lists", "rules"}
  BY <1>1, <1>2, <1>8, Commits
<1>10. shipped' \in Histories /\ shipped' \in {shipped, None} BY <1>2, EditBegins
<1>11. TableInv' /\ ServeInv' BY <1>2, <1>6, <1>7, <1>8, <1>9, <1>10, TablesStep
<1>12. ShippedInv'
  <2>1. ASSUME Intact, shipped' = shipped PROVE SameShipped
    <3>1. \A n \in Builtins : \E i \in DOMAIN lists : lists[i].name = n /\ lists[i].builtin
      BY <1>2, <2>1, EditBegins
    <3>2. d.name \notin Builtins BY <1>2, <3>1 DEF Named
    <3>3. \A i \in DOMAIN lists : lists[i].name \in Builtins => lists[i].builtin
      BY <2>1 DEF IndInv, ShippedInv, Intact, ShippedAt, AsShipped, Named, Builtins
    <3> QED BY <1>2, <1>4, <1>5, <3>2, <3>3 DEF SameShipped
  <2>2. EditFits(work[h])' /\ work'[h].at \notin {"seed", "seeding"} BY <1>9 DEF EditFits, Harmless
  <2>3. role' = role BY <1>2 DEF Served
  <2> QED BY <1>8, <1>9, <1>10, <2>1, <2>2, <2>3, ShippedStep DEF IndInv
<1> QED BY <1>11, <1>12 DEF IndInv

\* PutList and DeleteList begin: they have looked a row up, and store nothing yet.
LEMMA ChecksStep ==
    ASSUME PolicyOK, IndInv, NEW h, Begin(h), Edited, UNCHANGED <<db, Served>>, NEW t,
           work' = [work EXCEPT ![h] = t], t.at \in {"put", "delete"}, t.owes = FALSE, Shape(t), Fit(t), EditFits(t)
    PROVE  IndInv'
<1>1. TypeOK /\ RowsOK(lists) BY TableRows DEF IndInv, TableInv
<1>2. /\ h \in Workers /\ ~work[h].owes /\ ops' \in 0 .. MaxOps
      /\ work[h].at \notin {"lists", "rules", "seed", "seeding"} /\ work[h].owes \in BOOLEAN
  BY <1>1, Begins DEF TypeOK
<1>3. Turned(h) /\ work'[h] = t BY <1>1, <1>2, Turns
<1>4. GoesOn(h)' /\ OwesFit(work[h])' BY <1>3 DEF GoesOn, OwesFit, Fit, Steps, Shape, KeptOK
<1>5. UNCHANGED <<enabled, lists, rules>> /\ UNCHANGED db /\ UNCHANGED Served /\ role' = role BY DEF db, Served
<1>6. enabled' \in BOOLEAN /\ rules' \in RuleTables /\ RowsOK(lists)' BY <1>1, <1>5 DEF TypeOK, RowsOK
<1>7. shipped' \in Histories /\ shipped' \in {shipped, None} BY EditBegins
<1>8. TableInv' /\ ServeInv' BY <1>2, <1>3, <1>4, <1>5, <1>6, <1>7, TablesStep
<1>9. Intact /\ shipped' = shipped => SameShipped /\ ~Under({"seed", "seeding"})
  BY <1>5, EditBegins, ListsAlone DEF IndInv
<1>10. EditFits(work[h])' BY <1>3, <1>5 DEF EditFits, MayPut
<1>11. ShippedInv' BY <1>2, <1>3, <1>5, <1>7, <1>9, <1>10, ShippedStep DEF IndInv
<1> QED BY <1>8, <1>11 DEF IndInv

\* What PutList is about to write would leave the row it looked up as shipped.
LEMMA PutListCheckStep ==
    ASSUME PolicyOK, IndInv, NEW h, NEW i \in Ids, NEW d \in Edits, PutListCheck(h, i, d) PROVE IndInv'
<1> DEFINE t == [Idle EXCEPT !.at = "put", !.arg = <<i, d>>]
<1>1. /\ Begin(h) /\ work' = [work EXCEPT ![h] = t] /\ UNCHANGED <<db, Served>> /\ Edited
      /\ i \in DOMAIN lists /\ MayPut(lists[i], d)
  BY DEF PutListCheck
<1>2. t.at = "put" /\ t.owes = FALSE /\ Shape(t) /\ t.arg = <<i, d>>
  <2>1. t \in Tasks("put", <<i, d>>, {}, None, FALSE, None) BY DEF Idle, Tasks
  <2> HIDE DEF t
  <2> QED BY <2>1 DEF Tasks, Shape
<1> HIDE DEF t
<1>3. Fit(t)
  <2>1. <<i, d>> \in Ids \X Edits OBVIOUS
  <2> QED BY <1>2, <2>1 DEF Fit
<1>4. EditFits(t) BY <1>1, <1>2 DEF EditFits
<1> QED BY <1>1, <1>2, <1>3, <1>4, ChecksStep

\* The row with that id may be another one by now; a built-in among them keeps name and source.
LEMMA PutListWriteStep == ASSUME PolicyOK, IndInv, NEW h \in Workers, PutListWrite(h) PROVE IndInv'
<1>1. TypeOK /\ RowsOK(lists) /\ Fit(work[h]) BY TableRows DEF IndInv, TableInv
<1>2. work[h].at = "put" /\ UNCHANGED <<enabled, rules, ops>> /\ UNCHANGED Others BY DEF PutListWrite
<1>3. PICK i \in Ids, d \in Edits : work[h].arg = <<i, d>> BY <1>1, <1>2 DEF Fit
<1> DEFINE ok == i \in DOMAIN lists /\ Named(lists, d.name) \subseteq {i}
<1>4. /\ lists' = IF ok THEN [lists EXCEPT ![i].name = d.name, ![i].src = d.src, ![i].on = d.on] ELSE lists
      /\ IF ok THEN Commit(h) ELSE work' = [work EXCEPT ![h] = Idle]
  BY <1>3 DEF PutListWrite
<1>5. d \in Definitions BY DEF PolicyOK
<1>6. enabled' \in BOOLEAN /\ rules' \in RuleTables /\ ops' \in 0 .. MaxOps /\ work[h].owes \in BOOLEAN
      /\ work[h].at \notin {"lists", "rules", "seed", "seeding"} /\ ~work[h].owes
  BY <1>1, <1>2 DEF TypeOK, IndInv, ServeInv, OwesFit
<1>7. CASE ok
  <2>1. i \in DOMAIN lists /\ lists[i] \in Rows /\ lists[i].tag = lists[i].body BY <1>1, <1>7 DEF RowsOK
  <2>2. /\ lists' = [j \in DOMAIN lists' |-> lists'[j]]
        /\ DOMAIN lists' = DOMAIN lists /\ \A j \in DOMAIN lists \ {i} : lists'[j] = lists[j]
        /\ lists'[i] = [lists[i] EXCEPT !.name = d.name, !.src = d.src, !.on = d.on]
    BY <1>4, <1>7, <2>1
  <2>3. /\ lists'[i] \in Rows /\ lists'[i].tag = lists'[i].body /\ lists'[i].builtin = lists[i].builtin
        /\ lists'[i].name = d.name /\ lists'[i].src = d.src
    BY <1>5, <2>1, <2>2 DEF Rows, Definitions
  <2>4. RowsOK(lists)' BY <1>1, <2>2, <2>3 DEF RowsOK
  <2>5. Intact => SameShipped
    <3> SUFFICES ASSUME Intact PROVE SameShipped OBVIOUS
    <3>1. Uncrossed /\ EditFits(work[h]) /\ \A j \in DOMAIN Manifest : ShippedAt(j)
      BY DEF IndInv, ShippedInv, Intact
    <3>2. MayPut(lists[i], d) BY <1>2, <1>3, <2>1, <3>1 DEF EditFits
    <3>3. \A j \in DOMAIN Manifest : ~Reseeds(j) BY <1>2, <3>1 DEF Uncrossed, Under, Reseeds
    <3>4. \A k \in DOMAIN lists : lists[k].name \in Builtins => lists[k].builtin
      BY <3>1 DEF ShippedAt, AsShipped, Named, Builtins
    <3>5. d.name \in Builtins => lists[i].builtin
      BY <1>7, <3>1, <3>3 DEF ShippedAt, AsShipped, Named, Builtins
    <3> QED BY <2>1, <2>2, <2>3, <3>2, <3>4, <3>5 DEF SameShipped, MayPut
  <2>6. Commit(h) BY <1>4, <1>7
  <2> QED BY <1>1, <1>2, <1>6, <2>4, <2>5, <2>6, Commits, EditStep
<1>8. CASE ~ok
  <2>1. lists' = lists /\ work' = [work EXCEPT ![h] = Idle] BY <1>4, <1>8
  <2>2. UNCHANGED <<db, Others>> BY <1>2, <2>1 DEF db
  <2>3. /\ Turned(h) /\ GoesOn(h)' /\ OwesFit(work[h])' /\ Harmless(work'[h])
        /\ ~work'[h].owes /\ work'[h].at \notin {"lists", "rules"}
    BY <1>1, <2>1, Idles
  <2>4. work'[h].owes = work[h].owes BY <1>6, <2>3 DEF GoesOn
  <2> QED BY <1>6, <2>2, <2>3, <2>4, ReadStep
<1> QED BY <1>7, <1>8

\* DeleteList has looked up a row that is not a built-in.
LEMMA DeleteListCheckStep ==
    ASSUME PolicyOK, IndInv, NEW h, NEW i \in Ids, DeleteListCheck(h, i) PROVE IndInv'
<1> DEFINE t == [Idle EXCEPT !.at = "delete", !.arg = i]
<1>1. /\ Begin(h) /\ work' = [work EXCEPT ![h] = t] /\ UNCHANGED <<db, Served>> /\ Edited
      /\ i \in DOMAIN lists /\ ~lists[i].builtin
  BY DEF DeleteListCheck
<1>2. t.at = "delete" /\ t.owes = FALSE /\ Shape(t) /\ t.arg = i
  <2>1. t \in Tasks("delete", i, {}, None, FALSE, None) BY DEF Idle, Tasks
  <2> HIDE DEF t
  <2> QED BY <2>1 DEF Tasks, Shape
<1> HIDE DEF t
<1>3. Fit(t) BY <1>2 DEF Fit
<1>4. EditFits(t) BY <1>1, <1>2 DEF EditFits
<1> QED BY <1>1, <1>2, <1>3, <1>4, ChecksStep

\* A built-in takes over a deleted list's id only in an import that crosses the deletion.
LEMMA DeleteListWriteStep == ASSUME PolicyOK, IndInv, NEW h \in Workers, DeleteListWrite(h) PROVE IndInv'
<1>1. TypeOK /\ RowsOK(lists) BY TableRows DEF IndInv, TableInv
<1>2. /\ work[h].at = "delete" /\ UNCHANGED <<enabled, rules, ops>> /\ UNCHANGED Others
      /\ lists' = [i \in DOMAIN lists \ {work[h].arg} |-> lists[i]]
      /\ IF work[h].arg \in DOMAIN lists THEN Commit(h) ELSE work' = [work EXCEPT ![h] = Idle]
  BY DEF DeleteListWrite, Without
<1>3. RowsOK(lists)' BY <1>1, <1>2 DEF RowsOK
<1>4. enabled' \in BOOLEAN /\ rules' \in RuleTables /\ ops' \in 0 .. MaxOps /\ work[h].owes \in BOOLEAN
      /\ work[h].at \notin {"lists", "rules", "seed", "seeding"} /\ ~work[h].owes
  BY <1>1, <1>2 DEF TypeOK, IndInv, ServeInv, OwesFit
<1>5. Intact => SameShipped
  <2> SUFFICES ASSUME Intact PROVE SameShipped OBVIOUS
  <2>1. EditFits(work[h]) /\ \A j \in DOMAIN Manifest : ShippedAt(j) BY DEF IndInv, ShippedInv, Intact
  <2>2. \A k \in DOMAIN lists : lists[k].name \in Builtins => lists[k].builtin
    BY <2>1 DEF ShippedAt, AsShipped, Named, Builtins
  <2> QED BY <1>2, <2>1, <2>2 DEF EditFits, SameShipped
<1>6. CASE work[h].arg \in DOMAIN lists
  <2>1. Commit(h) BY <1>2, <1>6
  <2> QED BY <1>1, <1>2, <1>3, <1>4, <1>5, <2>1, Commits, EditStep
<1>7. CASE work[h].arg \notin DOMAIN lists
  <2>1. work' = [work EXCEPT ![h] = Idle] BY <1>2, <1>7
  <2>2. /\ Turned(h) /\ GoesOn(h)' /\ OwesFit(work[h])' /\ Harmless(work'[h])
        /\ ~work'[h].owes /\ work'[h].at \notin {"lists", "rules"}
    BY <1>1, <2>1, Idles
  <2>3. work'[h].owes = work[h].owes BY <1>4, <2>2 DEF GoesOn
  <2>4. lists' = lists BY <1>1, <1>2, <1>7 DEF TypeOK
  <2>5. UNCHANGED db BY <1>2, <2>4 DEF db
  <2> QED BY <1>1, <1>2, <1>3, <1>4, <1>5, <2>2, <2>3, <2>5, EditStep
<1> QED BY <1>6, <1>7

\* A rule is added or dropped in one write, followed by a rebuild.
LEMMA RuleStep ==
    ASSUME PolicyOK, IndInv, NEW h, NEW d \in RuleDomains, NEW k \in Kinds, AddRule(h, k, d) \/ DeleteRule(h, d)
    PROVE  IndInv'
<1>1. TypeOK /\ RowsOK(lists) BY TableRows DEF IndInv, TableInv
<1>2. /\ Begin(h) /\ rules' \in {[rules EXCEPT ![d] = k], [rules EXCEPT ![d] = None]} /\ Commit(h)
      /\ UNCHANGED <<enabled, lists>> /\ UNCHANGED Others
  BY DEF AddRule, DeleteRule
<1>3. rules' \in RuleTables /\ enabled' \in BOOLEAN BY <1>1, <1>2 DEF TypeOK, RuleTables
<1>4. RowsOK(lists)' BY <1>1, <1>2 DEF RowsOK
<1>5. Intact => SameShipped BY <1>2, ListsAlone DEF IndInv
<1> QED BY <1>1, <1>2, <1>3, <1>4, <1>5, Begins, Commits, EditStep

----------------------------------------------------------------------------
(* Imports *)

\* Of the lists with one URL the last is taken: it is one of them.
LEMMA KeptFits == ASSUME PolicyOK, IndInv PROVE KeptOK(Kept(lists))
<1> DEFINE k == Kept(lists)
<1> SUFFICES ASSUME NEW s \in DOMAIN k PROVE k[s].body \in Bodies \cup {None} /\ k[s].tag = k[s].body
  BY DEF KeptOK
<1> DEFINE same == {i \in DOMAIN lists : Url[lists[i].src] = s}
<1>1. RowsOK(lists) /\ MaxId \in Nat BY TableRows DEF PolicyOK
<1>2. same \in SUBSET (1 .. MaxId) /\ same # {} BY <1>1 DEF Kept, RowsOK, Ids
<1>3. Max(same) \in same BY <1>1, <1>2, MaxIn
<1>4. k[s] = [body |-> lists[Max(same)].body, tag |-> lists[Max(same)].tag] BY DEF Kept
<1> HIDE DEF k, same
<1>5. Max(same) \in DOMAIN lists BY <1>3 DEF same
<1>6. PICK row \in Rows : row = lists[Max(same)] /\ row.tag = row.body BY <1>1, <1>5 DEF RowsOK
<1> QED BY <1>4, <1>6 DEF Rows

\* The bodies an import keeps come with their own validators.
LEMMA ImportReadStep ==
    ASSUME PolicyOK, IndInv, NEW h, NEW doc \in Docs, ImportRead(h, doc) PROVE IndInv'
<1> DEFINE t == [Idle EXCEPT !.at = "import", !.arg = doc, !.got = Kept(lists)]
<1>1. Begin(h) /\ work' = [work EXCEPT ![h] = t] /\ UNCHANGED <<db, Others>> BY DEF ImportRead
<1>2. TypeOK BY DEF IndInv, TableInv
<1>3. t \in Tasks("import", doc, {}, Kept(lists), FALSE, None) BY DEF Idle, Tasks
<1> HIDE DEF t
<1>4. t.at = "import" /\ t.owes = FALSE /\ Shape(t) /\ t.arg \in Docs /\ KeptOK(t.got)
  BY <1>3, KeptFits DEF Tasks, Shape
<1>5. h \in Workers /\ ~work[h].owes /\ ops' \in 0 .. MaxOps /\ work[h].at \notin {"lists", "rules", "seed", "seeding"}
  BY <1>1, Begins
<1>6. Turned(h) /\ work'[h] = t BY <1>1, <1>2, <1>5, Turns
<1>7. GoesOn(h)' /\ OwesFit(work[h])' /\ Harmless(work'[h])
  BY <1>4, <1>6 DEF GoesOn, OwesFit, Harmless, Fit, Steps, Shape, KeptOK
<1>8. work[h].owes \in BOOLEAN BY <1>2, <1>5 DEF TypeOK
<1> QED BY <1>1, <1>4, <1>5, <1>6, <1>7, <1>8, ReadStep

\* The tables are replaced at once; the import owes a rebuild through the seeding.
LEMMA ImportWriteStep == ASSUME PolicyOK, IndInv, NEW h \in Workers, ImportWrite(h) PROVE IndInv'
<1> DEFINE t == [Idle EXCEPT !.at = "seed", !.owes = TRUE]
<1>1. TypeOK /\ Fit(work[h]) BY DEF IndInv, TableInv
<1>2. PICK doc \in Docs : doc = work[h].arg BY <1>1 DEF ImportWrite, Fit
<1>3. PICK kept : kept = work[h].got /\ KeptOK(kept) BY <1>1 DEF ImportWrite, Fit
<1>4. /\ work[h].at = "import" /\ enabled' = doc.enabled /\ rules' = doc.rules
      /\ shipped' = IF shipped = None \/ Under({"put", "delete"}) THEN None ELSE ShippedBy(doc)
      /\ lists' = [i \in DOMAIN doc.lists |-> ImportedRow(doc.lists[i], kept)]
      /\ work' = [work EXCEPT ![h] = t] /\ UNCHANGED ops /\ UNCHANGED Served
      /\ DOMAIN doc.lists \subseteq Ids
  BY <1>2, <1>3 DEF ImportWrite, PolicyOK
<1>5. t \in Tasks("seed", None, {}, None, TRUE, None) BY DEF Idle, Tasks
<1> HIDE DEF t
<1>6. t.at = "seed" /\ t.owes = TRUE /\ Shape(t) BY <1>5 DEF Tasks, Shape
<1>7. Turned(h) /\ work'[h] = t BY <1>1, <1>4, Turns
<1>8. GoesOn(h)' /\ OwesFit(work[h])' BY <1>6, <1>7 DEF GoesOn, OwesFit, Fit, Steps, Shape
<1>9. ASSUME NEW i \in DOMAIN doc.lists
      PROVE  /\ lists'[i] \in Rows /\ lists'[i].tag = lists'[i].body /\ lists'[i].name = doc.lists[i].name
             /\ lists'[i].src = doc.lists[i].src /\ lists'[i].builtin = (doc.lists[i].name \in Builtins)
  <2>1. PICK d \in Definitions : d = doc.lists[i] BY DEF PolicyOK
  <2>0. (d.name \in Builtins) \in BOOLEAN OBVIOUS
  <2>2. PICK b \in BOOLEAN : b = (d.name \in Builtins) BY <2>0
  <2>3. PICK row \in Rows : /\ row = FreshRow(d, b) /\ row.tag = row.body
                            /\ row.name = d.name /\ row.src = d.src /\ row.builtin = b
    BY <2>1, FreshRowOK
  <2>4. lists'[i] = ImportedRow(d, kept) BY <1>4, <2>1
  <2> DEFINE u == Url[d.src]
  <2>5. CASE u \in DOMAIN kept
    <3>1. lists'[i] = [row EXCEPT !.body = kept[u].body, !.tag = kept[u].tag]
      BY <2>2, <2>3, <2>4, <2>5 DEF ImportedRow
    <3>2. kept[u].body \in Bodies \cup {None} /\ kept[u].tag = kept[u].body BY <1>3, <2>5 DEF KeptOK
    <3> HIDE DEF u
    <3> QED BY <2>1, <2>2, <2>3, <3>1, <3>2 DEF Rows
  <2>6. CASE u \notin DOMAIN kept BY <2>1, <2>2, <2>3, <2>4, <2>6 DEF ImportedRow
  <2> QED BY <2>5, <2>6
<1>10. DOMAIN lists' = DOMAIN doc.lists /\ lists' = [i \in DOMAIN lists' |-> lists'[i]] BY <1>4
<1>11. RowsOK(lists)' BY <1>4, <1>9, <1>10 DEF RowsOK
<1>12. ShippedBy(doc) \in Histories
  <2>0. \A d \in Definitions : d.src \in Sources BY DEF Definitions
  <2>1. \A i \in DOMAIN doc.lists : doc.lists[i].src \in Sources
    <3>1. \A i \in DOMAIN doc.lists : doc.lists[i] \in Definitions BY DEF PolicyOK
    <3> QED BY <2>0, <3>1
  <2>2. \A j \in DOMAIN Manifest : Manifest[j].src \in Sources
    <3>1. \A j \in DOMAIN Manifest : Manifest[j] \in Definitions BY DEF PolicyOK
    <3> QED BY <2>0, <3>1
  <2>3. ASSUME NEW j \in DOMAIN Manifest PROVE ShippedBy(doc)[j] \in {Url[s] : s \in Sources}
    <3> DEFINE named == {i \in DOMAIN doc.lists : doc.lists[i].name = Manifest[j].name}
    <3>1. CASE named = {} BY <2>2, <3>1 DEF ShippedBy
    <3>2. CASE named # {}
      <4>1. (CHOOSE i \in named : TRUE) \in named BY <3>2
      <4>2. ShippedBy(doc)[j] = Url[doc.lists[CHOOSE i \in named : TRUE].src] BY <3>2 DEF ShippedBy
      <4> QED BY <2>1, <4>1, <4>2
    <3> QED BY <3>1, <3>2
  <2> QED BY <2>3 DEF ShippedBy, Histories
<1>13. TableInv' /\ ServeInv'
  <2>1. enabled' \in BOOLEAN /\ rules' \in RuleTables BY <1>4 DEF PolicyOK
  <2>2. ops' \in 0 .. MaxOps /\ shipped' \in Histories BY <1>1, <1>4, <1>12 DEF TypeOK, Histories
  <2>3. work[h].at \notin {"lists", "rules"} /\ work'[h].at \notin {"lists", "rules"} /\ work'[h].owes
    BY <1>4, <1>6, <1>7
  <2> QED BY <1>4, <1>7, <1>8, <1>11, <2>1, <2>2, <2>3, TablesStep
<1>14. ShippedInv'
  <2> SUFFICES ASSUME shipped' # None
               PROVE  Uncrossed' /\ (\A v \in Workers : EditFits(work[v])') /\ \A j \in DOMAIN Manifest : ShippedAt(j)'
    BY DEF ShippedInv
  <2>1. shipped' = ShippedBy(doc) /\ ~Under({"put", "delete"}) BY <1>4
  <2>2. \A v \in Workers : work'[v].at \notin {"put", "delete"} BY <1>6, <1>7, <2>1 DEF Turned, Under
  <2>3. Uncrossed' /\ \A v \in Workers : EditFits(work[v])' BY <2>2 DEF Uncrossed, Under, EditFits
  <2>4. ASSUME NEW j \in DOMAIN Manifest PROVE ShippedAt(j)'
    <3> DEFINE n == Manifest[j].name
               named == {i \in DOMAIN doc.lists : doc.lists[i].name = n}
    <3>1. Named(lists', n) = named BY <1>9, <1>10 DEF Named
    <3>2. n \in Builtins BY DEF Builtins
    <3>3. \A i, k \in named : i = k BY DEF PolicyOK
    <3>4. ShippedBy(doc)[j] = IF named = {} THEN Url[Manifest[j].src] ELSE Url[doc.lists[CHOOSE i \in named : TRUE].src]
      BY DEF ShippedBy
    <3>5. ASSUME NEW i \in named PROVE AsShipped(lists[i], j)'
      <4>1. (CHOOSE k \in named : TRUE) = i BY <3>3
      <4>2. ShippedBy(doc)[j] = Url[doc.lists[i].src] BY <3>4, <4>1
      <4>3. i \in DOMAIN doc.lists /\ doc.lists[i].name = n OBVIOUS
      <4>4. lists'[i].builtin /\ lists'[i].src = doc.lists[i].src BY <1>9, <3>2, <4>3
      <4> QED BY <2>1, <4>2, <4>4 DEF AsShipped
    <3>6. named = {} => shipped'[j] = Url[Manifest[j].src] BY <2>1, <3>4
    <3>7. Reseeds(j)' BY <1>6, <1>7 DEF Reseeds
    <3>8. Named(lists, Manifest[j].name)' = named BY <3>1 DEF Named
    <3> HIDE DEF named
    <3> QED BY <3>5, <3>6, <3>7, <3>8 DEF ShippedAt, AsShipped
  <2> QED BY <2>3, <2>4
<1> QED BY <1>13, <1>14 DEF IndInv

\* A worker that seeds moves: rows stay, what it adds are the manifest's built-ins, and a
\* built-in that is still missing is still to be seeded.
Seeds(t, j) == t.at = "seed" \/ (t.at = "seeding" /\ j \in t.todo)

\* It keeps ShippedInv: nobody edits meanwhile.
LEMMA SeedStep ==
    ASSUME ShippedInv, NEW w \in Workers, Turned(w), role' = role, shipped' = shipped,
           work[w].at \in {"seed", "seeding"}, work'[w].at \notin {"put", "delete"},
           \A i \in DOMAIN lists : i \in DOMAIN lists' /\ lists'[i] = lists[i],
           \A i \in DOMAIN lists' \ DOMAIN lists, j \in DOMAIN Manifest : lists'[i].name = Manifest[j].name =>
               lists'[i].builtin /\ lists'[i].src = Manifest[j].src /\ Named(lists, Manifest[j].name) = {},
           \A j \in DOMAIN Manifest : Named(lists', Manifest[j].name) = {} /\ Seeds(work[w], j) => Seeds(work'[w], j)
    PROVE  ShippedInv'
<1> SUFFICES ASSUME Intact
             PROVE  Uncrossed' /\ (\A v \in Workers : EditFits(work[v])') /\ \A j \in DOMAIN Manifest : ShippedAt(j)'
  BY DEF ShippedInv, Intact
<1>1. /\ Uncrossed /\ \A j \in DOMAIN Manifest : ShippedAt(j)
      /\ \A v \in Workers \ {w} : work'[v] = work[v]
  BY DEF ShippedInv, Intact, Turned
<1>2. \A v \in Workers : work'[v].at \notin {"put", "delete"} BY <1>1 DEF Uncrossed, Under
<1>3. Uncrossed' /\ \A v \in Workers : EditFits(work[v])' BY <1>2 DEF Uncrossed, Under, EditFits
<1>4. ASSUME NEW j \in DOMAIN Manifest PROVE ShippedAt(j)'
  <2> DEFINE n == Manifest[j].name
  <2>1. /\ \A i \in Named(lists, n) : AsShipped(lists[i], j)
        /\ Named(lists, n) = {} => Reseeds(j) /\ shipped[j] = Url[Manifest[j].src]
    BY <1>1 DEF ShippedAt
  <2>2. ASSUME NEW i \in Named(lists', n) PROVE AsShipped(lists[i], j)'
    <3>1. CASE i \in DOMAIN lists
      <4>1. i \in Named(lists, n) BY <2>2, <3>1 DEF Named
      <4> QED BY <2>1, <3>1, <4>1 DEF AsShipped
    <3>2. CASE i \notin DOMAIN lists
      <4>1. lists'[i].builtin /\ lists'[i].src = Manifest[j].src /\ Named(lists, n) = {} BY <2>2, <3>2 DEF Named
      <4> QED BY <2>1, <4>1 DEF AsShipped
    <3> QED BY <3>1, <3>2
  <2>3. Named(lists', n) = {} => Named(lists, n) = {} BY DEF Named
  <2>4. Named(lists', n) = {} /\ Reseeds(j) => Reseeds(j)' BY <1>1 DEF Reseeds, Seeds
  <2> HIDE DEF n
  <2>5. Named(lists, n)' = Named(lists', n) BY DEF Named, n
  <2> QED BY <2>1, <2>2, <2>3, <2>4, <2>5 DEF ShippedAt, n
<1> QED BY <1>3, <1>4

\* The built-ins the import left out are noted.
LEMMA SeedReadStep == ASSUME PolicyOK, IndInv, NEW h \in Workers, SeedRead(h) PROVE IndInv'
<1>1. TypeOK BY DEF IndInv, TableInv
<1>2. PICK t : t = work[h] /\ Shape(t) /\ t.owes \in BOOLEAN /\ t.owes /\ t.at = "seed"
  BY <1>1 DEF TypeOK, SeedRead, IndInv, ServeInv, OwesFit
<1> DEFINE u == [t EXCEPT !.at = "seeding", !.todo = Missing(lists, Manifest)]
<1>3. UNCHANGED <<db, Others>> /\ ops' \in 0 .. MaxOps BY <1>1 DEF SeedRead, TypeOK
<1>4. work' = [work EXCEPT ![h] = u] BY <1>1, <1>2 DEF SeedRead, TypeOK
<1>5. u \in Tasks("seeding", t.arg, Missing(lists, Manifest), t.got, t.owes, t.kind)
  BY <1>2 DEF Shape, Tasks
<1> HIDE DEF u
<1>6. u.at = "seeding" /\ u.todo = Missing(lists, Manifest) /\ u.owes = t.owes /\ Shape(u)
  BY <1>5 DEF Tasks, Shape
<1>7. Turned(h) /\ work'[h] = u BY <1>1, <1>4, Turns
<1>8. GoesOn(h)' /\ OwesFit(work[h])'
  BY <1>2, <1>6, <1>7 DEF GoesOn, OwesFit, Fit, Steps, Shape, Missing
<1>9. UNCHANGED <<enabled, lists, rules>> /\ UNCHANGED db /\ UNCHANGED Served /\ role' = role /\ shipped' = shipped
  BY <1>3 DEF db, Others, Served
<1>10. TableInv' /\ ServeInv'
  <2>1. enabled' \in BOOLEAN /\ rules' \in RuleTables /\ shipped' \in Histories BY <1>1, <1>9 DEF TypeOK, Histories
  <2>2. RowsOK(lists)' BY <1>9, TableRows DEF RowsOK
  <2>3. work[h].at \notin {"lists", "rules"} /\ work'[h].at \notin {"lists", "rules"} /\ work'[h].owes = work[h].owes
    BY <1>2, <1>6, <1>7
  <2> QED BY <1>3, <1>7, <1>8, <1>9, <2>1, <2>2, <2>3, TablesStep
<1>11. ShippedInv'
  <2>1. \A j \in DOMAIN Manifest : Named(lists', Manifest[j].name) = {} => Seeds(work'[h], j)
    BY <1>6, <1>7, <1>9 DEF Seeds, Missing
  <2> QED BY <1>2, <1>6, <1>7, <1>9, <2>1, SeedStep DEF IndInv
<1> QED BY <1>10, <1>11 DEF IndInv

\* An operation that gives up after its commit: its caller is told.
LEMMA GiveUpStep ==
    ASSUME PolicyOK, IndInv, NEW w \in Workers, work[w].at \notin {"lists", "rules"}, GiveUp(w),
           UNCHANGED <<db, live, mu, role, ops>>,
           shipped' = None \/ (shipped' = shipped /\ work[w].at \notin {"seed", "seeding"})
    PROVE  IndInv'
<1>1. TypeOK /\ UNCHANGED <<enabled, lists, rules>> BY DEF IndInv, TableInv, db
<1>2. unserved' = TRUE /\ covers' = FALSE /\ work' = [work EXCEPT ![w] = Idle] BY DEF GiveUp
<1>3. /\ Turned(w) /\ GoesOn(w)' /\ OwesFit(work[w])' /\ Harmless(work'[w]) /\ work'[w].at \notin {"lists", "rules"}
  BY <1>1, <1>2, Idles
<1>4. TableInv'
  <2>1. enabled' \in BOOLEAN /\ rules' \in RuleTables /\ mu' \in Workers \cup {None} /\ ops' \in 0 .. MaxOps
        /\ shipped' \in Histories /\ unserved' \in BOOLEAN /\ covers' \in BOOLEAN
    BY <1>1, <1>2 DEF TypeOK, Histories
  <2>2. RowsOK(lists)' BY <1>1, TableRows DEF RowsOK
  <2> QED BY <1>3, <2>1, <2>2, TableStep DEF IndInv
<1>5. ServeInv'
  <2>1. \A v \in Workers \ {w} : work'[v] = work[v] BY <1>3 DEF Turned
  <2>2. \A v \in Workers : OwesFit(work[v])' /\ (mu' = v <=> work'[v].at \in {"lists", "rules"})
    BY <1>3, <2>1 DEF IndInv, ServeInv, OwesFit
  <2> QED BY <1>2, <2>2 DEF ServeInv, UpToDate, InHand, Outdated
<1>6. ShippedInv'
  <2>1. CASE shipped' = None BY <2>1 DEF ShippedInv
  <2>2. CASE shipped' = shipped /\ work[w].at \notin {"seed", "seeding"}
    <3>1. Intact => SameShipped BY <1>1, ListsAlone DEF IndInv
    <3>2. EditFits(work[w])' /\ work'[w].at \notin {"seed", "seeding"} BY <1>3 DEF EditFits, Harmless
    <3> QED BY <1>3, <2>2, <3>1, <3>2, ShippedStep DEF IndInv
  <2> QED BY <2>1, <2>2
<1> QED BY <1>4, <1>5, <1>6 DEF IndInv

\* A new row's id is none in use.
LEMMA NewIdFresh ==
    ASSUME PolicyOK, NEW ls, DOMAIN ls \subseteq Ids
    PROVE  NewId(ls) \in Nat /\ \A i \in DOMAIN ls : i < NewId(ls)
<1>1. CASE DOMAIN ls = {} BY <1>1 DEF NewId
<1>2. CASE DOMAIN ls # {}
  <2>1. MaxId \in Nat /\ DOMAIN ls \in SUBSET (1 .. MaxId) BY DEF PolicyOK, Ids
  <2>2. Max(DOMAIN ls) \in DOMAIN ls /\ \A y \in DOMAIN ls : Max(DOMAIN ls) >= y BY <1>2, <2>1, MaxIn
  <2>3. NewId(ls) = Max(DOMAIN ls) + 1 BY <1>2 DEF NewId
  <2>4. \A i \in DOMAIN ls : i \in Nat BY <2>1
  <2> QED BY <2>2, <2>3, <2>4
<1> QED BY <1>1, <1>2

\* A manifest entry is inserted, or the seeding ends; a name taken meanwhile ends it early.
LEMMA SeedPutStep == ASSUME PolicyOK, IndInv, NEW h \in Workers, SeedPut(h) PROVE IndInv'
<1>1. TypeOK /\ RowsOK(lists) BY TableRows DEF IndInv, TableInv
<1>2. PICK t : t = work[h] /\ Shape(t) /\ t.owes \in BOOLEAN /\ t.at = "seeding" /\ t.todo \subseteq DOMAIN Manifest
  BY <1>1 DEF TypeOK, SeedPut, IndInv, TableInv, Fit
<1>3. /\ UNCHANGED <<enabled, rules, live, mu, role, ops>> /\ ops' \in 0 .. MaxOps
      /\ enabled' \in BOOLEAN /\ rules' \in RuleTables /\ work[h].at \notin {"lists", "rules"}
  BY <1>1, <1>2 DEF SeedPut, TypeOK
<1>4. ASSUME Turned(h), GoesOn(h)', OwesFit(work[h])', work'[h].owes, work'[h].at \in {"rebuild", "seeding"},
             UNCHANGED <<unserved, covers, shipped>>, RowsOK(lists)'
      PROVE  TableInv' /\ ServeInv'
  <2>1. UNCHANGED Served /\ shipped' \in Histories BY <1>1, <1>3, <1>4 DEF Served, TypeOK, Histories
  <2> QED BY <1>3, <1>4, <2>1, TablesStep
<1>5. CASE t.todo = {} /\ Commit(h) /\ UNCHANGED <<lists, unserved, covers, shipped>>
  <2>1. RowsOK(lists)' BY <1>1, <1>5 DEF RowsOK
  <2>2. /\ Turned(h) /\ GoesOn(h)' /\ OwesFit(work[h])' /\ work'[h].owes /\ work'[h].at = "rebuild"
    BY <1>1, <1>5, Commits
  <2>3. TableInv' /\ ServeInv' BY <1>4, <1>5, <2>1, <2>2
  <2>4. \A j \in DOMAIN Manifest : ~Seeds(work[h], j) BY <1>2, <1>5 DEF Seeds
  <2>5. ShippedInv' BY <1>2, <1>3, <1>5, <2>2, <2>4, SeedStep DEF IndInv
  <2> QED BY <2>3, <2>5 DEF IndInv
<1>6. ASSUME NEW j \in t.todo, Named(lists, Manifest[j].name) = {}, NewId(lists) \in Ids,
             lists' = Insert(lists, FreshRow(Manifest[j], TRUE)),
             work' = [work EXCEPT ![h].todo = @ \ {j}], UNCHANGED <<unserved, covers, shipped>>
      PROVE  IndInv'
  <2> DEFINE u == [t EXCEPT !.todo = t.todo \ {j}]
  <2>1. j \in DOMAIN Manifest /\ Manifest[j] \in Definitions BY <1>2 DEF PolicyOK
  <2>2. PICK row \in Rows : /\ row = FreshRow(Manifest[j], TRUE) /\ row.tag = row.body
                            /\ row.builtin = TRUE /\ row.name = Manifest[j].name /\ row.src = Manifest[j].src
    BY <2>1, FreshRowOK
  <2>3. /\ RowsOK(Insert(lists, row))
        /\ \A i \in DOMAIN lists : i \in DOMAIN Insert(lists, row) /\ Insert(lists, row)[i] = lists[i]
        /\ \A i \in DOMAIN Insert(lists, row) : i \in DOMAIN lists \/ Insert(lists, row)[i] = row
    BY <1>1, <1>6, <2>2, InsertOK
  <2>4. RowsOK(lists)' BY <1>6, <2>2, <2>3 DEF RowsOK
  <2>5. work' = [work EXCEPT ![h] = u] BY <1>1, <1>2, <1>6 DEF TypeOK
  <2>6. u \in Tasks("seeding", t.arg, t.todo \ {j}, t.got, t.owes, t.kind) BY <1>2 DEF Shape, Tasks
  <2> HIDE DEF u
  <2>7. u.at = "seeding" /\ u.todo = t.todo \ {j} /\ u.owes = t.owes /\ Shape(u) BY <2>6 DEF Tasks, Shape
  <2>8. Turned(h) /\ work'[h] = u BY <1>1, <2>5, Turns
  <2>9. t.owes BY <1>2 DEF IndInv, ServeInv, OwesFit
  <2>10. GoesOn(h)' /\ OwesFit(work[h])' BY <1>2, <2>7, <2>8, <2>9 DEF GoesOn, OwesFit, Fit, Steps, Shape
  <2>11. TableInv' /\ ServeInv' BY <1>4, <1>6, <2>4, <2>7, <2>8, <2>9, <2>10
  <2>12. NewId(lists) \in DOMAIN lists' /\ lists'[NewId(lists)] = row
    <3>1. NewId(lists) \notin DOMAIN lists BY <1>1, NewIdFresh DEF RowsOK
    <3> QED BY <1>6, <2>2, <3>1 DEF Insert
  <2>13. ASSUME NEW k \in DOMAIN Manifest, Named(lists', Manifest[k].name) = {}, Seeds(work[h], k)
         PROVE  Seeds(work'[h], k)
    <3>1. k # j BY <2>2, <2>12, <2>13 DEF Named
    <3> QED BY <1>2, <2>7, <2>8, <2>13, <3>1 DEF Seeds
  <2>14. ASSUME NEW i \in DOMAIN lists' \ DOMAIN lists, NEW k \in DOMAIN Manifest, lists'[i].name = Manifest[k].name
         PROVE  lists'[i].builtin /\ lists'[i].src = Manifest[k].src /\ Named(lists, Manifest[k].name) = {}
    <3>1. lists'[i] = row BY <1>6, <2>2, <2>3
    <3>2. k = j BY <2>1, <2>2, <2>14, <3>1 DEF PolicyOK
    <3> QED BY <1>6, <2>2, <3>1, <3>2
  <2>15. \A i \in DOMAIN lists : i \in DOMAIN lists' /\ lists'[i] = lists[i] BY <1>6, <2>2, <2>3
  <2>16. ShippedInv' BY <1>2, <1>3, <1>6, <2>7, <2>8, <2>13, <2>14, <2>15, SeedStep DEF IndInv
  <2> QED BY <2>11, <2>16 DEF IndInv
<1>7. CASE GiveUp(h) /\ UNCHANGED lists /\ shipped' = None
  BY <1>1, <1>2, <1>3, <1>7, GiveUpStep DEF db
<1>8. \/ t.todo = {} /\ Commit(h) /\ UNCHANGED <<lists, unserved, covers, shipped>>
      \/ GiveUp(h) /\ UNCHANGED lists /\ shipped' = None
      \/ \E j \in t.todo : /\ Named(lists, Manifest[j].name) = {} /\ NewId(lists) \in Ids
                           /\ lists' = Insert(lists, FreshRow(Manifest[j], TRUE))
                           /\ work' = [work EXCEPT ![h].todo = @ \ {j}] /\ UNCHANGED <<unserved, covers, shipped>>
  BY <1>2 DEF SeedPut
<1> QED BY <1>5, <1>6, <1>7, <1>8

----------------------------------------------------------------------------
(* Refreshes *)

\* A worker that begins a refresh has read the rows it is for.
LEMMA RefreshBegins ==
    ASSUME PolicyOK, IndInv, NEW w \in Workers, NEW S \in SUBSET DOMAIN lists, NEW k \in {"due", "all", "list"},
           k = "list" => \E i : S = {i}, work[w].at = "idle",
           work' = [work EXCEPT ![w] = [Idle EXCEPT !.at = "refresh", !.todo = Read(S), !.kind = k]],
           UNCHANGED <<db, Others>>, ops' \in 0 .. MaxOps
    PROVE  IndInv'
<1> DEFINE t == [Idle EXCEPT !.at = "refresh", !.todo = Read(S), !.kind = k]
<1>1. TypeOK /\ ~work[w].owes /\ work[w].owes \in BOOLEAN
  BY DEF IndInv, TableInv, TypeOK, ServeInv, OwesFit
<1>2. t \in Tasks("refresh", None, Read(S), None, FALSE, k) BY DEF Idle, Tasks
<1>3. Turned(w) /\ work'[w] = t BY <1>1, Turns
<1> HIDE DEF t
<1>4. t.at = "refresh" /\ t.todo = Read(S) /\ t.owes = FALSE /\ t.kind = k /\ Shape(t) BY <1>2 DEF Tasks, Shape
<1>5. \A r \in Read(S) : r.src \in Sources BY <1>1 DEF Read, TypeOK, Rows
<1>6. k = "list" => \A r, s \in Read(S) : r = s BY DEF Read
<1>7. GoesOn(w)' /\ OwesFit(work[w])' /\ Harmless(work'[w])
  BY <1>3, <1>4, <1>5, <1>6 DEF GoesOn, OwesFit, Harmless, Fit, Steps, Shape
<1> QED BY <1>1, <1>3, <1>4, <1>7, ReadStep

\* A refresh begins with rows whose sources exist and owes nothing yet.
LEMMA RefreshBeginStep ==
    ASSUME PolicyOK, IndInv,
           \/ \E S \in SUBSET Enabled : RefreshDue(S)
           \/ \E h \in Handlers : RefreshAll(h) \/ \E i \in Ids : RefreshList(h, i)
    PROVE  IndInv'
<1>1. Enabled \in SUBSET DOMAIN lists BY DEF Enabled
<1>2. ASSUME NEW S \in SUBSET Enabled, RefreshDue(S) PROVE IndInv'
  <2>1. "refresher" \in Workers /\ ops' \in 0 .. MaxOps
    BY <1>2 DEF RefreshDue, Workers, IndInv, TableInv, TypeOK
  <2> QED BY <1>1, <1>2, <2>1, RefreshBegins DEF RefreshDue
<1>3. ASSUME NEW h \in Handlers, RefreshAll(h) PROVE IndInv'
  <2>1. Begin(h) BY <1>3 DEF RefreshAll
  <2> QED BY <1>1, <1>3, <2>1, Begins, RefreshBegins DEF RefreshAll
<1>4. ASSUME NEW h \in Handlers, NEW i \in Ids, RefreshList(h, i) PROVE IndInv'
  <2>1. Begin(h) /\ {i} \in SUBSET DOMAIN lists BY <1>4 DEF RefreshList
  <2> QED BY <1>4, <2>1, Begins, RefreshBegins DEF RefreshList
<1> QED BY <1>2, <1>3, <1>4

\* A download, an error or a 304 changes no row.
LEMMA FetchStep == ASSUME PolicyOK, IndInv, NEW w \in Workers, Fetch(w) PROVE IndInv'
<1>1. TypeOK BY DEF IndInv, TableInv
<1>2. PICK t : /\ t = work[w] /\ Shape(t) /\ t.owes \in BOOLEAN /\ t.at = "refresh"
               /\ Fit(t) /\ OwesFit(t)
  BY <1>1 DEF TypeOK, Fetch, IndInv, TableInv, ServeInv
<1>3. UNCHANGED <<db, Others>> /\ ops' \in 0 .. MaxOps /\ work[w].at \notin {"lists", "rules", "seed", "seeding"}
  BY <1>1, <1>2 DEF Fetch, TypeOK
<1>4. ASSUME NEW u, work' = [work EXCEPT ![w] = u], Shape(u), u.at \in {"refresh", "install"}, u.owes = t.owes,
             Fit(u), OwesFit(u)
      PROVE  IndInv'
  <2>1. Turned(w) /\ work'[w] = u BY <1>1, <1>4, Turns
  <2>2. GoesOn(w)' /\ OwesFit(work[w])' /\ Harmless(work'[w])
    BY <1>2, <1>4, <2>1 DEF GoesOn, OwesFit, Harmless, Fit, KeptOK, Steps, Shape
  <2> QED BY <1>2, <1>3, <1>4, <2>1, <2>2, ReadStep
<1>5. ASSUME NEW r \in t.todo,
             work' = [work EXCEPT ![w].todo = @ \ {r}, ![w].kind = IF @ = "list" THEN "failed" ELSE @]
      PROVE  IndInv'
  <2> DEFINE k == IF t.kind = "list" THEN "failed" ELSE t.kind
             u == [t EXCEPT !.todo = t.todo \ {r}, !.kind = k]
  <2>1. work' = [work EXCEPT ![w] = u] BY <1>1, <1>2, <1>5 DEF TypeOK
  <2>2. k \in {"due", "all", "failed"} /\ (k = "failed" => t.kind \in {"failed", "list"}) BY <1>2 DEF OwesFit
  <2> HIDE DEF k
  <2>3. u \in Tasks("refresh", t.arg, t.todo \ {r}, t.got, t.owes, k) BY <1>2 DEF Shape, Tasks
  <2> HIDE DEF u
  <2>4. u.at = "refresh" /\ u.todo = t.todo \ {r} /\ u.owes = t.owes /\ u.kind = k /\ Shape(u)
    BY <2>3 DEF Tasks, Shape
  <2>5. Fit(u) BY <1>2, <2>4 DEF Fit
  <2>6. OwesFit(u) BY <1>2, <2>2, <2>4 DEF OwesFit
  <2> QED BY <1>4, <2>1, <2>4, <2>5, <2>6
<1>6. ASSUME NEW r \in t.todo, work' = [work EXCEPT ![w].todo = @ \ {r}] PROVE IndInv'
  <2> DEFINE u == [t EXCEPT !.todo = t.todo \ {r}]
  <2>1. work' = [work EXCEPT ![w] = u] BY <1>1, <1>2, <1>6 DEF TypeOK
  <2>2. u \in Tasks("refresh", t.arg, t.todo \ {r}, t.got, t.owes, t.kind) BY <1>2 DEF Shape, Tasks
  <2> HIDE DEF u
  <2>3. u.at = "refresh" /\ u.todo = t.todo \ {r} /\ u.owes = t.owes /\ u.kind = t.kind /\ Shape(u)
    BY <2>2 DEF Tasks, Shape
  <2>4. Fit(u) /\ OwesFit(u) BY <1>2, <2>3 DEF Fit, OwesFit
  <2> QED BY <1>4, <2>1, <2>3, <2>4
<1>7. ASSUME NEW r \in t.todo, NEW v \in Versions[r.src],
             work' = [work EXCEPT ![w].at = "install", ![w].got = [row |-> r, body |-> <<r.src, v>>]]
      PROVE  IndInv'
  <2> DEFINE g == [row |-> r, body |-> <<r.src, v>>]
             u == [t EXCEPT !.at = "install", !.got = g]
  <2>1. work' = [work EXCEPT ![w] = u] BY <1>1, <1>2, <1>7 DEF TypeOK
  <2>2. r.src \in Sources BY <1>2 DEF Fit
  <2>3. g.row = r /\ g.body = <<r.src, v>> /\ g.body \in Bodies BY <2>2 DEF Bodies
  <2> HIDE DEF g
  <2>4. u \in Tasks("install", t.arg, t.todo, g, t.owes, t.kind) BY <1>2 DEF Shape, Tasks
  <2> HIDE DEF u
  <2>5. u.at = "install" /\ u.todo = t.todo /\ u.got = g /\ u.owes = t.owes /\ u.kind = t.kind /\ Shape(u)
    BY <2>4 DEF Tasks, Shape
  <2>6. Fit(u) /\ OwesFit(u) BY <1>2, <2>3, <2>5 DEF Fit, OwesFit
  <2> QED BY <1>4, <2>1, <2>5, <2>6
<1> QED BY <1>2, <1>5, <1>6, <1>7 DEF Fetch

\* A body and its validators are stored together, in whichever row has the id now.
LEMMA InstallStep == ASSUME PolicyOK, IndInv, NEW w \in Workers, Install(w) PROVE IndInv'
<1>1. TypeOK /\ RowsOK(lists) BY TableRows DEF IndInv, TableInv
<1>2. PICK t : /\ t = work[w] /\ Shape(t) /\ t.owes \in BOOLEAN /\ t.at = "install"
               /\ Fit(t) /\ OwesFit(t)
  BY <1>1 DEF TypeOK, Install, IndInv, TableInv, ServeInv
<1>3. PICK r \in t.todo, b \in Bodies : r = t.got.row /\ b = t.got.body BY <1>2 DEF Fit
<1> DEFINE ok == r.id \in DOMAIN lists
           k == IF ok \/ t.kind # "list" THEN t.kind ELSE "failed"
           o == t.owes \/ ok
           u == [t EXCEPT !.at = "refresh", !.todo = t.todo \ {r}, !.got = None, !.owes = o, !.kind = k]
<1>4. /\ UNCHANGED <<enabled, rules, ops>> /\ UNCHANGED Others
      /\ lists' = IF ok THEN [lists EXCEPT ![r.id].body = b, ![r.id].tag = b] ELSE lists
      /\ work' = [work EXCEPT ![w] = u]
  <2>1. UNCHANGED <<enabled, rules, ops>> /\ UNCHANGED Others BY DEF Install
  <2>2. lists' = IF ok THEN [lists EXCEPT ![r.id].body = b, ![r.id].tag = b] ELSE lists BY <1>2, <1>3 DEF Install
  <2>3. work' = [work EXCEPT ![w] = u] BY <1>1, <1>2, <1>3 DEF Install, TypeOK
  <2> QED BY <2>1, <2>2, <2>3
<1>5. o \in BOOLEAN BY <1>2
<1>6. /\ k \in {"due", "all", "list", "failed"}
      /\ k = "failed" => ~o
      /\ k \in {"list", "failed"} => t.todo = {r}
  BY <1>2, <1>3 DEF OwesFit
<1>7. (~ok => o = t.owes) /\ (ok => o) BY <1>2
<1> HIDE DEF k, o
<1>8. u \in Tasks("refresh", t.arg, t.todo \ {r}, None, o, k) BY <1>2 DEF Shape, Tasks
<1> HIDE DEF u
<1>9. u.at = "refresh" /\ u.todo = t.todo \ {r} /\ u.owes = o /\ u.kind = k /\ Shape(u) BY <1>8 DEF Tasks, Shape
<1>10. Fit(u) BY <1>2, <1>9 DEF Fit
<1>11. OwesFit(u) BY <1>2, <1>6, <1>9 DEF OwesFit
<1>12. Turned(w) /\ work'[w] = u BY <1>1, <1>4, Turns
<1>13. GoesOn(w)' /\ OwesFit(work[w])' /\ Harmless(work'[w])
  BY <1>5, <1>9, <1>10, <1>11, <1>12 DEF GoesOn, OwesFit, Harmless, Fit, KeptOK, Steps, Shape
<1>14. RowsOK(lists)' /\ (Intact => SameShipped)
  <2>1. CASE ok
    <3>1. /\ lists' = [j \in DOMAIN lists' |-> lists'[j]]
          /\ DOMAIN lists' = DOMAIN lists /\ \A j \in DOMAIN lists \ {r.id} : lists'[j] = lists[j]
          /\ lists'[r.id] = [lists[r.id] EXCEPT !.body = b, !.tag = b]
      BY <1>4, <2>1
    <3>2. lists[r.id] \in Rows BY <1>1, <2>1 DEF RowsOK
    <3>3. /\ lists'[r.id] \in Rows /\ lists'[r.id].tag = lists'[r.id].body
          /\ lists'[r.id].builtin = lists[r.id].builtin
          /\ lists'[r.id].name = lists[r.id].name /\ lists'[r.id].src = lists[r.id].src
      BY <3>1, <3>2 DEF Rows
    <3>4. RowsOK(lists)' BY <1>1, <3>1, <3>3 DEF RowsOK
    <3>5. ASSUME Intact PROVE SameShipped
      <4>1. \A i \in DOMAIN lists : lists[i].name \in Builtins => lists[i].builtin
        BY <3>5 DEF IndInv, ShippedInv, Intact, ShippedAt, AsShipped, Named, Builtins
      <4> QED BY <2>1, <3>1, <3>3, <4>1 DEF SameShipped
    <3> QED BY <3>4, <3>5
  <2>2. CASE ~ok BY <1>1, <1>4, <2>2, ListsAlone DEF RowsOK, IndInv
  <2> QED BY <2>1, <2>2
<1>15. enabled' \in BOOLEAN /\ rules' \in RuleTables /\ ops' \in 0 .. MaxOps /\ work[w].at \notin {"lists", "rules", "seed", "seeding"}
  BY <1>1, <1>2, <1>4 DEF TypeOK
<1>16. work'[w].owes \/ (UNCHANGED db /\ work'[w].owes = work[w].owes)
  BY <1>2, <1>4, <1>7, <1>9, <1>12 DEF db
<1>17. work'[w].at \notin {"lists", "rules"} BY <1>9, <1>12
<1> QED BY <1>4, <1>12, <1>13, <1>14, <1>15, <1>16, <1>17, EditStep

\* A refresh that stored a body goes on to rebuild.
LEMMA RefreshEndStep == ASSUME PolicyOK, IndInv, NEW w \in Workers, RefreshEnd(w) PROVE IndInv'
<1>1. TypeOK BY DEF IndInv, TableInv
<1>2. PICK t : t = work[w] /\ t.owes \in BOOLEAN /\ t.at = "refresh" /\ OwesFit(t)
  BY <1>1 DEF TypeOK, RefreshEnd, IndInv, TableInv, ServeInv
<1> DEFINE rebuilds == (t.kind = "due" /\ t.owes) \/ t.kind \in {"all", "list"}
           u == [Idle EXCEPT !.at = "rebuild", !.owes = t.owes]
<1>3. /\ UNCHANGED <<db, Others>> /\ ops' \in 0 .. MaxOps /\ work[w].at \notin {"lists", "rules", "seed", "seeding"}
      /\ work' = [work EXCEPT ![w] = IF rebuilds THEN u ELSE Idle]
  BY <1>1, <1>2 DEF RefreshEnd, TypeOK
<1>4. CASE rebuilds
  <2>1. Turned(w) /\ work'[w] = u BY <1>1, <1>3, <1>4, Turns
  <2>2. u \in Tasks("rebuild", None, {}, None, t.owes, None) BY DEF Idle, Tasks
  <2> HIDE DEF u
  <2>3. u.at = "rebuild" /\ u.owes = t.owes /\ Shape(u) BY <2>2 DEF Tasks, Shape
  <2>4. GoesOn(w)' /\ OwesFit(work[w])' /\ Harmless(work'[w])
    BY <1>2, <2>1, <2>3 DEF GoesOn, OwesFit, Harmless, Fit, Steps, Shape
  <2> QED BY <1>2, <1>3, <2>1, <2>3, <2>4, ReadStep
<1>5. CASE ~rebuilds
  <2>1. ~t.owes BY <1>2, <1>5 DEF OwesFit
  <2>2. work' = [work EXCEPT ![w] = Idle] BY <1>3, <1>5
  <2>3. /\ Turned(w) /\ GoesOn(w)' /\ OwesFit(work[w])' /\ Harmless(work'[w])
        /\ ~work'[w].owes /\ work'[w].at \notin {"lists", "rules"}
    BY <1>1, <2>2, Idles
  <2>4. work'[w].owes = work[w].owes BY <1>2, <2>1, <2>3 DEF GoesOn
  <2> QED BY <1>3, <2>3, <2>4, ReadStep
<1> QED BY <1>4, <1>5

----------------------------------------------------------------------------
(* Rebuild *)

\* A worker in Rebuild, and nobody else, holds the mutex.
LEMMA Alone ==
    ASSUME PolicyOK, IndInv, NEW w \in Workers
    PROVE  /\ work[w].at \in {"lists", "rules"} => mu = w /\ InHand(w)
           /\ mu = None => work[w].at \notin {"lists", "rules"}
BY DEF IndInv, ServeInv, PolicyOK

\* A rebuild writes no table and takes no list away.
LEMMA RebuildTables ==
    ASSUME PolicyOK, IndInv, NEW w \in Workers, Turned(w), GoesOn(w)', UNCHANGED <<db, role, ops, shipped>>,
           mu' \in {w, None}, unserved' \in BOOLEAN, covers' \in BOOLEAN,
           Harmless(work'[w]), work[w].at \notin {"seed", "seeding"}
    PROVE  TableInv' /\ ShippedInv'
<1>1. TypeOK /\ UNCHANGED <<enabled, lists, rules>> BY DEF IndInv, TableInv, db
<1>2. RowsOK(lists)' BY <1>1, TableRows DEF RowsOK
<1>3. /\ enabled' \in BOOLEAN /\ rules' \in RuleTables /\ mu' \in Workers \cup {None} /\ ops' \in 0 .. MaxOps
      /\ shipped' \in Histories
  BY <1>1 DEF TypeOK, Histories
<1>4. /\ EditFits(work[w])' /\ work'[w].at \notin {"seed", "seeding"}
      /\ Intact => SameShipped
  BY <1>1, ListsAlone DEF IndInv, EditFits, Harmless
<1> QED BY <1>2, <1>3, <1>4, TableStep, ShippedStep DEF IndInv

\* Rebuild reads the switch: what it has in hand is current.
LEMMA RebuildStartStep == ASSUME PolicyOK, IndInv, NEW w \in Workers, RebuildStart(w) PROVE IndInv'
<1>1. TypeOK BY DEF IndInv, TableInv
<1>2. PICK t : t = work[w] /\ Shape(t) /\ t.owes \in BOOLEAN /\ t.at = "rebuild"
  BY <1>1 DEF TypeOK, RebuildStart
<1> DEFINE g == [enabled |-> enabled, bodies |-> {}]
           u == [t EXCEPT !.at = "lists", !.got = g]
<1>3. /\ mu = None /\ mu' = w /\ covers' = TRUE /\ UNCHANGED <<enabled, lists, rules, live, role, ops, unserved, shipped>>
      /\ work' = [work EXCEPT ![w] = u]
  BY <1>2 DEF RebuildStart, Reading
<1>4. g.enabled = enabled /\ g = [enabled |-> g.enabled, bodies |-> g.bodies] OBVIOUS
<1> HIDE DEF g
<1>5. u \in Tasks("lists", t.arg, t.todo, g, t.owes, t.kind) BY <1>2 DEF Shape, Tasks
<1> HIDE DEF u
<1>6. u.at = "lists" /\ u.got = g /\ u.owes = t.owes /\ Shape(u) BY <1>5 DEF Tasks, Shape
<1>7. Turned(w) /\ work'[w] = u BY <1>1, <1>3, Turns
<1>8. GoesOn(w)' /\ OwesFit(work[w])' BY <1>2, <1>4, <1>6, <1>7 DEF GoesOn, OwesFit, Fit, Steps, Shape
<1>9. TableInv' /\ ShippedInv'
  <2>1. unserved' \in BOOLEAN /\ covers' \in BOOLEAN /\ UNCHANGED <<db, role, ops, shipped>>
    BY <1>1, <1>3 DEF TypeOK, db
  <2> QED BY <1>2, <1>3, <1>6, <1>7, <1>8, <2>1, RebuildTables DEF Harmless
<1>10. ServeInv'
  <2>1. \A v \in Workers \ {w} : work'[v] = work[v] BY <1>7 DEF Turned
  <2>2. \A v \in Workers : OwesFit(work[v])' BY <1>8, <2>1 DEF IndInv, ServeInv, OwesFit
  <2>3. \A v \in Workers : mu' = v <=> work'[v].at \in {"lists", "rules"} BY <1>3, <1>6, <1>7, <2>1, Alone
  <2>4. InHand(w)' BY <1>3, <1>4, <1>6, <1>7 DEF InHand
  <2>5. \A v \in Workers : work'[v].owes = work[v].owes BY <1>2, <1>6, <1>7, <2>1
  <2>6. UpToDate' BY <1>3, <2>5 DEF IndInv, ServeInv, UpToDate, Build, Serving
  <2> QED BY <1>3, <2>2, <2>3, <2>4, <2>6 DEF ServeInv
<1> QED BY <1>9, <1>10 DEF IndInv

\* It reads the lists: a change of the switch since then has an owner, who will rebuild.
LEMMA RebuildListsStep == ASSUME PolicyOK, IndInv, NEW w \in Workers, RebuildLists(w) PROVE IndInv'
<1>1. TypeOK BY DEF IndInv, TableInv
<1>2. PICK t : /\ t = work[w] /\ Shape(t) /\ t.owes \in BOOLEAN /\ t.at = "lists"
               /\ t.got = [enabled |-> t.got.enabled, bodies |-> t.got.bodies]
  BY <1>1 DEF TypeOK, RebuildLists, IndInv, TableInv, Fit
<1> DEFINE g == [t.got EXCEPT !.bodies = Serving(lists)]
           u == [t EXCEPT !.at = "rules", !.got = g]
<1>3. /\ UNCHANGED <<enabled, lists, rules, live, mu, role, ops, unserved, covers, shipped>>
      /\ work' = [work EXCEPT ![w] = u]
  BY <1>1, <1>2 DEF RebuildLists, TypeOK
<1>4. g \in [enabled : {t.got.enabled}, bodies : {Serving(lists)}] BY <1>2
<1> HIDE DEF g
<1>5. g.enabled = t.got.enabled /\ g.bodies = Serving(lists) /\ g = [enabled |-> g.enabled, bodies |-> g.bodies]
  BY <1>4
<1>6. u \in Tasks("rules", t.arg, t.todo, g, t.owes, t.kind) BY <1>2 DEF Shape, Tasks
<1> HIDE DEF u
<1>7. u.at = "rules" /\ u.got = g /\ u.owes = t.owes /\ Shape(u) BY <1>6 DEF Tasks, Shape
<1>8. Turned(w) /\ work'[w] = u BY <1>1, <1>3, Turns
<1>9. GoesOn(w)' /\ OwesFit(work[w])' BY <1>2, <1>5, <1>7, <1>8 DEF GoesOn, OwesFit, Fit, Steps, Shape
<1>10. mu = w /\ InHand(w) BY <1>2, Alone
<1>11. TableInv' /\ ShippedInv'
  <2>1. unserved' \in BOOLEAN /\ covers' \in BOOLEAN /\ UNCHANGED <<db, role, ops, shipped>>
    BY <1>1, <1>3 DEF TypeOK, db
  <2> QED BY <1>2, <1>3, <1>7, <1>8, <1>9, <1>10, <2>1, RebuildTables DEF Harmless
<1>12. ServeInv'
  <2>1. \A v \in Workers \ {w} : work'[v] = work[v] BY <1>8 DEF Turned
  <2>2. \A v \in Workers : OwesFit(work[v])' BY <1>9, <2>1 DEF IndInv, ServeInv, OwesFit
  <2>3. \A v \in Workers : mu' = v <=> work'[v].at \in {"lists", "rules"}
    BY <1>3, <1>7, <1>8, <1>10, <2>1 DEF IndInv, ServeInv
  <2>4. \A v \in Workers : work'[v].owes = work[v].owes BY <1>2, <1>7, <1>8, <2>1
  <2>5. Outdated(w) => Outdated(w)' BY <1>3, <2>4 DEF Outdated
  <2>6. InHand(w)' BY <1>2, <1>3, <1>5, <1>7, <1>8, <1>10, <2>5 DEF InHand, Serving
  <2>7. UpToDate' BY <1>3, <2>4 DEF IndInv, ServeInv, UpToDate, Build, Serving
  <2> QED BY <1>3, <1>10, <2>2, <2>3, <2>6, <2>7 DEF ServeInv
<1> QED BY <1>11, <1>12 DEF IndInv

\* It publishes what is current, or somebody else still owes a rebuild.
LEMMA RebuildPublishStep == ASSUME PolicyOK, IndInv, NEW w \in Workers, RebuildPublish(w) PROVE IndInv'
<1>1. TypeOK BY DEF IndInv, TableInv
<1>2. PICK g : /\ g = work[w].got /\ work[w].at = "rules"
  BY DEF RebuildPublish
<1>3. /\ mu' = None /\ covers' = FALSE /\ unserved' = (unserved /\ ~covers)
      /\ UNCHANGED <<enabled, lists, rules, role, ops, shipped>> /\ work' = [work EXCEPT ![w] = Idle]
      /\ live' = [Build(g.enabled, <<>>, rules) EXCEPT !.bodies = g.bodies]
  BY <1>2 DEF RebuildPublish
<1>4. mu = w /\ InHand(w) BY <1>2, Alone
<1>5. /\ Turned(w) /\ GoesOn(w)' /\ OwesFit(work[w])' /\ ~work'[w].owes /\ work'[w].at = "idle"
  BY <1>1, <1>3, Idles
<1>6. TableInv' /\ ShippedInv'
  <2>1. unserved' \in BOOLEAN /\ covers' \in BOOLEAN /\ UNCHANGED <<db, role, ops, shipped>>
    BY <1>1, <1>3 DEF TypeOK, db
  <2> QED BY <1>2, <1>3, <1>5, <2>1, RebuildTables DEF Harmless
<1>7. ServeInv'
  <2>1. \A v \in Workers \ {w} : work'[v] = work[v] BY <1>5 DEF Turned
  <2>2. \A v \in Workers : OwesFit(work[v])' BY <1>5, <2>1 DEF IndInv, ServeInv, OwesFit
  <2>3. \A v \in Workers : mu' # v /\ work'[v].at \notin {"lists", "rules"}
    BY <1>3, <1>4, <1>5, <2>1 DEF IndInv, ServeInv, PolicyOK
  <2>4. UpToDate'
    <3> SUFFICES ASSUME ~unserved', \A v \in Workers : ~work'[v].owes PROVE live' = Build(enabled, lists, rules)'
      BY DEF UpToDate
    <3>1. ~Outdated(w) BY <1>3, <2>1 DEF Outdated
    <3>2. g.enabled = enabled /\ g.bodies = Serving(lists) BY <1>2, <1>4, <3>1 DEF InHand
    <3> DEFINE deny == {d \in RuleDomains : rules[d] = "deny"}
               allow == {d \in RuleDomains : rules[d] = "allow"}
    <3>3. live' \in [enabled : {enabled}, bodies : {Serving(lists)}, deny : {deny}, allow : {allow}]
      BY <1>3, <3>2 DEF Build
    <3>4. live' = [enabled |-> enabled, bodies |-> Serving(lists), deny |-> deny, allow |-> allow] BY <3>3
    <3>5. live' = Build(enabled, lists, rules) BY <3>4 DEF Build
    <3>6. Build(enabled, lists, rules)' = Build(enabled, lists, rules) BY <1>3 DEF Build, Serving
    <3> QED BY <3>5, <3>6
  <2> QED BY <2>2, <2>3, <2>4 DEF ServeInv
<1> QED BY <1>6, <1>7 DEF IndInv

\* A failed rebuild leaves what it owed unserved, which its caller is told.
LEMMA RebuildFailStep == ASSUME PolicyOK, IndInv, NEW w \in Workers, RebuildFail(w) PROVE IndInv'
<1>1. TypeOK BY DEF IndInv, TableInv
<1>2. /\ work[w].at \in {"lists", "rules"} /\ mu' = None /\ covers' = FALSE /\ unserved' = (unserved \/ work[w].owes)
      /\ UNCHANGED <<enabled, lists, rules, live, role, ops, shipped>> /\ work' = [work EXCEPT ![w] = Idle]
  BY DEF RebuildFail
<1>3. mu = w BY <1>2, Alone
<1>4. /\ Turned(w) /\ GoesOn(w)' /\ OwesFit(work[w])' /\ ~work'[w].owes /\ work'[w].at = "idle"
  BY <1>1, <1>2, Idles
<1>5. TableInv' /\ ShippedInv'
  <2>1. unserved' \in BOOLEAN /\ covers' \in BOOLEAN /\ UNCHANGED <<db, role, ops, shipped>>
    BY <1>1, <1>2 DEF TypeOK, db
  <2> QED BY <1>2, <1>4, <2>1, RebuildTables DEF Harmless
<1>6. ServeInv'
  <2>1. \A v \in Workers \ {w} : work'[v] = work[v] BY <1>4 DEF Turned
  <2>2. \A v \in Workers : OwesFit(work[v])' BY <1>4, <2>1 DEF IndInv, ServeInv, OwesFit
  <2>3. \A v \in Workers : mu' # v /\ work'[v].at \notin {"lists", "rules"}
    BY <1>2, <1>3, <1>4, <2>1 DEF IndInv, ServeInv, PolicyOK
  <2>4. UpToDate' BY <1>2, <2>1 DEF IndInv, ServeInv, UpToDate, Build, Serving
  <2> QED BY <2>2, <2>3, <2>4 DEF ServeInv
<1> QED BY <1>5, <1>6 DEF IndInv

----------------------------------------------------------------------------
(* Pulls and restarts *)

\* Extend keeps the rows there are, and what it adds are new rows.
LEMMA ExtendOK ==
    ASSUME NEW ls, NEW defs \in Seq(Definitions), \A i \in DOMAIN ls : ls[i] \in Rows /\ ls[i].tag = ls[i].body
    PROVE  /\ \A i \in DOMAIN ls : i \in DOMAIN Extend(ls, defs) /\ Extend(ls, defs)[i] = ls[i]
           /\ \A i \in DOMAIN Extend(ls, defs) :
                 Extend(ls, defs)[i] \in Rows /\ Extend(ls, defs)[i].tag = Extend(ls, defs)[i].body
           /\ Extend(ls, defs) = [i \in DOMAIN Extend(ls, defs) |-> Extend(ls, defs)[i]]
           /\ Missing(ls, defs) = {} => DOMAIN Extend(ls, defs) = DOMAIN ls
<1> DEFINE D == DOMAIN ls \cup {IdOf(ls, defs, j) : j \in Missing(ls, defs)}
           pos(i) == CHOOSE j \in Missing(ls, defs) : IdOf(ls, defs, j) = i
           row(i) == FreshRow(defs[pos(i)], defs[pos(i)].name \in Builtins)
<1>1. Extend(ls, defs) = [i \in D |-> IF i \in DOMAIN ls THEN ls[i] ELSE row(i)] BY DEF Extend
<1>2. ASSUME NEW i \in D, i \notin DOMAIN ls PROVE row(i) \in Rows /\ row(i).tag = row(i).body
  <2>1. pos(i) \in Missing(ls, defs) BY <1>2
  <2>2. pos(i) \in DOMAIN defs BY <2>1 DEF Missing
  <2> HIDE DEF pos
  <2>3. defs[pos(i)] \in Definitions BY <2>2
  <2>4. (defs[pos(i)].name \in Builtins) \in BOOLEAN OBVIOUS
  <2> QED BY <2>3, <2>4, FreshRowOK
<1>3. Missing(ls, defs) = {} => D = DOMAIN ls OBVIOUS
<1> HIDE DEF D, row
<1>4. DOMAIN ls \subseteq D BY DEF D
<1> QED BY <1>1, <1>2, <1>3, <1>4

\* It gives every missing definition a row, and nothing else.
LEMMA ExtendNames ==
    ASSUME PolicyOK, NEW ls, DOMAIN ls \subseteq Ids, NEW defs \in Seq(Definitions)
    PROVE  LET row(j) == FreshRow(defs[j], defs[j].name \in Builtins)
           IN  /\ \A i \in DOMAIN Extend(ls, defs) \ DOMAIN ls :
                     \E j \in Missing(ls, defs) : Extend(ls, defs)[i] = row(j)
               /\ \A j \in Missing(ls, defs) : \E i \in DOMAIN Extend(ls, defs) : Extend(ls, defs)[i] = row(j)
<1> DEFINE M == Missing(ls, defs)
           id(j) == IdOf(ls, defs, j)
           row(j) == FreshRow(defs[j], defs[j].name \in Builtins)
           pos(i) == CHOOSE j \in M : id(j) = i
           D == DOMAIN ls \cup {id(j) : j \in M}
<1>1. Extend(ls, defs) = [i \in D |-> IF i \in DOMAIN ls THEN ls[i] ELSE row(pos(i))] BY DEF Extend
<1>2. M \subseteq 1 .. Len(defs) /\ Len(defs) \in Nat BY DEF Missing
<1>3. \A j \in M : IsFiniteSet({k \in M : k < j}) /\ Cardinality({k \in M : k < j}) \in Nat
  <2>1. IsFiniteSet(1 .. Len(defs)) BY <1>2, FS_Interval
  <2> HIDE DEF M
  <2>2. \A j \in M : IsFiniteSet({k \in M : k < j}) BY <1>2, <2>1, FS_Subset
  <2> QED BY <2>2, FS_CardinalityType
<1>4. NewId(ls) \in Nat /\ \A i \in DOMAIN ls : i < NewId(ls) BY NewIdFresh
<1>5. \A i \in DOMAIN ls : i \in Nat BY DEF Ids
<1>6. ASSUME NEW j \in M PROVE id(j) \in Nat /\ id(j) \notin DOMAIN ls
  <2>1. PICK c \in Nat : id(j) = NewId(ls) + c BY <1>3 DEF IdOf
  <2> HIDE DEF id, M
  <2> QED BY <1>4, <1>5, <2>1
<1>7. ASSUME NEW j \in M, NEW k \in M, j < k PROVE id(j) # id(k)
  <2> DEFINE S == {x \in M : x < j}
             T == {x \in M : x < k}
  <2>1. id(j) = NewId(ls) + Cardinality(S) /\ id(k) = NewId(ls) + Cardinality(T) BY DEF IdOf
  <2>2. IsFiniteSet(S) /\ IsFiniteSet(T) /\ Cardinality(S) \in Nat /\ Cardinality(T) \in Nat BY <1>3
  <2>3. S \subseteq T /\ j \in T /\ j \notin S BY <1>2, <1>7
  <2> HIDE DEF S, T, id, M
  <2>4. Cardinality(S) # Cardinality(T) BY <2>2, <2>3, FS_Subset
  <2> QED BY <1>4, <2>1, <2>2, <2>4
<1>8. ASSUME NEW j \in M, NEW k \in M, id(j) = id(k) PROVE j = k
  <2>1. j \in Nat /\ k \in Nat BY <1>2
  <2> HIDE DEF id, M
  <2> QED BY <1>7, <1>8, <2>1
<1>9. ASSUME NEW j \in M PROVE id(j) \in D /\ id(j) \notin DOMAIN ls /\ pos(id(j)) = j
  <2>1. \A k \in M : id(k) = id(j) <=> k = j BY <1>8
  <2> HIDE DEF id, M
  <2> QED BY <1>6, <2>1
<1>10. ASSUME NEW i \in D, i \notin DOMAIN ls PROVE pos(i) \in M BY <1>10
<1> HIDE DEF M, id, row, pos
<1>11. DOMAIN Extend(ls, defs) = D BY <1>1
<1>12. \A i \in D \ DOMAIN ls : Extend(ls, defs)[i] = row(pos(i)) BY <1>1
<1>13. \A i \in DOMAIN Extend(ls, defs) \ DOMAIN ls : \E j \in M : Extend(ls, defs)[i] = row(j) BY <1>10, <1>11, <1>12
<1>14. \A j \in M : \E i \in DOMAIN Extend(ls, defs) : Extend(ls, defs)[i] = row(j) BY <1>9, <1>11, <1>12
<1> QED BY <1>13, <1>14 DEF M, row

\* A pull matches lists by name, drops the body of a repointed one, and owes a rebuild.
LEMMA ApplySnapshotStep == ASSUME PolicyOK, IndInv, NEW doc \in Docs, ApplySnapshot(doc) PROVE IndInv'
<1> DEFINE incoming == {doc.lists[j] : j \in DOMAIN doc.lists}
           stay == {i \in DOMAIN lists : \E d \in incoming : d.name = lists[i].name}
           which(i) == CHOOSE d \in incoming : d.name = lists[i].name
           updated == [i \in DOMAIN lists |-> IF i \in stay THEN Repointed(lists[i], which(i)) ELSE lists[i]]
           grown == Extend(updated, doc.lists)
<1>1. TypeOK /\ RowsOK(lists) /\ "puller" \in Workers BY TableRows DEF IndInv, TableInv, Workers
<1>2. /\ role = "replica" /\ work["puller"].at = "idle" /\ ops < MaxOps
      /\ enabled' = doc.enabled /\ rules' = doc.rules /\ Commit("puller") /\ ops' = ops + 1 /\ UNCHANGED Others
      /\ lists' = [i \in DOMAIN grown \ (DOMAIN lists \ stay) |-> grown[i]] /\ DOMAIN lists' \subseteq Ids
  BY DEF ApplySnapshot, ApplyDefinitions, Without
<1>3. doc.lists \in Seq(Definitions) /\ enabled' \in BOOLEAN /\ rules' \in RuleTables BY <1>2 DEF PolicyOK
<1>4. ASSUME NEW i \in DOMAIN lists PROVE updated[i] \in Rows /\ updated[i].tag = updated[i].body
  <2>1. PICK row \in Rows : row = lists[i] /\ row.tag = row.body BY <1>1 DEF RowsOK
  <2>2. CASE i \in stay
    <3>1. which(i) \in incoming BY <2>2
    <3>2. PICK d \in Definitions : d = which(i) BY <1>3, <3>1
    <3>3. updated[i] = Repointed(row, d) BY <2>1, <2>2, <3>2
    <3>4. (d.name \in Builtins) \in BOOLEAN OBVIOUS
    <3>5. CASE Url[d.src] = Url[row.src]
      <4>1. updated[i] = [row EXCEPT !.src = d.src, !.on = d.on, !.builtin = d.name \in Builtins] BY <3>3, <3>5 DEF Repointed
      <4> QED BY <2>1, <3>4, <4>1 DEF Rows, Definitions
    <3>6. CASE Url[d.src] # Url[row.src]
      <4>1. updated[i] = FreshRow(d, d.name \in Builtins) BY <3>3, <3>6 DEF Repointed
      <4>2. PICK b \in BOOLEAN : b = (d.name \in Builtins) BY <3>4
      <4>3. FreshRow(d, b) \in Rows /\ FreshRow(d, b).tag = FreshRow(d, b).body BY FreshRowOK
      <4> QED BY <4>1, <4>2, <4>3
    <3> QED BY <3>5, <3>6
  <2>3. CASE i \notin stay BY <2>1, <2>3
  <2> QED BY <2>2, <2>3
<1>5. DOMAIN updated = DOMAIN lists OBVIOUS
<1> HIDE DEF stay, updated
<1>6. \A i \in DOMAIN grown : grown[i] \in Rows /\ grown[i].tag = grown[i].body
  BY <1>3, <1>4, <1>5, ExtendOK
<1> HIDE DEF grown
<1>7. RowsOK(lists)' BY <1>2, <1>6 DEF RowsOK
<1>8. ops' \in 0 .. MaxOps
  <2>1. ops \in Nat /\ MaxOps \in Nat BY <1>1 DEF TypeOK, PolicyOK
  <2> QED BY <1>2, <2>1
<1>9. work["puller"].at \notin {"lists", "rules", "seed", "seeding"} /\ ~Intact BY <1>2 DEF Intact
<1> QED BY <1>1, <1>2, <1>3, <1>7, <1>8, <1>9, Commits, EditStep

\* A pull that gives up before its rebuild leaves its change unserved.
LEMMA ApplyAbandonStep == ASSUME PolicyOK, IndInv, ApplyAbandon PROVE IndInv'
<1>1. "puller" \in Workers /\ work["puller"].at \notin {"lists", "rules", "seed", "seeding"} BY DEF ApplyAbandon, Workers
<1> QED BY <1>1, GiveUpStep DEF ApplyAbandon

\* Everybody idle and the tables as they are served: an initial state, or one after a restart.
Rested ==
    /\ enabled \in BOOLEAN /\ rules \in RuleTables /\ RowsOK(lists) /\ role \in {"primary", "replica"}
    /\ ops \in 0 .. MaxOps /\ mu = None /\ work = [w \in Workers |-> Idle]
    /\ unserved = FALSE /\ covers = FALSE /\ shipped \in Histories
    /\ live = Build(enabled, lists, rules)
    /\ Intact => \A j \in DOMAIN Manifest : Named(lists, Manifest[j].name) # {} /\ ShippedAt(j)

\* Such a state satisfies the invariant.
LEMMA RestedOK == PolicyOK /\ Rested => IndInv
<1> SUFFICES ASSUME PolicyOK, Rested PROVE IndInv OBVIOUS
<1>1. \A w \in Workers : work[w] = Idle BY DEF Rested
<1>2. Idle.at = "idle" /\ Idle.owes = FALSE /\ Shape(Idle) BY DEF Idle, Shape
<1>3. TypeOK BY <1>1, <1>2 DEF Rested, TypeOK, Histories, RowsOK, Steps
<1>4. TableInv BY <1>1, <1>2, <1>3 DEF Rested, TableInv, TagDescribesBody, RowsOK, Fit
<1>5. ServeInv BY <1>1, <1>2 DEF Rested, ServeInv, OwesFit, UpToDate, PolicyOK
<1>6. ShippedInv BY <1>1, <1>2 DEF Rested, Intact, ShippedInv, EditFits, Uncrossed, Under
<1> QED BY <1>4, <1>5, <1>6 DEF IndInv

\* A crash drops every operation; the next boot seeds what is missing and serves the tables.
LEMMA RestartStep == ASSUME PolicyOK, IndInv, Restart PROVE IndInv'
<1>1. TypeOK /\ RowsOK(lists) /\ Manifest \in Seq(Definitions) BY TableRows DEF IndInv, TableInv, PolicyOK
<1>2. /\ lists' = Extend(lists, Manifest) /\ DOMAIN lists' \subseteq Ids /\ live' = Build(enabled, lists', rules)
      /\ mu' = None /\ work' = [w \in Workers |-> Idle] /\ unserved' = FALSE /\ covers' = FALSE
      /\ UNCHANGED <<enabled, rules, role, ops, shipped>>
  BY DEF Restart, Booted
<1>3. \A i \in DOMAIN lists : lists[i] \in Rows /\ lists[i].tag = lists[i].body BY <1>1 DEF RowsOK
<1>4. PICK ls : ls = Extend(lists, Manifest) OBVIOUS
<1>5. /\ \A i \in DOMAIN lists : i \in DOMAIN ls /\ ls[i] = lists[i]
      /\ \A i \in DOMAIN ls : ls[i] \in Rows /\ ls[i].tag = ls[i].body
      /\ ls = [i \in DOMAIN ls |-> ls[i]]
  BY <1>1, <1>3, <1>4, ExtendOK
<1>6. RowsOK(lists)' BY <1>2, <1>4, <1>5 DEF RowsOK
<1>7. ASSUME Intact', NEW j \in DOMAIN Manifest
      PROVE  Named(lists', Manifest[j].name) # {} /\ ShippedAt(j)'
  <2> DEFINE n == Manifest[j].name
             row(k) == FreshRow(Manifest[k], Manifest[k].name \in Builtins)
             M == Missing(lists, Manifest)
  <2>1. /\ \A i \in Named(lists, n) : AsShipped(lists[i], j)
        /\ Named(lists, n) = {} => shipped[j] = Url[Manifest[j].src]
    BY <1>2, <1>7 DEF IndInv, ShippedInv, Intact, ShippedAt
  <2>2. /\ \A i \in DOMAIN ls \ DOMAIN lists : \E k \in M : ls[i] = row(k)
        /\ \A k \in M : \E i \in DOMAIN ls : ls[i] = row(k)
    BY <1>1, <1>4, ExtendNames DEF RowsOK
  <2>3. ASSUME NEW k \in DOMAIN Manifest
        PROVE  row(k).name = Manifest[k].name /\ row(k).src = Manifest[k].src /\ row(k).builtin
    <3>1. Manifest[k] \in Definitions /\ Manifest[k].name \in Builtins BY DEF PolicyOK, Builtins
    <3> QED BY <3>1 DEF FreshRow
  <2>4. \A k \in M : k \in DOMAIN Manifest /\ Named(lists, Manifest[k].name) = {} BY DEF Missing
  <2>5. j \in M <=> Named(lists, n) = {} BY DEF Missing
  <2> HIDE DEF row, M, n
  <2>6. ASSUME NEW i \in Named(ls, n) PROVE AsShipped(ls[i], j)
    <3>1. i \in DOMAIN ls /\ ls[i].name = n BY DEF Named
    <3>2. CASE i \in DOMAIN lists
      <4>1. i \in Named(lists, n) /\ ls[i] = lists[i] BY <1>5, <3>1, <3>2 DEF Named
      <4> QED BY <2>1, <4>1
    <3>3. CASE i \notin DOMAIN lists
      <4>1. PICK k \in M : ls[i] = row(k) BY <2>2, <3>1, <3>3
      <4>2. k = j BY <2>3, <2>4, <3>1, <4>1 DEF PolicyOK, n
      <4> QED BY <2>1, <2>3, <2>5, <4>1, <4>2 DEF AsShipped
    <3> QED BY <3>2, <3>3
  <2>7. Named(ls, n) # {}
    <3>1. CASE j \in M
      <4>1. PICK i \in DOMAIN ls : ls[i] = row(j) BY <2>2, <3>1
      <4> QED BY <2>3, <4>1 DEF Named, n
    <3>2. CASE j \notin M
      <4>1. PICK i \in DOMAIN lists : lists[i].name = n BY <2>5, <3>2 DEF Named
      <4> QED BY <1>5, <4>1 DEF Named
    <3> QED BY <3>1, <3>2
  <2>8. Named(lists', n) = Named(ls, n) /\ Named(lists, n)' = Named(ls, n) BY <1>2, <1>4 DEF Named, n
  <2> QED BY <1>2, <1>4, <2>6, <2>7, <2>8 DEF ShippedAt, AsShipped, n
<1>8. live' = Build(enabled, lists, rules)' BY <1>2 DEF Build, Serving
<1>9. enabled' \in BOOLEAN /\ rules' \in RuleTables /\ role' \in {"primary", "replica"} /\ ops' \in 0 .. MaxOps
      /\ shipped' \in Histories
  BY <1>1, <1>2 DEF TypeOK, Histories
<1>10. Rested' BY <1>2, <1>6, <1>7, <1>8, <1>9 DEF Rested, Intact, Named
<1>11. PolicyOK' BY DEF PolicyOK
<1>12. (PolicyOK /\ Rested => IndInv)' BY RestedOK, PTL
<1> QED BY <1>10, <1>11, <1>12

\* The first boot: the manifest's lists get the ids 1, 2, ... in its order.
LEMMA FirstBoot ==
    ASSUME PolicyOK
    PROVE  Extend(<<>>, Manifest) = [i \in DOMAIN Manifest |-> FreshRow(Manifest[i], TRUE)]
<1> DEFINE none == <<>>
           n == Len(Manifest)
<1>1. DOMAIN none = {} OBVIOUS
<1>2. n \in Nat /\ DOMAIN Manifest = 1 .. n BY DEF PolicyOK
<1>3. \A m : Named(none, m) = {} BY <1>1 DEF Named
<1>4. NewId(none) = 1 BY <1>1 DEF NewId
<1> HIDE DEF none, n
<1>5. Missing(none, Manifest) = 1 .. n BY <1>2, <1>3 DEF Missing
<1>6. ASSUME NEW j \in 1 .. n PROVE IdOf(none, Manifest, j) = j
  <2>1. {k \in 1 .. n : k < j} = 1 .. (j - 1) BY <1>2
  <2>2. Cardinality(1 .. (j - 1)) = j - 1
    <3>1. j - 1 \in Int /\ 1 \in Int /\ (1 > j - 1 => j - 1 = 0) /\ (j - 1) - 1 + 1 = j - 1 BY <1>2
    <3>2. Cardinality(1 .. (j - 1)) = IF 1 > j - 1 THEN 0 ELSE (j - 1) - 1 + 1 BY <3>1, FS_Interval
    <3> QED BY <3>1, <3>2
  <2>3. IdOf(none, Manifest, j) = 1 + Cardinality({k \in 1 .. n : k < j}) BY <1>4, <1>5 DEF IdOf
  <2>4. IdOf(none, Manifest, j) = 1 + (j - 1) BY <2>1, <2>2, <2>3
  <2> QED BY <1>2, <2>4
<1>7. {IdOf(none, Manifest, j) : j \in 1 .. n} = 1 .. n BY <1>6
<1>8. ASSUME NEW i \in 1 .. n
      PROVE  (CHOOSE j \in Missing(none, Manifest) : IdOf(none, Manifest, j) = i) = i
  <2>1. \A j \in Missing(none, Manifest) : IdOf(none, Manifest, j) = i <=> j = i BY <1>5, <1>6
  <2>2. i \in Missing(none, Manifest) BY <1>5
  <2> QED BY <2>1, <2>2
<1>9. \A i \in 1 .. n : (Manifest[i].name \in Builtins) = TRUE BY <1>2 DEF Builtins
<1>10. Extend(none, Manifest) =
         [i \in 1 .. n |-> LET d == Manifest[CHOOSE j \in Missing(none, Manifest) : IdOf(none, Manifest, j) = i]
                           IN  FreshRow(d, d.name \in Builtins)]
  BY <1>1, <1>5, <1>7 DEF Extend
<1>11. \A i \in 1 .. n : FreshRow(Manifest[i], Manifest[i].name \in Builtins) = FreshRow(Manifest[i], TRUE)
  BY <1>9
<1>12. Extend(none, Manifest) = [i \in 1 .. n |-> FreshRow(Manifest[i], TRUE)] BY <1>8, <1>10, <1>11
<1> QED BY <1>2, <1>12 DEF none

\* The first boot satisfies the invariant.
LEMMA InitStep == ASSUME PolicyOK, Init PROVE IndInv
<1>1. /\ enabled = TRUE /\ rules = [d \in RuleDomains |-> None] /\ live = Build(enabled, lists, rules) /\ mu = None
      /\ work = [w \in Workers |-> Idle] /\ role \in {"primary", "replica"}
      /\ ops = 0 /\ unserved = FALSE /\ covers = FALSE
      /\ shipped = [j \in DOMAIN Manifest |-> Url[Manifest[j].src]]
      /\ lists = [i \in DOMAIN Manifest |-> FreshRow(Manifest[i], TRUE)]
  BY FirstBoot DEF Init, Booted
<1>2. \A i \in DOMAIN Manifest : Manifest[i] \in Definitions BY DEF PolicyOK
<1>3. DOMAIN lists \subseteq Ids BY <1>1 DEF PolicyOK
<1>4. ASSUME NEW i \in DOMAIN lists
      PROVE  /\ lists[i] \in Rows /\ lists[i].tag = lists[i].body
             /\ lists[i].builtin /\ lists[i].name = Manifest[i].name /\ lists[i].src = Manifest[i].src
  <2>1. PICK b \in BOOLEAN : b = TRUE OBVIOUS
  <2>2. Manifest[i] \in Definitions /\ lists[i] = FreshRow(Manifest[i], b) BY <1>1, <1>2, <2>1
  <2>3. lists[i] \in Rows /\ lists[i].tag = lists[i].body BY <2>2, FreshRowOK
  <2> QED BY <2>1, <2>2, <2>3 DEF FreshRow
<1>5. lists = [i \in DOMAIN lists |-> lists[i]] BY <1>1
<1>6. RowsOK(lists) BY <1>3, <1>4, <1>5 DEF RowsOK
<1>7. ASSUME NEW j \in DOMAIN Manifest PROVE Named(lists, Manifest[j].name) # {} /\ ShippedAt(j)
  <2>1. j \in Named(lists, Manifest[j].name) BY <1>1, <1>4 DEF Named
  <2>2. ASSUME NEW i \in Named(lists, Manifest[j].name) PROVE AsShipped(lists[i], j)
    <3>1. i \in DOMAIN lists /\ i \in DOMAIN Manifest /\ Manifest[i].name = Manifest[j].name BY <1>1, <1>4 DEF Named
    <3>2. i = j BY <3>1 DEF PolicyOK
    <3> QED BY <1>1, <1>4, <3>1, <3>2 DEF AsShipped
  <2> QED BY <2>1, <2>2 DEF ShippedAt
<1>8. rules \in RuleTables BY <1>1 DEF RuleTables
<1>9. ops \in 0 .. MaxOps BY <1>1 DEF PolicyOK
<1>10. shipped \in Histories
  <2>1. \A j \in DOMAIN Manifest : Manifest[j].src \in Sources BY <1>2 DEF Definitions
  <2> QED BY <1>1, <2>1 DEF Histories
<1>11. Rested BY <1>1, <1>6, <1>7, <1>8, <1>9, <1>10 DEF Rested
<1> QED BY <1>11, RestedOK

\* Every operation of a handler keeps the invariant,
LEMMA HandleStep == ASSUME PolicyOK, IndInv, NEW h \in Handlers, Handle(h) PROVE IndInv'
<1>1. h \in Workers BY DEF Workers
<1>2. CASE \E e \in BOOLEAN \cup {None} : PatchSettings(h, e) BY <1>2, PatchSettingsStep
<1>3. CASE SetSettings(h) BY <1>1, <1>3, SetSettingsStep
<1>4. CASE \E d \in Edits : CreateList(h, d) BY <1>4, CreateListStep
<1>5. CASE \E i \in Ids, d \in Edits : PutListCheck(h, i, d) BY <1>5, PutListCheckStep
<1>6. CASE PutListWrite(h) BY <1>1, <1>6, PutListWriteStep
<1>7. CASE \E i \in Ids : DeleteListCheck(h, i) BY <1>7, DeleteListCheckStep
<1>8. CASE \E i \in Ids : RefreshList(h, i) BY <1>8, RefreshBeginStep
<1>9. CASE DeleteListWrite(h) BY <1>1, <1>9, DeleteListWriteStep
<1>10. CASE \E d \in RuleDomains : DeleteRule(h, d) \/ \E k \in Kinds : AddRule(h, k, d)
  <2>1. PICK d \in RuleDomains : DeleteRule(h, d) \/ \E k \in Kinds : AddRule(h, k, d) BY <1>10
  <2>2. PICK k \in Kinds : AddRule(h, k, d) \/ DeleteRule(h, d) BY <2>1 DEF Kinds
  <2> QED BY <2>2, RuleStep
<1>11. CASE \E doc \in Docs : ImportRead(h, doc) BY <1>11, ImportReadStep
<1>12. CASE ImportWrite(h) BY <1>1, <1>12, ImportWriteStep
<1>13. CASE SeedRead(h) BY <1>1, <1>13, SeedReadStep
<1>14. CASE SeedPut(h) BY <1>1, <1>14, SeedPutStep
<1>15. CASE RefreshAll(h) BY <1>15, RefreshBeginStep
<1> QED BY <1>2, <1>3, <1>4, <1>5, <1>6, <1>7, <1>8, <1>9, <1>10, <1>11, <1>12, <1>13, <1>14, <1>15 DEF Handle

\* so does every step of a rebuild or a refresh,
LEMMA WorkerStep ==
    ASSUME PolicyOK, IndInv, NEW w \in Workers,
           \/ RebuildStart(w) \/ RebuildLists(w) \/ RebuildPublish(w) \/ RebuildFail(w)
           \/ Fetch(w) \/ Install(w) \/ RefreshEnd(w)
    PROVE  IndInv'
BY RebuildStartStep, RebuildListsStep, RebuildPublishStep, RebuildFailStep, FetchStep, InstallStep, RefreshEndStep

\* and so does a step of something else.
LEMMA StutterStep == ASSUME IndInv, UNCHANGED vars PROVE IndInv'
<1>1. UNCHANGED <<enabled, lists, rules, live, mu, work, role, ops, unserved, covers, shipped>> BY DEF vars
<1>2. TableInv' BY <1>1 DEF IndInv, TableInv, TypeOK, TagDescribesBody, Fit, Shape, KeptOK
<1>3. ServeInv' BY <1>1 DEF IndInv, ServeInv, OwesFit, InHand, Outdated, UpToDate, Build, Serving
<1>4. ShippedInv'
  BY <1>1 DEF IndInv, ShippedInv, Uncrossed, Under, ShippedAt, AsShipped, Reseeds, Named, EditFits, MayPut
<1> QED BY <1>2, <1>3, <1>4 DEF IndInv

\* The invariant is inductive.
LEMMA NextStep == ASSUME PolicyOK, IndInv, [Next]_vars PROVE IndInv'
<1>1. CASE \E h \in Handlers : Handle(h) BY <1>1, HandleStep
<1>2. CASE \E w \in Workers :
             \/ RebuildStart(w) \/ RebuildLists(w) \/ RebuildPublish(w) \/ RebuildFail(w)
             \/ Fetch(w) \/ Install(w) \/ RefreshEnd(w)
  BY <1>2, WorkerStep
<1>3. CASE \E S \in SUBSET Enabled : RefreshDue(S) BY <1>3, RefreshBeginStep
<1>4. CASE \E doc \in Docs : ApplySnapshot(doc) BY <1>4, ApplySnapshotStep
<1>5. CASE ApplyAbandon BY <1>5, ApplyAbandonStep
<1>6. CASE Restart BY <1>6, RestartStep
<1>7. CASE UNCHANGED vars BY <1>7, StutterStep
<1> QED BY <1>1, <1>2, <1>3, <1>4, <1>5, <1>6, <1>7 DEF Next

\* The inductive invariant of the filter: every handler, refresh, pull and crash keeps it.
LEMMA PolicyInductive == PolicyOK => (Spec => []IndInv)
<1> SUFFICES ASSUME PolicyOK PROVE Spec => []IndInv OBVIOUS
<1>1. Init => IndInv BY InitStep
<1>2. IndInv /\ [Next]_vars => IndInv' BY NextStep
<1> QED BY <1>1, <1>2, PTL DEF Spec

\* Whenever nothing is between a commit and its rebuild, and nothing failed there, a query
\* is decided as the tables say (Holder.Rebuild, Snapshot.Decide, Set.Match): for any names,
\* lists, bodies, number of handlers and interleaving of edits, imports, refreshes and pulls.
THEOREM FilterIsObeyed == Spec => []FilterObeyed
<1>0. PolicyOK BY PolicyAssumption
<1>1. IndInv => FilterObeyed
  <2> SUFFICES ASSUME IndInv, ~unserved, \A w \in Workers : ~work[w].owes, NEW n \in Domains
               PROVE  Decide(live, n) = (enabled /\ (Ruled("deny", n) \/ (~Ruled("allow", n) /\ Listed(n))))
    BY DEF FilterObeyed
  <2>1. TypeOK /\ live = Build(enabled, lists, rules) BY DEF IndInv, TableInv, ServeInv, UpToDate
  <2> QED BY <1>0, <2>1, DecidedByTables
<1> QED BY <1>0, <1>1, PolicyInductive, PTL

\* The validators a refresh sends are those of the stored body: edits, imports, pulls and
\* installs by a reused id move the two together (UpdateBlacklistSnapshot, replacePolicy,
\* replaceBlacklistDefinitions), so no 304 stands for a body this node does not have.
THEOREM TagsDescribeTheirBodies == Spec => []TagDescribesBody
<1>0. PolicyOK BY PolicyAssumption
<1>1. IndInv => TagDescribesBody BY DEF IndInv, TableInv
<1> QED BY <1>0, <1>1, PolicyInductive, PTL

\* Edits and deletes, checked on one row and carried out on whichever has its id by then,
\* imports, seedings and crashes between them cost a primary no built-in list and give none
\* another URL than the last import did, while no edit overlaps an import and no seeding
\* fails (Service.PutList, DeleteList, ReplacePolicy, SeedBlacklists).
THEOREM BuiltinsStay == Spec => []BuiltinsKept
<1>0. PolicyOK BY PolicyAssumption
<1>1. IndInv => BuiltinsKept
  <2> SUFFICES ASSUME IndInv, role = "primary", shipped # None, NEW j \in DOMAIN Manifest
               PROVE  Reseeds(j) \/ \E i \in Named(lists, Manifest[j].name) : AsShipped(lists[i], j)
    BY DEF BuiltinsKept
  <2>1. ShippedAt(j) BY DEF IndInv, ShippedInv
  <2> QED BY <2>1 DEF ShippedAt
<1> QED BY <1>0, <1>1, PolicyInductive, PTL

----------------------------------------------------------------------------
(* The forwarder: retirement spares the queries of its list and what is    *)
(* current when it looks, for any number of queries, upstreams, lists and  *)
(* replacements, instances that come back included.                        *)

Untouched == UNCHANGED <<installed, retire, looked, keep, closed>>

\* The shape of every step of a query but the one that acquires a list: counts only go
\* down, and a query that goes on exchanging does so on the list it is counted in.
OnlyReleases ==
    /\ Untouched
    /\ users' \in [Gens -> SUBSET Queries] /\ \A g \in Gens : users'[g] \subseteq users[g]
    /\ pc' \in [Queries -> Stages] /\ held' \in [Queries -> Gens]
    /\ \A q \in Queries : pc'[q] \in Exchanging =>
          pc[q] \in Exchanging /\ held'[q] = held[q] /\ q \in users'[held[q]]

\* A step of that shape preserves the invariant (Forwarder.Resolve, dot.Exchange).
LEMMA ReleasesKeep == RetireInv /\ OnlyReleases => RetireInv'
<1> SUFFICES ASSUME RetireInv, OnlyReleases PROVE RetireInv'
  OBVIOUS
<1> USE DEF Untouched, OnlyReleases
<1>1. Controls'
  BY DEF RetireInv, Controls, Current
<1>2. UsersCounted'
  BY DEF RetireInv, UsersCounted, Current
<1>3. RetiredUnused'
  BY DEF RetireInv, RetiredUnused, Current
<1>4. ClosedRetired'
  BY DEF RetireInv, ClosedRetired, ClosedBy, Retired
<1> QED BY <1>1, <1>2, <1>3, <1>4 DEF RetireInv

\* A flight that lands takes its leader and its waiters out of the exchange (group.Do).
LEMMA LandReleases ==
    ASSUME ListsOK, RetireInv, NEW q \in Queries, Land(q), Untouched,
           \/ pc[q] \notin Exchanging /\ users' = users
           \/ Release(q)
    PROVE  OnlyReleases
<1> USE DEF RetireInv, Controls, Land, Stages, Exchanging
<1>1. /\ pc' \in [Queries -> Stages]
      /\ \A p \in Queries : pc'[p] = pc[p] \/ pc'[p] = "idle"
      /\ pc'[q] = "idle"
  OBVIOUS
<1>2. held' \in [Queries -> Gens] /\ \A p \in Queries : p # q => held'[p] = held[p]
  <2>1. 1 \in Gens
    BY DEF ListsOK, Gens, Current
  <2> QED BY <2>1
<1>3. /\ users' \in [Gens -> SUBSET Queries] /\ \A g \in Gens : users'[g] \subseteq users[g]
      /\ \A g \in Gens, p \in Queries : p # q /\ p \in users[g] => p \in users'[g]
  <2>1. CASE users' = users
    BY <2>1
  <2>2. CASE Release(q)
    <3>1. held[q] \in Gens /\ users[held[q]] \ {q} \in SUBSET Queries
      OBVIOUS
    <3>2. users' = [users EXCEPT ![held[q]] = users[held[q]] \ {q}]
      BY <2>2 DEF Release
    <3>3. users' \in [Gens -> SUBSET Queries]
      BY <3>1, <3>2
    <3>4. \A g \in Gens : users'[g] = IF g = held[q] THEN users[g] \ {q} ELSE users[g]
      BY <3>2
    <3> QED BY <3>3, <3>4
  <2> QED BY <2>1, <2>2
<1> QED BY <1>1, <1>2, <1>3 DEF OnlyReleases, UsersCounted

\* So do an answer and a failure, whichever transport they come from (Forwarder.exchange).
LEMMA AnsweredReleases ==
    ASSUME ListsOK, RetireInv, NEW q \in Queries, Answered(q), Untouched
    PROVE  OnlyReleases
BY DEF RetireInv, Controls, UsersCounted, Answered, Release, To, Stages, Exchanging, OnlyReleases

\* So does a failure: the next upstream is tried on the same list, or the flight ends.
LEMMA FailedReleases ==
    ASSUME ListsOK, RetireInv, NEW q \in Queries, pc[q] \in Exchanging, Failed(q), Untouched
    PROVE  OnlyReleases
<1>1. CASE TryNext(q)
  BY <1>1 DEF RetireInv, Controls, UsersCounted, TryNext, To, Stages, Exchanging, OnlyReleases
<1>2. CASE GiveUpQuery(q)
  BY <1>2, LandReleases DEF GiveUpQuery
<1> QED BY <1>1, <1>2 DEF Failed

\* A step that moves a query between two stages and leaves lists and counts alone.
LEMMA MoveReleases ==
    ASSUME ListsOK, RetireInv, NEW q \in Queries, NEW where \in Stages, To(q, where), Untouched,
           users' = users, held' = held,
           where \in Exchanging => pc[q] \in Exchanging
    PROVE  OnlyReleases
BY DEF RetireInv, Controls, UsersCounted, To, OnlyReleases

\* Every step of a query but Acquire has the shape.
LEMMA QueryReleases ==
    ASSUME ListsOK, RetireInv, NEW q \in Queries, Resolve(q) \/ \E k \in MayAsk[q] : Miss(q, k), ~Acquire(q)
    PROVE  OnlyReleases
<1> USE DEF retireVars, Untouched
<1>1. CASE \E k \in MayAsk[q] : Miss(q, k)
  BY <1>1, MoveReleases DEF Miss, Stages, Exchanging
<1>2. CASE Flight(q)
  BY <1>2, MoveReleases DEF Flight, Stages, Exchanging
<1>3. CASE RecheckHit(q)
  BY <1>3, LandReleases DEF RecheckHit, Exchanging
<1>4. CASE ExchangeOK(q)
  BY <1>4, AnsweredReleases DEF ExchangeOK
<1>5. CASE ExchangeFails(q)
  BY <1>5, FailedReleases DEF ExchangeFails, Exchanging
<1>6. CASE Put(q)
  BY <1>6, LandReleases DEF Put, Exchanging
<1>7. CASE GetIdle(q)
  BY <1>7, MoveReleases DEF GetIdle, Getting, Stages, Exchanging
<1>8. CASE Dial(q)
  BY <1>8, MoveReleases DEF Dial, Getting, Stages, Exchanging
<1>9. CASE GetFails(q)
  BY <1>9, FailedReleases DEF GetFails, Getting, Exchanging
<1>10. CASE RoundTripFails(q)
  BY <1>10, FailedReleases, MoveReleases DEF RoundTripFails, Stages, Exchanging
<1>11. CASE RoundTripOK(q)
  BY <1>11, AnsweredReleases, FailedReleases, MoveReleases DEF RoundTripOK, Stages, Exchanging
<1>12. CASE Enqueue(q)
  BY <1>12, AnsweredReleases, FailedReleases DEF Enqueue, Exchanging
<1>13. CASE RunsOut(q)
  BY <1>13, MoveReleases DEF RunsOut, Stages, Exchanging
<1>14. CASE TakeLate(q)
  BY <1>14 DEF TakeLate, queryVars, OnlyReleases, RetireInv, Controls, UsersCounted
<1>15. CASE FailLate(q)
  BY <1>15, FailedReleases DEF FailLate, Exchanging
<1> QED BY <1>1, <1>2, <1>3, <1>4, <1>5, <1>6, <1>7, <1>8, <1>9, <1>10, <1>11, <1>12, <1>13,
           <1>14, <1>15 DEF Resolve

\* acquireState counts the query in the current list, which nobody has begun to close.
LEMMA AcquireKeeps ==
    ASSUME ListsOK, RetireInv, NEW q \in Queries, Acquire(q)
    PROVE  RetireInv'
<1> USE DEF Acquire, retireVars
<1>1. Controls'
  BY DEF RetireInv, Controls, Current, To, Stages, Exchanging
<1>2. UsersCounted'
  BY DEF RetireInv, Controls, UsersCounted, Current, To, Gens
<1>3. RetiredUnused'
  BY DEF RetireInv, Controls, RetiredUnused, Current, Gens
<1>4. ClosedRetired'
  BY DEF RetireInv, ClosedRetired, ClosedBy, Retired
<1> QED BY <1>1, <1>2, <1>3, <1>4 DEF RetireInv

\* Replace adds a list, of old or new instances, and leaves the one before waiting.
LEMMA ReplaceKeeps ==
    ASSUME ListsOK, RetireInv, NEW l \in Lists, Replace(l)
    PROVE  RetireInv'
<1> USE DEF Replace, queryVars
<1>1. /\ Current' = Current + 1 /\ Current \in Nat /\ Current' \in Gens
      /\ installed' \in Seq(Lists \cup {FirstList})
      /\ installed'[Current'] = l
      /\ \A g \in 1 .. Current : installed'[g] = installed[g]
  <2>1. installed \in Seq(Lists \cup {FirstList}) /\ Current = Len(installed) /\ Current \in 1 .. MaxReplaces + 1
    BY DEF RetireInv, Controls, Current, Gens
  <2>2. installed' = Append(installed, l) /\ Current <= MaxReplaces /\ MaxReplaces \in Nat
    BY DEF ListsOK
  <2> QED BY <2>1, <2>2 DEF Current, Gens
<1>2. Controls'
  BY <1>1 DEF RetireInv, Controls
<1>3. UsersCounted'
  BY <1>1 DEF RetireInv, Controls, UsersCounted, Gens
<1>4. RetiredUnused'
  <2> SUFFICES ASSUME NEW g \in Gens
               PROVE  /\ retire'[g] # "live" => g < Current'
                      /\ retire'[g] \in {"closing", "emptying", "done"} =>
                           users'[g] = {} /\ looked'[g] <= Current' /\ keep'[g] = Range(installed'[looked'[g]])
    BY DEF RetiredUnused
  <2>1. UNCHANGED <<users, looked, keep>>
    OBVIOUS
  <2>2. retire'[g] = IF g = Current THEN "waiting" ELSE retire[g]
    BY DEF RetireInv, Controls
  <2>3. retire'[g] # "live" => g < Current'
    <3>1. g \in Nat BY DEF Gens
    <3>2. retire[g] # "live" => g < Current BY DEF RetireInv, RetiredUnused
    <3> QED BY <1>1, <2>2, <3>1, <3>2
  <2>4. ASSUME retire'[g] \in {"closing", "emptying", "done"}
        PROVE  users[g] = {} /\ looked[g] \in 1 .. Current /\ keep[g] = Range(installed[looked[g]])
    <3>1. retire[g] \in {"closing", "emptying", "done"} BY <2>2, <2>4
    <3>2. users[g] = {} /\ looked[g] <= Current /\ keep[g] = Range(installed[looked[g]])
      BY <3>1 DEF RetireInv, RetiredUnused
    <3>3. looked[g] \in 1 .. MaxReplaces + 1 BY DEF RetireInv, Controls, Gens
    <3> QED BY <1>1, <3>2, <3>3
  <2>5. ASSUME retire'[g] \in {"closing", "emptying", "done"}
        PROVE  users'[g] = {} /\ looked'[g] <= Current' /\ keep'[g] = Range(installed'[looked'[g]])
    <3>1. looked[g] \in 1 .. Current BY <2>4, <2>5
    <3>2. looked[g] <= Current' BY <1>1, <3>1
    <3>3. installed'[looked[g]] = installed[looked[g]] BY <1>1, <3>1
    <3> QED BY <2>1, <2>4, <2>5, <3>2, <3>3
  <2> QED BY <2>3, <2>5
<1>5. ClosedRetired'
  <2> SUFFICES ASSUME NEW u \in closed' PROVE \E g \in Gens : ClosedBy(g, u)'
    BY DEF ClosedRetired
  <2>1. PICK g \in Gens : ClosedBy(g, u)
    BY DEF RetireInv, ClosedRetired
  <2>2. g \in 1 .. Current /\ g # Current
    BY <1>1, <2>1 DEF RetireInv, RetiredUnused, ClosedBy, Gens
  <2>3. retire'[g] = retire[g] /\ installed'[g] = installed[g] /\ keep' = keep
    BY <1>1, <2>2 DEF RetireInv, Controls
  <2> QED BY <2>1, <2>3 DEF ClosedBy, Retired
<1> QED BY <1>2, <1>3, <1>4, <1>5 DEF RetireInv

\* An installed list is one of the lists, so its upstreams are upstreams.
LEMMA InstalledUpstreams ==
    ASSUME ListsOK, RetireInv, NEW g \in 1 .. Current
    PROVE  Range(installed[g]) \subseteq Upstreams
<1>1. installed[g] \in Lists \cup {FirstList}
  BY DEF RetireInv, Controls, Current
<1> QED BY <1>1 DEF Upstreams

\* The retirement goroutine waits, looks, closes and empties.
LEMMA RetirementKeeps ==
    ASSUME ListsOK, RetireInv, NEW g \in Gens, Drain(g) \/ Close(g) \/ Empty(g)
    PROVE  RetireInv'
<1> USE DEF queryVars
<1>1. CASE Drain(g)
  <2> USE <1>1 DEF Drain
  <2>0. Current \in 1 .. Current /\ Range(installed[Current]) \in SUBSET Upstreams
    BY InstalledUpstreams DEF RetireInv, Controls, Gens
  <2>1. Controls' /\ UsersCounted'
    BY <2>0 DEF RetireInv, Controls, UsersCounted, Current
  <2>2. RetiredUnused'
    BY <2>0 DEF RetireInv, Controls, RetiredUnused, Current
  <2>3. ClosedRetired'
    BY DEF RetireInv, Controls, ClosedRetired, ClosedBy, Retired
  <2> QED BY <2>1, <2>2, <2>3 DEF RetireInv
<1>2. CASE Close(g)
  <2> USE <1>2 DEF Close, Retired
  <2>1. Controls' /\ UsersCounted'
    BY DEF RetireInv, Controls, UsersCounted, Current
  <2>2. RetiredUnused'
    BY DEF RetireInv, Controls, RetiredUnused, Current
  <2>3. ClosedRetired'
    BY DEF RetireInv, Controls, ClosedRetired, ClosedBy
  <2> QED BY <2>1, <2>2, <2>3 DEF RetireInv
<1>3. CASE Empty(g)
  <2> USE <1>3 DEF Empty
  <2>1. Controls' /\ UsersCounted'
    BY DEF RetireInv, Controls, UsersCounted, Current
  <2>2. RetiredUnused'
    BY DEF RetireInv, Controls, RetiredUnused, Current
  <2>3. ClosedRetired'
    BY DEF RetireInv, Controls, ClosedRetired, ClosedBy, Retired
  <2> QED BY <2>1, <2>2, <2>3 DEF RetireInv
<1> QED BY <1>1, <1>2, <1>3

\* The invariant holds of a new Forwarder and is kept by every step, the cache's and the
\* flush's included (NewForwarder, Replace, Resolve).
LEMMA ForwarderInductive == ListsOK => (ForwarderSpec => []RetireInv)
<1> SUFFICES ASSUME ListsOK PROVE ForwarderSpec => []RetireInv OBVIOUS
<1>1. ForwarderInit => RetireInv
  BY DEF ListsOK, ForwarderInit, RetireInv, Controls, UsersCounted, RetiredUnused, ClosedRetired, Current,
         Gens, Stages, Exchanging
<1>2. RetireInv /\ [ForwarderNext]_forwarderVars => RetireInv'
  <2> SUFFICES ASSUME RetireInv, [ForwarderNext]_forwarderVars PROVE RetireInv'
    OBVIOUS
  <2>1. ASSUME NEW l \in Lists, Replace(l) PROVE RetireInv'
    BY <2>1, ReplaceKeeps
  <2>2. ASSUME NEW q \in Queries, Resolve(q) \/ \E k \in MayAsk[q] : Miss(q, k) PROVE RetireInv'
    BY <2>2, QueryReleases, ReleasesKeep, AcquireKeeps
  <2>3. ASSUME NEW g \in Gens, Drain(g) \/ Close(g) \/ Empty(g) PROVE RetireInv'
    BY <2>3, RetirementKeeps
  <2>4. CASE (\E k \in Keys : Expire(k)) \/ Flush \/ UNCHANGED forwarderVars
    <3>1. OnlyReleases
      BY <2>4
      DEF Expire, Flush, forwarderVars, retireVars, queryVars, OnlyReleases, Untouched, RetireInv, Controls, UsersCounted
    <3> QED BY <3>1, ReleasesKeep
  <2> QED BY <2>1, <2>2, <2>3, <2>4 DEF ForwarderNext, Retirement
<1> QED BY <1>1, <1>2, PTL DEF ForwarderSpec

\* A list that is needed has been installed, and is not one whose retirement has closed:
\* the current one was not replaced, one under a query still counts it (acquireState).
LEMMA NeededNotRetired ==
    ASSUME ListsOK, RetireInv, NEW h \in Needed, NEW g \in Gens, retire[g] \in {"emptying", "done"}
    PROVE  h \in 1 .. Current /\ g \in 1 .. Current /\ g # h
<1>1. users[g] = {} /\ g < Current
  BY DEF RetireInv, RetiredUnused
<1>2. CASE h = Current
  BY <1>1, <1>2 DEF RetireInv, Controls, Gens
<1>3. ASSUME NEW q \in Queries, pc[q] \in Exchanging, h = held[q] PROVE h \in 1 .. Current /\ g # h
  BY <1>1, <1>3 DEF RetireInv, Controls, UsersCounted, Gens
<1> QED BY <1>1, <1>2, <1>3 DEF Needed, RetireInv, Controls, Gens

\* No retirement closes an upstream under a query of its own list, nor one of the list that
\* is current when it looks, whatever lists come and come back (Forwarder.Replace,
\* Forwarder.acquireState, fwdState.close).
THEOREM RetirementIsHarmless == ForwarderSpec => []RetirementSpares
<1>0. ListsOK BY ListsAssumption
<1>1. RetireInv => RetirementSpares
  <2> SUFFICES ASSUME RetireInv, NEW h \in Needed, NEW u \in closed \cap Range(installed[h])
               PROVE  \E g \in Gens : ClosedBy(g, u) /\ g # h /\ looked[g] # h
    BY DEF RetirementSpares
  <2>1. PICK g \in Gens : ClosedBy(g, u)
    BY DEF RetireInv, ClosedRetired
  <2>2. g # h
    BY <1>0, <2>1, NeededNotRetired DEF ClosedBy
  <2>3. u \notin Range(installed[looked[g]])
    BY <2>1 DEF ClosedBy, Retired, RetireInv, RetiredUnused
  <2> QED BY <2>1, <2>2, <2>3
<1> QED BY <1>0, <1>1, ForwarderInductive, PTL

\* When no two lists share an instance, as when every save builds its own, nothing that is
\* current or in use is closed at all.
THEOREM FreshInstancesStayOpen == ForwarderSpec => [](ListsDisjoint => ClosedUnneeded)
<1>0. ListsOK BY ListsAssumption
<1>1. RetireInv => (ListsDisjoint => ClosedUnneeded)
  <2> SUFFICES ASSUME RetireInv, ListsDisjoint, NEW h \in Needed, NEW u \in closed, u \in Range(installed[h])
               PROVE  FALSE
    BY DEF ClosedUnneeded
  <2>1. PICK g \in Gens : ClosedBy(g, u)
    BY DEF RetireInv, ClosedRetired
  <2>2. h \in 1 .. Current /\ g \in 1 .. Current /\ g # h /\ u \in Range(installed[g])
    BY <1>0, <2>1, NeededNotRetired DEF ClosedBy, Retired
  <2> QED BY <2>2 DEF ListsDisjoint
<1> QED BY <1>0, <1>1, ForwarderInductive, PTL
=============================================================================
