------------------------------ MODULE Pairing ------------------------------
(***************************************************************************)
(* How a node becomes the replica of a primary: invite codes, the exchange *)
(* that spends one, the peers a primary serves, and the pull loop that     *)
(* starts from the recorded pin at the next boot.  The two machines share  *)
(* nothing but messages, which are lost when a request runs out of time.   *)
(*                                                                         *)
(* A primary stands for its key: its fingerprint, its node ID and the name *)
(* an operator confirms are one value.  An address is answered by some     *)
(* primary, not always the one the operator means.  A join is one request  *)
(* to the joining node, from the web interface or the command line.        *)
(***************************************************************************)
EXTENDS Naturals, FiniteSets, Functions

CONSTANTS
    Primaries,   \* nodes that serve replicas
    Nodes,       \* nodes that join one
    Joins,       \* join requests
    Addresses,
    None,
    TTL,         \* inviteTTL
    MaxCodes,    \* bound: codes minted
    MaxTime,     \* bound: the clock
    MaxBoots     \* bound: restarts of a primary

Codes == 1 .. MaxCodes

ASSUME PairingAssumption ==
    /\ {TTL, MaxCodes, MaxTime, MaxBoots} \subseteq Nat
    /\ None \notin Primaries \cup Nodes

VARIABLES
    now,
    book,      \* [Primaries -> [outstanding codes -> the time they expire]]
    minted,    \* codes minted so far; no two are the same
    invites,   \* history: [minted codes -> who minted it, when, in which boot]
    boot,      \* [Primaries -> restarts so far]
    peers,     \* [Primaries -> [paired nodes -> whether the row has a sync time]]
    answers,   \* [Addresses -> the primary that answers there]
    join,      \* [Joins -> the joining node's half of the exchange]
    handler,   \* [Joins -> handlePair on the primary]
    pin,       \* [Nodes -> replica_state.primary_node_id]
    loop,      \* [Nodes -> the pull loop: its pin and its address]
    paired,    \* history: [Nodes -> the primary of the last join that succeeded]
    redeemed,  \* history: [Joins -> what its handler redeemed, or None]
    received,  \* history: <<primary, join>> where the code of join reached primary
    removed    \* history: <<primary, node>> unpaired since it was last paired

primary == <<book, minted, invites, boot, peers>>
node == <<join, pin, loop, paired>>
history == <<redeemed, received, removed>>
vars == <<now, answers, primary, node, handler, history>>

NotStarted == [at |-> "new", node |-> None, to |-> None, code |-> 0, want |-> None]
NoLoop == [pin |-> None, to |-> None]

Init ==
    /\ now = 0 /\ minted = 0 /\ invites = <<>>
    /\ book = [p \in Primaries |-> <<>>]
    /\ boot = [p \in Primaries |-> 0]
    /\ peers = [p \in Primaries |-> <<>>]
    /\ answers \in [Addresses -> Primaries]
    /\ join = [r \in Joins |-> NotStarted]
    /\ handler = [r \in Joins |-> "none"]
    /\ pin = [n \in Nodes |-> None] /\ loop = [n \in Nodes |-> NoLoop]
    /\ paired = [n \in Nodes |-> None]
    /\ redeemed = [r \in Joins |-> None] /\ received = {} /\ removed = {}

----------------------------------------------------------------------------
(* The primary: InviteBook, the peers table. *)

Mint(p) ==
    /\ minted < MaxCodes
    /\ minted' = minted + 1
    /\ book' = [book EXCEPT ![p] = [c \in DOMAIN @ \cup {minted'} |->
                                       IF c = minted' THEN now + TTL ELSE @[c]]]
    /\ invites' = [c \in 1 .. minted' |->
                      IF c = minted' THEN [by |-> p, at |-> now, boot |-> boot[p]] ELSE invites[c]]
    /\ UNCHANGED <<now, answers, boot, peers, node, handler, history>>

\* The entries Redeem does not drop for being expired.
Outstanding(p) == {c \in DOMAIN book[p] : ~(now > book[p][c])}

\* Mutant: a code that was used stays in the book.
BookAfterKept(p, c) == Restrict(book[p], Outstanding(p))

\* Redeem drops every expired code, and the one it was given.
BookAfter(p, c) == Restrict(book[p], Outstanding(p) \ {c})

RemoveReplica(p, n) ==
    /\ n \in DOMAIN peers[p]
    /\ peers' = [peers EXCEPT ![p] = Restrict(@, DOMAIN @ \ {n})]
    /\ removed' = removed \cup {<<p, n>>}
    /\ UNCHANGED <<now, answers, book, minted, invites, boot, node, handler, redeemed, received>>

\* A restart forgets the codes and the requests under way, not the peers.
RestartPrimary(p) ==
    /\ boot[p] < MaxBoots
    /\ boot' = [boot EXCEPT ![p] = @ + 1]
    /\ book' = [book EXCEPT ![p] = <<>>]
    /\ handler' = [r \in Joins |-> IF join[r].want = p /\ handler[r] # "none" THEN "refused" ELSE handler[r]]
    /\ UNCHANGED <<now, answers, minted, invites, peers, node, history>>

----------------------------------------------------------------------------
(* PairAsReplica on the joining node. *)

To(r, where) == join' = [join EXCEPT ![r].at = where]

\* The operator gives an address, a code that was printed, and the fingerprint they
\* hold it to; the command line asks who answers before it sends the join.
JoinPrimary(r, n, x, c, p) ==
    /\ join[r].at = "new" /\ c <= minted
    /\ \E first \in {"ask", "peek"} :
          join' = [join EXCEPT ![r] = [at |-> first, node |-> n, to |-> x, code |-> c, want |-> p]]
    /\ UNCHANGED <<now, answers, primary, pin, loop, paired, handler, history>>

\* The command's own peek and its questions: another key, or a no, ends the join here.
Confirm(r) ==
    /\ join[r].at = "ask"
    /\ \/ answers[join[r].to] = join[r].want /\ To(r, "peek")
       \/ To(r, "withheld")
    /\ UNCHANGED <<now, answers, primary, pin, loop, paired, handler, history>>

\* PeekFingerprint, and the confirmation: another key ends the join.
Peek(r) ==
    /\ join[r].at = "peek"
    /\ To(r, IF answers[join[r].to] = join[r].want THEN "post" ELSE "withheld")
    /\ UNCHANGED <<now, answers, primary, pin, loop, paired, handler, history>>

\* Mutant: the second connection accepts any key.
PostUnpinned(r) ==
    /\ join[r].at = "post"
    /\ To(r, "sent")
    /\ received' = received \cup {<<answers[join[r].to], r>>}
    /\ handler' = [handler EXCEPT ![r] = "redeem"]
    /\ UNCHANGED <<now, answers, primary, pin, loop, paired, redeemed, removed>>

\* The code is sent on a second connection, to the confirmed key only.
Post(r) ==
    /\ join[r].at = "post" /\ answers[join[r].to] = join[r].want
    /\ To(r, "sent")
    /\ received' = received \cup {<<answers[join[r].to], r>>}
    /\ handler' = [handler EXCEPT ![r] = "redeem"]
    /\ UNCHANGED <<now, answers, primary, pin, loop, paired, redeemed, removed>>

\* A dial fails, the handshake is refused, or the request runs out of time; the
\* handler goes on without its caller.
JoinFails(r) ==
    /\ join[r].at \in {"peek", "post", "sent", "record"}
    /\ To(r, "failed")
    /\ UNCHANGED <<now, answers, primary, pin, loop, paired, handler, history>>

ReplyArrives(r) ==
    /\ join[r].at = "sent"
    /\ \/ handler[r] = "ok" /\ To(r, "record")
       \/ handler[r] = "refused" /\ To(r, "failed")
    /\ UNCHANGED <<now, answers, primary, pin, loop, paired, handler, history>>

\* FollowPrimary, and the answer to the operator.
Record(r) ==
    LET j == join[r]
    IN  /\ j.at = "record"
        /\ pin' = [pin EXCEPT ![j.node] = j.want]
        /\ paired' = [paired EXCEPT ![j.node] = j.want]
        /\ To(r, "paired")
        /\ UNCHANGED <<now, answers, primary, loop, handler, history>>

----------------------------------------------------------------------------
(* handlePair on the primary: the code is spent, then the peer recorded. *)

Redeem(r) ==
    LET p == join[r].want
        c == join[r].code
    IN  /\ handler[r] = "redeem"
        /\ book' = [book EXCEPT ![p] = BookAfter(p, c)]
        /\ handler' = [handler EXCEPT ![r] = IF c \in Outstanding(p) THEN "pair" ELSE "refused"]
        /\ redeemed' = IF c \in Outstanding(p)
                       THEN [redeemed EXCEPT ![r] = [code |-> c, by |-> p, at |-> now, boot |-> boot[p]]]
                       ELSE redeemed
        /\ UNCHANGED <<now, answers, minted, invites, boot, peers, node, received, removed>>

\* A row that is there keeps its sync history.
PairPeer(r) ==
    LET p == join[r].want
        n == join[r].node
    IN  /\ handler[r] = "pair"
        /\ peers' = [peers EXCEPT ![p] = [m \in DOMAIN @ \cup {n} |-> m \in DOMAIN @ /\ @[m]]]
        /\ removed' = removed \ {<<p, n>>}
        /\ handler' = [handler EXCEPT ![r] = "ok"]
        /\ UNCHANGED <<now, answers, book, minted, invites, boot, node, redeemed, received>>

\* Mutant: the error of the write is not looked at.
PairPeerFailsSilently(r) ==
    /\ handler[r] = "pair"
    /\ handler' = [handler EXCEPT ![r] = "ok"]
    /\ UNCHANGED <<now, answers, primary, node, history>>

\* The row cannot be written: the code is spent all the same.
PairPeerFails(r) ==
    /\ handler[r] = "pair"
    /\ handler' = [handler EXCEPT ![r] = "refused"]
    /\ UNCHANGED <<now, answers, primary, node, history>>

----------------------------------------------------------------------------
(* The pull loop of a node that was paired when it booted. *)

\* A restart ends the requests under way and starts a loop on the recorded pin, at
\* the address the configuration file names by then.
RestartNode(n, x) ==
    /\ loop' = [loop EXCEPT ![n] = [pin |-> pin[n], to |-> x]]
    /\ join' = [r \in Joins |-> IF join[r].node = n /\ join[r].at \in {"peek", "post", "sent", "record"}
                                THEN [join[r] EXCEPT !.at = "failed"] ELSE join[r]]
    /\ UNCHANGED <<now, answers, primary, pin, paired, handler, history>>

\* pinnedExcept: only a paired peer is answered.
Answers(p, n) == n \in DOMAIN peers[p]

\* A poll that is answered touches the peer's row; one that finds a new version
\* applies it and records the loop's pin.  One step here; Replication has its steps apart.
Poll(n) ==
    LET p == loop[n].pin
    IN  /\ p # None /\ answers[loop[n].to] = p /\ Answers(p, n)
        /\ peers' = [peers EXCEPT ![p] = [m \in DOMAIN @ |-> @[m] \/ m = n]]
        /\ pin' \in {pin, [pin EXCEPT ![n] = p]}
        /\ UNCHANGED <<now, answers, book, minted, invites, boot, join, loop, paired, handler, history>>

----------------------------------------------------------------------------

Tick == now < MaxTime /\ now' = now + 1 /\ UNCHANGED <<answers, primary, node, handler, history>>

\* Another machine answers at an address.
Readdress == answers' \in [Addresses -> Primaries] /\ UNCHANGED <<now, primary, node, handler, history>>

Exchange(r) ==
    \/ Confirm(r) \/ Peek(r) \/ Post(r) \/ JoinFails(r) \/ ReplyArrives(r) \/ Record(r)
    \/ Redeem(r) \/ PairPeer(r) \/ PairPeerFails(r)

Next ==
    \/ \E p \in Primaries :
          \/ Mint(p) \/ RestartPrimary(p)
          \/ \E n \in Nodes : RemoveReplica(p, n)
    \/ \E r \in Joins, n \in Nodes, x \in Addresses, c \in Codes, p \in Primaries : JoinPrimary(r, n, x, c, p)
    \/ \E r \in Joins : Exchange(r)
    \/ \E n \in Nodes : Poll(n) \/ \E x \in Addresses : RestartNode(n, x)
    \/ Tick \/ Readdress

Spec == Init /\ [][Next]_vars

----------------------------------------------------------------------------
(* Properties. *)

\* One code pairs one node: however requests with the same code overlap, and whatever
\* becomes of their replies, at most one of them redeems it, and only with the node that
\* printed it, within its lifetime and before that node restarts (InviteBook.Redeem).
CodeOnce ==
    /\ \A r, s \in Joins : (redeemed[r] # None /\ redeemed[s] # None /\ r # s) =>
           redeemed[r].code # redeemed[s].code
    /\ \A r \in Joins : redeemed[r] # None =>
           LET i == invites[redeemed[r].code]
           IN  /\ redeemed[r].by = i.by /\ redeemed[r].boot = i.boot
               /\ redeemed[r].at <= i.at + TTL

\* A code only ever reaches the key its operator confirmed, although the address may be
\* answered by another machine between the confirmation and the request; a join
\* that says it withheld its code has sent nothing, so the code "is still good".
CodeToConfirmed ==
    /\ \A x \in received : x[1] = join[x[2]].want
    /\ \A r \in Joins : join[r].at = "withheld" => \A p \in Primaries : <<p, r>> \notin received

\* A node that was told it is paired is known to that primary, until it is removed there;
\* and where a reply was lost, so that only the primary took the pairing for made, it shows
\* the node as never synced.  No order of failures, lost replies and restarts breaks either
\* (Exchange, the pairing handler, PairPeer).
PairingAgrees ==
    /\ \A n \in Nodes : (paired[n] # None /\ <<paired[n], n>> \notin removed) => n \in DOMAIN peers[paired[n]]
    /\ \A p \in Primaries : \A n \in DOMAIN peers[p] :
           peers[p][n] => \E r \in Joins : join[r].at = "paired" /\ join[r].node = n /\ join[r].want = p

\* "Then restart to start following it": the pin on disk is that of the last join that
\* succeeded.  Does not hold: the running pull loop records the pin it booted with.
JoinSticks == \A n \in Nodes : pin[n] = paired[n]

----------------------------------------------------------------------------
(* What the exchanges rely on. *)

\* A join that has posted its code, once.
Posted(r) == join[r].at \in {"sent", "record", "paired", "failed"}

\* The joining node's half of an exchange.
Requests ==
    [at : {"new", "ask", "peek", "post", "withheld", "sent", "record", "paired", "failed"},
     node : Nodes \cup {None}, to : Addresses \cup {None}, code : Nat, want : Primaries \cup {None}]

\* What the steps of an exchange need of its state.
ExchangeOK ==
    /\ DOMAIN join = Joins /\ DOMAIN handler = Joins
    /\ \A r \in Joins :
         /\ join[r] \in Requests
         /\ join[r].at # "new" => join[r].node \in Nodes /\ join[r].want \in Primaries
         /\ handler[r] # "none" => Posted(r)
    /\ \A x \in received : \E r \in Joins : x = <<join[r].want, r>> /\ Posted(r)

\* A code in a book was minted by that primary since it last started, is not redeemed, and
\* expires with its lifetime; what was redeemed was so, once, by a handler that is past it.
BooksOK ==
    /\ now \in Nat /\ minted \in Nat /\ boot \in [Primaries -> Nat]
    /\ DOMAIN book = Primaries /\ DOMAIN redeemed = Joins
    /\ \A p \in Primaries : \A c \in DOMAIN book[p] :
         /\ c \in 1 .. minted
         /\ invites[c].by = p /\ invites[c].boot = boot[p] /\ book[p][c] = invites[c].at + TTL
         /\ invites[c].at \in Nat
         /\ \A r \in Joins : redeemed[r] # None => redeemed[r].code # c
    /\ \A r \in Joins : redeemed[r] # None =>
         redeemed[r].code \in 1 .. minted /\ handler[r] \notin {"none", "redeem"}

\* A primary that said yes, or a node that heard it, has a row unless it was removed; a pin
\* that a node keeps, and a row with a sync time, come from a join that succeeded.
Known(p, n) == <<p, n>> \in removed \/ n \in DOMAIN peers[p]
Succeeded(p, n) == \E r \in Joins : join[r].at = "paired" /\ join[r].node = n /\ join[r].want = p
PeersOK ==
    /\ DOMAIN peers = Primaries
    /\ DOMAIN pin = Nodes /\ DOMAIN loop = Nodes /\ DOMAIN paired = Nodes
    /\ \A p \in Primaries : DOMAIN peers[p] \subseteq Nodes
    /\ \A r \in Joins : handler[r] = "ok" \/ join[r].at \in {"record", "paired"} =>
           Known(join[r].want, join[r].node)
    /\ \A n \in Nodes :
         /\ paired[n] # None => paired[n] \in Primaries /\ Known(paired[n], n)
         /\ pin[n] # None => pin[n] \in Primaries /\ Succeeded(pin[n], n)
         /\ loop[n].pin # None => loop[n].pin \in Primaries /\ Succeeded(loop[n].pin, n)

\* The invariant that makes the three properties inductive.
IndInv == ExchangeOK /\ BooksOK /\ PeersOK /\ CodeOnce /\ CodeToConfirmed /\ PairingAgrees

=============================================================================
