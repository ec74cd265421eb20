---------------------------- MODULE PairingProofs ----------------------------
(***************************************************************************)
(* Pairing for any number of primaries, nodes, requests and codes.  The    *)
(* invariant has three parts that are carried one on top of the other: how *)
(* far each exchange is (ExchangeOK), what the books and the redeemed      *)
(* codes say of each other (BooksOK), and who knows whom (PeersOK).        *)
(***************************************************************************)
EXTENDS Pairing, TLAPS

----------------------------------------------------------------------------
(* How far each exchange is. *)

\* A step that only moves one join on, past the point where its code is sent or not yet
\* there, disturbs no exchange.
LEMMA MoveExchange ==
    ASSUME ExchangeOK, CodeToConfirmed, NEW r \in Joins,
           NEW where \in {"peek", "post", "withheld", "sent", "record", "paired", "failed"},
           To(r, where), handler' = handler, received' = received,
           join[r].at # "new",
           Posted(r) => where \in {"sent", "record", "paired", "failed"}
    PROVE  ExchangeOK' /\ CodeToConfirmed'
<1> USE DEF ExchangeOK, Requests, To
<1>1. /\ DOMAIN join' = Joins
      /\ \A s \in Joins : s # r => join'[s] = join[s]
      /\ join'[r] = [join[r] EXCEPT !.at = where]
  OBVIOUS
<1>2. /\ join'[r].at = where /\ join'[r].node = join[r].node /\ join'[r].want = join[r].want
      /\ join'[r] \in Requests
  BY <1>1
<1>3. \A s \in Joins : join'[s].want = join[s].want /\ (Posted(s) => Posted(s)')
  BY <1>1, <1>2 DEF Posted
<1>4. ExchangeOK' BY <1>1, <1>2, <1>3 DEF Posted
<1>5. \A x \in received : x[1] = join'[x[2]].want BY <1>3 DEF CodeToConfirmed
<1>6. \A s \in Joins : join'[s].at = "withheld" => \A p \in Primaries : <<p, s>> \notin received
  <2> SUFFICES ASSUME NEW s \in Joins, join'[s].at = "withheld", NEW p \in Primaries, <<p, s>> \in received
               PROVE FALSE
    OBVIOUS
  <2>1. PICK q \in Joins : <<p, s>> = <<join[q].want, q>> /\ Posted(q) OBVIOUS
  <2> QED BY <2>1, <1>3 DEF Posted
<1> QED BY <1>4, <1>5, <1>6 DEF CodeToConfirmed

\* One step of an exchange.
LEMMA ExchangeExchange ==
    ASSUME ExchangeOK, CodeToConfirmed, NEW r \in Joins, Exchange(r)
    PROVE  ExchangeOK' /\ CodeToConfirmed'
<1>1. CASE Confirm(r) BY <1>1, MoveExchange DEF Confirm, Posted, primary, history
<1>2. CASE Peek(r) BY <1>2, MoveExchange DEF Peek, Posted, primary, history
<1>3. CASE JoinFails(r) BY <1>3, MoveExchange DEF JoinFails, Posted, primary, history
<1>4. CASE ReplyArrives(r) BY <1>4, MoveExchange DEF ReplyArrives, Posted, primary, history
<1>5. CASE Record(r) BY <1>5, MoveExchange DEF Record, Posted, primary, history
<1>6. CASE Post(r)
  <2> USE DEF ExchangeOK, Requests
  <2>1. /\ DOMAIN join' = Joins
        /\ \A s \in Joins : s # r => join'[s] = join[s]
        /\ join'[r] = [join[r] EXCEPT !.at = "sent"]
        /\ join[r].at = "post" /\ join[r].want = answers[join[r].to]
        /\ received' = received \cup {<<join[r].want, r>>}
        /\ DOMAIN handler' = Joins /\ \A s \in Joins : s # r => handler'[s] = handler[s]
    BY <1>6 DEF Post, To
  <2>2. /\ join'[r].at = "sent" /\ join'[r].node = join[r].node /\ join'[r].want = join[r].want
        /\ join'[r] \in Requests
    BY <2>1
  <2>3. \A s \in Joins : join'[s].want = join[s].want /\ (Posted(s) => Posted(s)') BY <2>1, <2>2 DEF Posted
  <2>4. Posted(r)' BY <2>2 DEF Posted
  <2>5. \A x \in received' : \E s \in Joins : x = <<join'[s].want, s>> /\ Posted(s)'
    BY <2>1, <2>3, <2>4
  <2>6. ExchangeOK' BY <2>1, <2>2, <2>3, <2>4, <2>5 DEF Posted
  <2>7. CodeToConfirmed' BY <2>3, <2>5 DEF CodeToConfirmed, Posted
  <2> QED BY <2>6, <2>7
<1>7. CASE Redeem(r) \/ PairPeer(r) \/ PairPeerFails(r)
  <2>1. /\ join' = join /\ received' = received
        /\ DOMAIN handler' = DOMAIN handler
        /\ \A s \in Joins : handler'[s] # "none" => handler[s] # "none"
    BY <1>7 DEF Redeem, PairPeer, PairPeerFails, node, history, ExchangeOK
  <2> QED BY <2>1 DEF ExchangeOK, CodeToConfirmed, Posted
<1> QED BY <1>1, <1>2, <1>3, <1>4, <1>5, <1>6, <1>7 DEF Exchange

\* Every step.
LEMMA NextExchange ==
    ASSUME ExchangeOK, CodeToConfirmed, [Next]_vars
    PROVE  ExchangeOK' /\ CodeToConfirmed'
<1>1. CASE join' = join /\ handler' = handler /\ received' = received
  BY <1>1 DEF ExchangeOK, CodeToConfirmed, Posted
<1>2. ASSUME NEW p \in Primaries, RestartPrimary(p) PROVE ExchangeOK' /\ CodeToConfirmed'
  <2>1. /\ join' = join /\ received' = received
        /\ DOMAIN handler' = Joins
        /\ \A s \in Joins : handler'[s] # "none" => handler[s] # "none"
    BY <1>2 DEF RestartPrimary, node, history, ExchangeOK
  <2> QED BY <2>1 DEF ExchangeOK, CodeToConfirmed, Posted
<1>3. ASSUME NEW r \in Joins, NEW n \in Nodes, NEW x \in Addresses, NEW c \in Codes, NEW p \in Primaries,
             JoinPrimary(r, n, x, c, p)
      PROVE  ExchangeOK' /\ CodeToConfirmed'
  <2> USE DEF ExchangeOK, Requests
  <2>1. PICK first \in {"ask", "peek"} :
           join' = [join EXCEPT ![r] = [at |-> first, node |-> n, to |-> x, code |-> c, want |-> p]]
    BY <1>3 DEF JoinPrimary
  <2>2. /\ DOMAIN join' = Joins /\ \A s \in Joins : s # r => join'[s] = join[s]
        /\ join'[r] = [at |-> first, node |-> n, to |-> x, code |-> c, want |-> p]
        /\ ~Posted(r) /\ handler' = handler /\ received' = received
    BY <2>1, <1>3 DEF JoinPrimary, Posted, history
  <2>3. c \in Nat BY PairingAssumption DEF Codes
  <2>4. join'[r] \in Requests
    BY <2>2, <2>3
  <2>5. \A y \in received : \E s \in Joins : y = <<join[s].want, s>> /\ Posted(s) /\ s # r BY <2>2
  <2>6. \A s \in Joins : s # r => (Posted(s)' <=> Posted(s)) BY <2>2 DEF Posted
  <2>7. \A y \in received : \E s \in Joins : y = <<join'[s].want, s>> /\ Posted(s)' BY <2>2, <2>5, <2>6
  <2>8. ExchangeOK' BY <2>2, <2>4, <2>6, <2>7
  <2>9. CodeToConfirmed' BY <2>2, <2>7 DEF CodeToConfirmed, Posted
  <2> QED BY <2>8, <2>9
<1>4. ASSUME NEW n \in Nodes, NEW x \in Addresses, RestartNode(n, x) PROVE ExchangeOK' /\ CodeToConfirmed'
  <2> USE DEF ExchangeOK, Requests
  <2>1. /\ DOMAIN join' = Joins /\ handler' = handler /\ received' = received
        /\ \A s \in Joins : \/ join'[s] = join[s]
                            \/ join'[s] = [join[s] EXCEPT !.at = "failed"] /\ join[s].at # "new"
    BY <1>4 DEF RestartNode, history
  <2>2. \A s \in Joins :
          /\ join'[s].node = join[s].node /\ join'[s].want = join[s].want
          /\ join'[s].at \in {join[s].at, "failed"} /\ (join'[s].at # "new" => join[s].at # "new")
          /\ join'[s] \in Requests
    BY <2>1
  <2>3. \A s \in Joins : Posted(s) => Posted(s)' BY <2>2 DEF Posted
  <2>4. \A y \in received' : \E s \in Joins : y = <<join'[s].want, s>> /\ Posted(s)' BY <2>1, <2>2, <2>3
  <2>5. ExchangeOK' BY <2>1, <2>2, <2>3, <2>4
  <2>6. CodeToConfirmed' BY <2>2, <2>4 DEF CodeToConfirmed, Posted
  <2> QED BY <2>5, <2>6
<1>5. ASSUME NEW r \in Joins, Exchange(r) PROVE ExchangeOK' /\ CodeToConfirmed'
  BY <1>5, ExchangeExchange
<1>6. ASSUME NEW p \in Primaries, Mint(p) \/ \E n \in Nodes : RemoveReplica(p, n)
      PROVE  ExchangeOK' /\ CodeToConfirmed'
  BY <1>1, <1>6 DEF Mint, RemoveReplica, node, history
<1>7. ASSUME NEW n \in Nodes, Poll(n) PROVE ExchangeOK' /\ CodeToConfirmed'
  BY <1>1, <1>7 DEF Poll, history
<1>8. CASE Tick \/ Readdress \/ UNCHANGED vars
  BY <1>1, <1>8 DEF Tick, Readdress, vars, node, history
<1> QED BY <1>2, <1>3, <1>4, <1>5, <1>6, <1>7, <1>8 DEF Next

----------------------------------------------------------------------------
(* The books and what was redeemed. *)

\* A code that is minted is new to every book and to every request.
LEMMA MintBooks == ASSUME BooksOK, CodeOnce, NEW p \in Primaries, Mint(p) PROVE BooksOK' /\ CodeOnce'
<1> USE DEF BooksOK
<1>1. /\ minted' = minted + 1 /\ minted' \in Nat /\ minted' \notin 1 .. minted
      /\ \A c \in 1 .. minted : c \in 1 .. minted' /\ c # minted'
      /\ minted' \in 1 .. minted'
      /\ now' = now /\ boot' = boot /\ redeemed' = redeemed /\ handler' = handler
  BY DEF Mint, history
<1>2. /\ \A c \in 1 .. minted : invites'[c] = invites[c]
      /\ invites'[minted'] = [by |-> p, at |-> now, boot |-> boot[p]]
  BY <1>1 DEF Mint
<1>3. /\ DOMAIN book' = Primaries
      /\ \A q \in Primaries : q # p => book'[q] = book[q]
      /\ book'[p] = [c \in DOMAIN book[p] \cup {minted'} |-> IF c = minted' THEN now + TTL ELSE book[p][c]]
  BY DEF Mint
<1>4. /\ DOMAIN book'[p] = DOMAIN book[p] \cup {minted'}
      /\ book'[p][minted'] = now + TTL
      /\ \A c \in DOMAIN book[p] : book'[p][c] = book[p][c]
  BY <1>1, <1>3
<1>5. \A r \in Joins : redeemed[r] # None => redeemed[r].code # minted' BY <1>1
<1>6. BooksOK'
  <2> SUFFICES ASSUME NEW q \in Primaries, NEW c \in DOMAIN book'[q]
               PROVE  /\ c \in 1 .. minted'
                      /\ invites'[c].by = q /\ invites'[c].boot = boot'[q]
                      /\ book'[q][c] = invites'[c].at + TTL
                      /\ invites'[c].at \in Nat
                      /\ \A r \in Joins : redeemed'[r] # None => redeemed'[r].code # c
    BY <1>1, <1>3
  <2>1. CASE q = p /\ c = minted' BY <2>1, <1>1, <1>2, <1>4, <1>5
  <2>2. CASE c \in DOMAIN book[q]
    <3>1. c \in 1 .. minted /\ book'[q][c] = book[q][c] BY <2>2, <1>3, <1>4
    <3> QED BY <3>1, <2>2, <1>1, <1>2
  <2> QED BY <2>1, <2>2, <1>3, <1>4
<1>7. CodeOnce' BY <1>1, <1>2 DEF CodeOnce
<1> QED BY <1>6, <1>7

\* Redeeming moves a code from the book into the history of the one request that has it.
LEMMA RedeemBooks ==
    ASSUME ExchangeOK, BooksOK, CodeOnce, NEW r \in Joins, Redeem(r)
    PROVE  BooksOK' /\ CodeOnce'
<1> DEFINE p == join[r].want
           c == join[r].code
<1> USE DEF BooksOK
<1>1. p \in Primaries BY DEF Redeem, ExchangeOK, Posted
<1>2. /\ now' = now /\ boot' = boot /\ minted' = minted /\ invites' = invites
      /\ DOMAIN book' = Primaries
      /\ \A q \in Primaries : q # p => book'[q] = book[q]
      /\ book'[p] = Restrict(book[p], Outstanding(p) \ {c})
  BY <1>1 DEF Redeem, BookAfter
<1>3. /\ DOMAIN book'[p] = Outstanding(p) \ {c}
      /\ \A d \in DOMAIN book'[p] : d \in DOMAIN book[p] /\ book'[p][d] = book[p][d] /\ d # c
  BY <1>2 DEF Restrict, Outstanding
<1>4. \A q \in Primaries : \A d \in DOMAIN book'[q] : d \in DOMAIN book[q] /\ book'[q][d] = book[q][d]
  BY <1>2, <1>3
<1>5. handler[r] = "redeem" /\ redeemed[r] = None BY DEF Redeem
<1>6. /\ handler' = [handler EXCEPT ![r] = IF c \in Outstanding(p) THEN "pair" ELSE "refused"]
      /\ DOMAIN handler = Joins
  BY DEF Redeem, ExchangeOK
<1>7. handler'[r] \notin {"none", "redeem"} /\ \A s \in Joins : s # r => handler'[s] = handler[s]
  BY <1>6
<1>8. CASE c \notin Outstanding(p)
  <2>1. redeemed' = redeemed BY <1>8 DEF Redeem
  <2>2. BooksOK' BY <2>1, <1>2, <1>4, <1>7
  <2>3. CodeOnce' BY <2>1, <1>2 DEF CodeOnce
  <2> QED BY <2>2, <2>3
<1>9. CASE c \in Outstanding(p)
  <2>1. /\ redeemed' = [redeemed EXCEPT ![r] = [code |-> c, by |-> p, at |-> now, boot |-> boot[p]]]
        /\ DOMAIN redeemed' = Joins
    BY <1>9 DEF Redeem
  <2>2. /\ redeemed'[r] = [code |-> c, by |-> p, at |-> now, boot |-> boot[p]]
        /\ \A s \in Joins : s # r => redeemed'[s] = redeemed[s]
    BY <2>1
  <2>3. /\ redeemed'[r].code = c /\ redeemed'[r].by = p /\ redeemed'[r].at = now
        /\ redeemed'[r].boot = boot[p]
    BY <2>2
  <2>4. /\ c \in DOMAIN book[p] /\ ~(now > book[p][c])
    BY <1>9 DEF Outstanding
  <2>5. /\ c \in 1 .. minted /\ invites[c].by = p /\ invites[c].boot = boot[p]
        /\ book[p][c] = invites[c].at + TTL /\ invites[c].at \in Nat
        /\ \A s \in Joins : redeemed[s] # None => redeemed[s].code # c
    BY <2>4, <1>1
  <2>6. now <= invites[c].at + TTL BY <2>4, <2>5, PairingAssumption
  <2>7. \A q \in Primaries : \A d \in DOMAIN book'[q] : d # c
    <3> SUFFICES ASSUME NEW q \in Primaries, NEW d \in DOMAIN book'[q], d = c PROVE FALSE OBVIOUS
    <3>1. q # p BY <1>3
    <3>2. d \in DOMAIN book[q] BY <1>4
    <3>3. invites[c].by = q BY <3>2
    <3> QED BY <3>1, <3>3, <2>5
  <2>8. BooksOK' BY <2>1, <2>2, <2>3, <2>5, <2>7, <1>2, <1>4, <1>7
  <2>9. CodeOnce' BY <2>2, <2>3, <2>5, <2>6, <1>2 DEF CodeOnce
  <2> QED BY <2>8, <2>9
<1> QED BY <1>8, <1>9

\* Restarting forgets the codes of one primary.
LEMMA RestartBooks ==
    ASSUME BooksOK, CodeOnce, NEW p \in Primaries, RestartPrimary(p) PROVE BooksOK' /\ CodeOnce'
<1> USE DEF BooksOK
<1>1. /\ now' = now /\ minted' = minted /\ invites' = invites /\ redeemed' = redeemed
      /\ DOMAIN book' = Primaries /\ book'[p] = <<>>
      /\ \A q \in Primaries : q # p => book'[q] = book[q] /\ boot'[q] = boot[q]
      /\ boot' \in [Primaries -> Nat]
  BY DEF RestartPrimary, history
<1>2. DOMAIN book'[p] = {} BY <1>1
<1>3. \A r \in Joins : handler[r] \notin {"none", "redeem"} => handler'[r] \notin {"none", "redeem"}
  BY DEF RestartPrimary
<1>4. BooksOK' BY <1>1, <1>2, <1>3
<1>5. CodeOnce' BY <1>1 DEF CodeOnce
<1> QED BY <1>4, <1>5

\* The other steps leave the books and the history of redeemed codes alone.
LEMMA OtherBooks ==
    ASSUME BooksOK, CodeOnce, now' \in Nat,
           UNCHANGED <<book, minted, invites, boot, redeemed>>,
           \A r \in Joins : handler[r] \notin {"none", "redeem"} => handler'[r] \notin {"none", "redeem"}
    PROVE  BooksOK' /\ CodeOnce'
BY DEF BooksOK, CodeOnce

\* Every step.
LEMMA NextBooks ==
    ASSUME ExchangeOK, BooksOK, CodeOnce, [Next]_vars
    PROVE  BooksOK' /\ CodeOnce'
<1>1. ASSUME NEW p \in Primaries, Mint(p) \/ RestartPrimary(p) PROVE BooksOK' /\ CodeOnce'
  BY <1>1, MintBooks, RestartBooks
<1>2. ASSUME NEW p \in Primaries, NEW n \in Nodes, RemoveReplica(p, n) PROVE BooksOK' /\ CodeOnce'
  BY <1>2, OtherBooks DEF RemoveReplica, BooksOK
<1>3. ASSUME NEW r \in Joins, NEW n \in Nodes, NEW x \in Addresses, NEW c \in Codes, NEW p \in Primaries,
             JoinPrimary(r, n, x, c, p)
      PROVE  BooksOK' /\ CodeOnce'
  BY <1>3, OtherBooks DEF JoinPrimary, primary, history, BooksOK
<1>4. ASSUME NEW r \in Joins, Exchange(r) PROVE BooksOK' /\ CodeOnce'
  <2>1. CASE Redeem(r) BY <2>1, RedeemBooks
  <2>2. CASE Post(r)
    <3>1. handler[r] = "none" BY <2>2 DEF Post, ExchangeOK, Posted
    <3> QED BY <2>2, <3>1, OtherBooks DEF Post, primary, BooksOK, ExchangeOK
  <2>3. CASE PairPeer(r) \/ PairPeerFails(r)
    BY <2>3, OtherBooks DEF PairPeer, PairPeerFails, primary, history, BooksOK, ExchangeOK
  <2>4. CASE Confirm(r) \/ Peek(r) \/ JoinFails(r) \/ ReplyArrives(r) \/ Record(r)
    BY <2>4, OtherBooks DEF Confirm, Peek, JoinFails, ReplyArrives, Record, primary, history, BooksOK
  <2> QED BY <1>4, <2>1, <2>2, <2>3, <2>4 DEF Exchange
<1>5. ASSUME NEW n \in Nodes, Poll(n) PROVE BooksOK' /\ CodeOnce'
  BY <1>5, OtherBooks DEF Poll, history, BooksOK
<1>6. ASSUME NEW n \in Nodes, NEW x \in Addresses, RestartNode(n, x) PROVE BooksOK' /\ CodeOnce'
  BY <1>6, OtherBooks DEF RestartNode, primary, history, BooksOK
<1>7. CASE Tick \/ Readdress \/ UNCHANGED vars
  BY <1>7, OtherBooks DEF Tick, Readdress, vars, primary, node, history, BooksOK
<1> QED BY <1>1, <1>2, <1>3, <1>4, <1>5, <1>6, <1>7 DEF Next

----------------------------------------------------------------------------
(* Who knows whom. *)

\* Joins that succeeded stay so: enough for a step that leaves the peers, the removals and
\* what the nodes keep alone, and lets no join and no handler reach a yes that was not there.
LEMMA OtherPeers ==
    ASSUME ExchangeOK, PeersOK, PairingAgrees,
           UNCHANGED <<peers, removed, pin, paired>>,
           DOMAIN loop' = Nodes,
           \A n \in Nodes : loop'[n].pin \in {pin[n], loop[n].pin},
           \A r \in Joins : /\ handler'[r] = "ok" => handler[r] = "ok"
                            /\ join'[r].at \in {"record", "paired"} =>
                                   handler[r] = "ok" \/ join[r].at \in {"record", "paired"}
                            /\ join[r].at # "new" =>
                                   join'[r].want = join[r].want /\ join'[r].node = join[r].node
                            /\ join[r].at = "paired" => join'[r].at = "paired"
                            /\ join[r].at = "new" => join'[r].at \notin {"record", "paired"}
    PROVE  PeersOK' /\ PairingAgrees'
<1>1. \A p, n : Known(p, n)' <=> Known(p, n) BY DEF Known
<1>2. \A p, n : Succeeded(p, n) => Succeeded(p, n)' BY DEF Succeeded
<1>3. \A r \in Joins : handler'[r] = "ok" \/ join'[r].at \in {"record", "paired"} =>
          Known(join[r].want, join[r].node)'
  <2> SUFFICES ASSUME NEW r \in Joins, handler'[r] = "ok" \/ join'[r].at \in {"record", "paired"}
               PROVE  Known(join[r].want, join[r].node)'
    OBVIOUS
  <2>1. handler[r] = "ok" \/ join[r].at \in {"record", "paired"} OBVIOUS
  <2>2. join[r].at # "new" BY <2>1 DEF ExchangeOK, Posted
  <2> QED BY <2>1, <2>2, <1>1 DEF PeersOK
<1>4. \A n \in Nodes :
         /\ paired'[n] # None => paired'[n] \in Primaries /\ Known(paired[n], n)'
         /\ pin'[n] # None => pin'[n] \in Primaries /\ Succeeded(pin[n], n)'
         /\ loop'[n].pin # None => loop'[n].pin \in Primaries /\ Succeeded(loop[n].pin, n)'
  BY <1>1, <1>2 DEF PeersOK
<1>5. PeersOK' BY <1>3, <1>4 DEF PeersOK
<1>6. \A p \in Primaries : \A n \in DOMAIN peers'[p] : peers'[p][n] => Succeeded(p, n)'
  BY <1>2 DEF PairingAgrees, Succeeded
<1> QED BY <1>5, <1>6, <1>4 DEF PairingAgrees, Known, Succeeded

\* A step that changes rows of the peers only, and keeps what the joins and nodes rely on.
LEMMA RowsPeers ==
    ASSUME PeersOK, PairingAgrees, UNCHANGED <<join, paired, loop>>,
           DOMAIN peers' = Primaries, DOMAIN pin' = Nodes,
           \A n \in Nodes : pin'[n] \in {pin[n], loop[n].pin},
           \A p \in Primaries : DOMAIN peers'[p] \subseteq Nodes,
           \A p \in Primaries, n \in Nodes : Known(p, n) => Known(p, n)',
           \A r \in Joins : (handler'[r] = "ok" \/ join[r].at \in {"record", "paired"}) =>
               join[r].want \in Primaries /\ join[r].node \in Nodes,
           \A r \in Joins : handler'[r] = "ok" => handler[r] = "ok" \/ Known(join[r].want, join[r].node)',
           \A p \in Primaries : \A n \in DOMAIN peers'[p] :
               peers'[p][n] => (n \in DOMAIN peers[p] /\ peers[p][n]) \/ loop[n].pin = p
    PROVE  PeersOK' /\ PairingAgrees'
<1>1. \A p, n : Succeeded(p, n)' <=> Succeeded(p, n) BY DEF Succeeded
<1>2. \A n \in Nodes :
         /\ paired'[n] # None => paired'[n] \in Primaries /\ Known(paired[n], n)'
         /\ pin'[n] # None => pin'[n] \in Primaries /\ Succeeded(pin[n], n)'
         /\ loop'[n].pin # None => loop'[n].pin \in Primaries /\ Succeeded(loop[n].pin, n)'
  BY <1>1 DEF PeersOK
<1>3. \A r \in Joins : handler'[r] = "ok" \/ join'[r].at \in {"record", "paired"} =>
          Known(join[r].want, join[r].node)'
  BY DEF PeersOK
<1>4. PeersOK' BY <1>2, <1>3 DEF PeersOK
<1>5. \A p \in Primaries : \A n \in DOMAIN peers'[p] : peers'[p][n] => Succeeded(p, n)'
  <2> SUFFICES ASSUME NEW p \in Primaries, NEW n \in DOMAIN peers'[p], peers'[p][n]
               PROVE  Succeeded(p, n)
    BY <1>1
  <2>1. n \in Nodes OBVIOUS
  <2>2. CASE n \in DOMAIN peers[p] /\ peers[p][n] BY <2>2 DEF PairingAgrees, Succeeded
  <2>3. CASE loop[n].pin = p BY <2>1, <2>3, PairingAssumption DEF PeersOK
  <2> QED BY <2>2, <2>3
<1> QED BY <1>2, <1>4, <1>5 DEF PairingAgrees, Known, Succeeded

\* What a handler or a join past its post points at.
LEMMA Sides ==
    ASSUME ExchangeOK, NEW r \in Joins, handler[r] # "none" \/ join[r].at # "new"
    PROVE  join[r].want \in Primaries /\ join[r].node \in Nodes
BY DEF ExchangeOK, Posted

\* The row is written before the handler says yes.
LEMMA PairPeerPeers ==
    ASSUME ExchangeOK, PeersOK, PairingAgrees, NEW r \in Joins, PairPeer(r)
    PROVE  PeersOK' /\ PairingAgrees'
<1> DEFINE p == join[r].want
           n == join[r].node
<1>1. p \in Primaries /\ n \in Nodes BY Sides DEF PairPeer
<1>2. /\ DOMAIN peers' = Primaries
      /\ \A q \in Primaries : q # p => peers'[q] = peers[q]
      /\ peers'[p] = [m \in DOMAIN peers[p] \cup {n} |-> m \in DOMAIN peers[p] /\ peers[p][m]]
      /\ removed' = removed \ {<<p, n>>}
      /\ UNCHANGED <<join, paired, loop, pin>>
  BY <1>1 DEF PairPeer, PeersOK, node
<1>3. /\ DOMAIN peers'[p] = DOMAIN peers[p] \cup {n}
      /\ \A m \in DOMAIN peers'[p] : peers'[p][m] => m \in DOMAIN peers[p] /\ peers[p][m]
  BY <1>2
<1>4. \A q \in Primaries, m \in Nodes : Known(q, m) => Known(q, m)'
  BY <1>2, <1>3 DEF Known
<1>5. \A s \in Joins : /\ handler'[s] = "ok" => handler[s] = "ok" \/ s = r
                       /\ handler'[s] = "ok" => handler[s] # "none"
  BY DEF PairPeer, ExchangeOK
<1>6. Known(p, n)' BY <1>2, <1>3 DEF Known
<1>7. \A q \in Primaries : DOMAIN peers'[q] \subseteq Nodes BY <1>1, <1>2, <1>3 DEF PeersOK
<1>8. \A s \in Joins : (handler'[s] = "ok" \/ join[s].at \in {"record", "paired"}) =>
          join[s].want \in Primaries /\ join[s].node \in Nodes
  BY <1>5, Sides
<1>9. DOMAIN pin' = Nodes BY <1>2 DEF PeersOK
<1> QED BY <1>2, <1>3, <1>4, <1>5, <1>6, <1>7, <1>8, <1>9, RowsPeers

\* The row goes, and the removal is remembered.
LEMMA RemovePeers ==
    ASSUME ExchangeOK, PeersOK, PairingAgrees, NEW p \in Primaries, NEW n \in Nodes, RemoveReplica(p, n)
    PROVE  PeersOK' /\ PairingAgrees'
<1>1. /\ DOMAIN peers' = Primaries
      /\ \A q \in Primaries : q # p => peers'[q] = peers[q]
      /\ peers'[p] = Restrict(peers[p], DOMAIN peers[p] \ {n})
      /\ removed' = removed \cup {<<p, n>>}
      /\ UNCHANGED <<join, paired, loop, pin, handler>>
  BY DEF RemoveReplica, PeersOK, node
<1>2. /\ DOMAIN peers'[p] = DOMAIN peers[p] \ {n}
      /\ \A m \in DOMAIN peers'[p] : peers'[p][m] = peers[p][m]
  BY <1>1 DEF Restrict
<1>3. \A q \in Primaries, m \in Nodes : Known(q, m) => Known(q, m)' BY <1>1, <1>2 DEF Known
<1>4. \A q \in Primaries : DOMAIN peers'[q] \subseteq Nodes BY <1>1, <1>2 DEF PeersOK
<1>5. \A s \in Joins : (handler'[s] = "ok" \/ join[s].at \in {"record", "paired"}) =>
          join[s].want \in Primaries /\ join[s].node \in Nodes
  BY <1>1, Sides
<1>6. DOMAIN pin' = Nodes BY <1>1 DEF PeersOK
<1>7. \A q \in Primaries : \A m \in DOMAIN peers'[q] : peers'[q][m] => m \in DOMAIN peers[q] /\ peers[q][m]
  BY <1>1, <1>2
<1> QED BY <1>1, <1>3, <1>4, <1>5, <1>6, <1>7, RowsPeers

\* A poll marks the row of a node whose loop has the pin of a join that succeeded.
LEMMA PollPeers ==
    ASSUME ExchangeOK, PeersOK, PairingAgrees, NEW n \in Nodes, Poll(n)
    PROVE  PeersOK' /\ PairingAgrees'
<1> DEFINE p == loop[n].pin
<1>1. p \in Primaries /\ n \in DOMAIN peers[p] BY DEF Poll, PeersOK, Answers
<1>2. /\ DOMAIN peers' = Primaries
      /\ \A q \in Primaries : q # p => peers'[q] = peers[q]
      /\ peers'[p] = [m \in DOMAIN peers[p] |-> peers[p][m] \/ m = n]
      /\ removed' = removed
      /\ UNCHANGED <<join, paired, loop, handler>>
  BY <1>1 DEF Poll, PeersOK, history
<1>3. /\ DOMAIN peers'[p] = DOMAIN peers[p]
      /\ \A m \in DOMAIN peers'[p] : peers'[p][m] => peers[p][m] \/ m = n
  BY <1>2
<1>4. \A q \in Primaries, m \in Nodes : Known(q, m) => Known(q, m)' BY <1>2, <1>3 DEF Known
<1>5. \A q \in Primaries : DOMAIN peers'[q] \subseteq Nodes BY <1>2, <1>3 DEF PeersOK
<1>6. \A s \in Joins : (handler'[s] = "ok" \/ join[s].at \in {"record", "paired"}) =>
          join[s].want \in Primaries /\ join[s].node \in Nodes
  BY <1>2, Sides
<1>7. DOMAIN pin' = Nodes /\ \A m \in Nodes : pin'[m] \in {pin[m], loop[m].pin} BY DEF Poll, PeersOK
<1>8. \A q \in Primaries : \A m \in DOMAIN peers'[q] :
          peers'[q][m] => (m \in DOMAIN peers[q] /\ peers[q][m]) \/ loop[m].pin = q
  BY <1>2, <1>3
<1> QED BY <1>2, <1>4, <1>5, <1>6, <1>7, <1>8, RowsPeers

\* The node records a pin only after a yes of that primary.
LEMMA RecordPeers ==
    ASSUME ExchangeOK, PeersOK, PairingAgrees, NEW r \in Joins, Record(r)
    PROVE  PeersOK' /\ PairingAgrees'
<1>0. PICK p \in Primaries, n \in Nodes : join[r].want = p /\ join[r].node = n BY Sides DEF Record
<1>1. join[r].at = "record" BY DEF Record
<1>2. /\ UNCHANGED <<peers, removed, loop, handler>>
      /\ DOMAIN pin' = Nodes /\ DOMAIN paired' = Nodes
      /\ \A m \in Nodes : pin'[m] = IF m = n THEN p ELSE pin[m]
      /\ \A m \in Nodes : paired'[m] = IF m = n THEN p ELSE paired[m]
  BY <1>0, <1>1 DEF Record, PeersOK, primary, history
<1>3. /\ DOMAIN join' = Joins /\ join'[r] = [join[r] EXCEPT !.at = "paired"]
      /\ \A s \in Joins : s # r => join'[s] = join[s]
  BY DEF Record, To, ExchangeOK
<1>4. join'[r].at = "paired" /\ join'[r].want = p /\ join'[r].node = n BY <1>0, <1>3 DEF ExchangeOK, Requests
<1>5. \A q, m : Succeeded(q, m) => Succeeded(q, m)' BY <1>1, <1>3 DEF Succeeded
<1>6. Succeeded(p, n)' BY <1>4 DEF Succeeded
<1>7. \A q, m : Known(q, m)' <=> Known(q, m) BY <1>2 DEF Known
<1>8. Known(p, n) BY <1>0, <1>1 DEF PeersOK
<1>9. \A m \in Nodes :
         /\ paired'[m] # None => paired'[m] \in Primaries /\ Known(paired[m], m)'
         /\ pin'[m] # None => pin'[m] \in Primaries /\ Succeeded(pin[m], m)'
         /\ loop'[m].pin # None => loop'[m].pin \in Primaries /\ Succeeded(loop[m].pin, m)'
  BY <1>1, <1>2, <1>5, <1>6, <1>7, <1>8 DEF PeersOK
<1>10. \A s \in Joins : handler'[s] = "ok" \/ join'[s].at \in {"record", "paired"} =>
          Known(join[s].want, join[s].node)'
  BY <1>2, <1>3, <1>4, <1>7, <1>8 DEF PeersOK
<1>11. PeersOK' BY <1>2, <1>9, <1>10 DEF PeersOK
<1>12. \A q \in Primaries : \A m \in DOMAIN peers'[q] : peers'[q][m] => Succeeded(q, m)'
  BY <1>2, <1>5 DEF PairingAgrees, Succeeded
<1> QED BY <1>9, <1>11, <1>12 DEF PairingAgrees, Known, Succeeded

\* A join that moves on, but not to a success, changes nothing for the peers.
LEMMA MovePeers ==
    ASSUME ExchangeOK, PeersOK, PairingAgrees, NEW r \in Joins, NEW where, To(r, where),
           where = "record" => handler[r] = "ok",
           where # "paired", join[r].at \notin {"new", "paired"},
           UNCHANGED <<peers, removed, pin, loop, paired>>,
           \A s \in Joins : handler'[s] = "ok" => handler[s] = "ok"
    PROVE  PeersOK' /\ PairingAgrees'
<1>1. /\ \A s \in Joins : s # r => join'[s] = join[s]
      /\ join'[r] = [join[r] EXCEPT !.at = where]
  BY DEF To, ExchangeOK
<1>2. join'[r].at = where /\ join'[r].want = join[r].want /\ join'[r].node = join[r].node
  BY <1>1 DEF ExchangeOK, Requests
<1>3. DOMAIN loop' = Nodes /\ \A n \in Nodes : loop'[n].pin \in {pin[n], loop[n].pin} BY DEF PeersOK
<1> QED BY <1>1, <1>2, <1>3, OtherPeers

\* Every step.
LEMMA NextPeers ==
    ASSUME ExchangeOK, PeersOK, PairingAgrees, [Next]_vars
    PROVE  PeersOK' /\ PairingAgrees'
<1>1. CASE UNCHANGED <<peers, removed, pin, paired, loop, join, handler>>
  BY <1>1, OtherPeers DEF PeersOK
<1>2. ASSUME NEW p \in Primaries, Mint(p) PROVE PeersOK' /\ PairingAgrees'
  BY <1>1, <1>2 DEF Mint, node, history
<1>3. ASSUME NEW p \in Primaries, RestartPrimary(p) PROVE PeersOK' /\ PairingAgrees'
  <2>1. \A s \in Joins : handler'[s] = "ok" => handler[s] = "ok" BY <1>3 DEF RestartPrimary
  <2> QED BY <1>3, <2>1, OtherPeers DEF RestartPrimary, node, history, PeersOK
<1>4. ASSUME NEW p \in Primaries, NEW n \in Nodes, RemoveReplica(p, n) PROVE PeersOK' /\ PairingAgrees'
  BY <1>4, RemovePeers
<1>5. ASSUME NEW r \in Joins, NEW n \in Nodes, NEW x \in Addresses, NEW c \in Codes, NEW p \in Primaries,
             JoinPrimary(r, n, x, c, p)
      PROVE  PeersOK' /\ PairingAgrees'
  <2>1. PICK first \in {"ask", "peek"} :
           join' = [join EXCEPT ![r] = [at |-> first, node |-> n, to |-> x, code |-> c, want |-> p]]
    BY <1>5 DEF JoinPrimary
  <2>2. /\ \A s \in Joins : s # r => join'[s] = join[s]
        /\ join[r].at = "new" /\ join'[r].at \in {"ask", "peek"}
    BY <1>5, <2>1 DEF JoinPrimary, ExchangeOK
  <2>3. UNCHANGED <<peers, removed, pin, paired, loop, handler>> BY <1>5 DEF JoinPrimary, primary, history
  <2>4. DOMAIN loop' = Nodes /\ \A m \in Nodes : loop'[m].pin \in {pin[m], loop[m].pin}
    BY <2>3 DEF PeersOK
  <2> QED BY <2>2, <2>3, <2>4, OtherPeers
<1>6. ASSUME NEW r \in Joins, Exchange(r) PROVE PeersOK' /\ PairingAgrees'
  <2>1. CASE Confirm(r) BY <2>1, MovePeers DEF Confirm, primary, history
  <2>2. CASE Peek(r) BY <2>2, MovePeers DEF Peek, primary, history
  <2>3. CASE Post(r)
    <3>1. \A s \in Joins : handler'[s] = "ok" => handler[s] = "ok" BY <2>3 DEF Post, ExchangeOK
    <3> QED BY <2>3, <3>1, MovePeers DEF Post, primary
  <2>4. CASE JoinFails(r) BY <2>4, MovePeers DEF JoinFails, primary, history
  <2>5. CASE ReplyArrives(r) BY <2>5, MovePeers DEF ReplyArrives, primary, history
  <2>6. CASE Record(r) BY <2>6, RecordPeers
  <2>7. CASE Redeem(r) \/ PairPeerFails(r)
    <3>1. \A s \in Joins : handler'[s] = "ok" => handler[s] = "ok"
      BY <2>7 DEF Redeem, PairPeerFails, ExchangeOK
    <3>2. UNCHANGED <<peers, removed, pin, paired, loop, join>>
      BY <2>7 DEF Redeem, PairPeerFails, primary, node, history
    <3> QED BY <3>1, <3>2, OtherPeers DEF PeersOK
  <2>8. CASE PairPeer(r) BY <2>8, PairPeerPeers
  <2> QED BY <1>6, <2>1, <2>2, <2>3, <2>4, <2>5, <2>6, <2>7, <2>8 DEF Exchange
<1>7. ASSUME NEW n \in Nodes, Poll(n) PROVE PeersOK' /\ PairingAgrees' BY <1>7, PollPeers
<1>8. ASSUME NEW n \in Nodes, NEW x \in Addresses, RestartNode(n, x) PROVE PeersOK' /\ PairingAgrees'
  <2>1. /\ UNCHANGED <<peers, removed, pin, paired, handler>>
        /\ DOMAIN loop' = Nodes /\ \A m \in Nodes : loop'[m].pin \in {pin[m], loop[m].pin}
    BY <1>8 DEF RestartNode, primary, history, PeersOK
  <2>2. \A s \in Joins : \/ join'[s] = join[s]
                         \/ /\ join'[s] = [join[s] EXCEPT !.at = "failed"]
                            /\ join[s].at \in {"peek", "post", "sent", "record"}
    BY <1>8 DEF RestartNode
  <2>3. \A s \in Joins :
          /\ join'[s].node = join[s].node /\ join'[s].want = join[s].want
          /\ \/ join'[s].at = join[s].at
             \/ join'[s].at = "failed" /\ join[s].at \in {"peek", "post", "sent", "record"}
    BY <2>2 DEF ExchangeOK, Requests
  <2> QED BY <2>1, <2>3, OtherPeers
<1>9. CASE Tick \/ Readdress \/ UNCHANGED vars
  BY <1>1, <1>9 DEF Tick, Readdress, vars, primary, node, history
<1> QED BY <1>2, <1>3, <1>4, <1>5, <1>6, <1>7, <1>8, <1>9 DEF Next

----------------------------------------------------------------------------
(* The theorems. *)

\* Nothing is minted, sent or paired when the machines start.
LEMMA InitInd == Init => IndInv
<1> SUFFICES ASSUME Init PROVE IndInv OBVIOUS
<1> USE DEF Init, NotStarted
<1>1. ExchangeOK BY DEF ExchangeOK, Requests, Posted
<1>2. \A p \in Primaries : DOMAIN book[p] = {} /\ DOMAIN peers[p] = {} OBVIOUS
<1>3. BooksOK BY <1>2 DEF BooksOK
<1>4. \A n \in Nodes : paired[n] = None /\ pin[n] = None /\ loop[n].pin = None BY DEF NoLoop
<1>5. \A r \in Joins : redeemed[r] = None /\ handler[r] = "none" /\ join[r].at = "new" OBVIOUS
<1>6. PeersOK BY <1>2, <1>4, <1>5 DEF PeersOK
<1>7. CodeOnce /\ CodeToConfirmed /\ PairingAgrees
  BY <1>2, <1>4, <1>5 DEF CodeOnce, CodeToConfirmed, PairingAgrees
<1> QED BY <1>1, <1>3, <1>6, <1>7 DEF IndInv

\* The invariant holds throughout: every step of the two machines keeps the three parts.
THEOREM Inductive == Spec => []IndInv
<1>1. IndInv /\ [Next]_vars => IndInv' BY NextExchange, NextBooks, NextPeers DEF IndInv
<1> QED BY InitInd, <1>1, PTL DEF Spec

\* One code pairs one node, of the primary that printed it, in time and before it restarts,
\* for any number of overlapping requests (InviteBook.Redeem, handlePair).
THEOREM CodesPairOnce == Spec => []CodeOnce
<1>1. IndInv => CodeOnce BY DEF IndInv
<1> QED BY Inductive, <1>1, PTL

\* A code reaches the key the operator confirmed and no other, and a withheld one none
\* (PairAsReplica, Exchange).
THEOREM CodesReachTheConfirmed == Spec => []CodeToConfirmed
<1>1. IndInv => CodeToConfirmed BY DEF IndInv
<1> QED BY Inductive, <1>1, PTL

\* A node that was told it is paired is known to its primary until it is removed, and a row
\* with a sync time comes from a join that succeeded (PairPeer, FollowPrimary, the pull loop).
THEOREM PairingsAgree == Spec => []PairingAgrees
<1>1. IndInv => PairingAgrees BY DEF IndInv
<1> QED BY Inductive, <1>1, PTL
=============================================================================
