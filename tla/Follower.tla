------------------------------ MODULE Follower ------------------------------
(***************************************************************************)
(* What replication promises, without how a poll works: a node holds       *)
(* contents, claims to hold some primary's configuration of some version,  *)
(* and either follows or accepts writes.  Contents arrive whole, at a      *)
(* version no older than the claim; a claim is made only for contents that *)
(* are already there; nothing arrives on a node that accepts writes; and a *)
(* node gives up its claim before it starts to accept them.                *)
(***************************************************************************)
EXTENDS Integers

CONSTANTS Primaries, Tables, NoNode, Self, MaxVersion

Content == [by : Primaries \cup {Self}, ver : Nat]

VARIABLES
    version,    \* [Primaries -> Nat]
    cfg,        \* [Primaries -> [Tables -> Nat]]: version of a table's last write
    content,    \* [Tables -> Content]: what the node holds
    claim,      \* whose configuration it says it holds, and of which version
    promoted,   \* a promotion is on record
    writable    \* it accepts writes

vars == <<version, cfg, content, claim, promoted, writable>>

\* c is primary p's configuration of version v: every table p has not written
\* since is exactly p's.
Covers(c, p, v) ==
    \A t \in Tables : cfg[p][t] <= v => c[t] = [by |-> p, ver |-> cfg[p][t]]

\* A version of p the node may move to without losing what it claims.
NotOlder(p, v) ==
    /\ v \in 0 .. version[p]
    /\ claim.ver = 0 \/ (claim.node = p /\ claim.ver <= v)

Init ==
    /\ version = [p \in Primaries |-> 1]
    /\ cfg = [p \in Primaries |-> [t \in Tables |-> 1]]
    /\ content = [t \in Tables |-> [by |-> Self, ver |-> 0]]
    /\ claim = [node |-> NoNode, ver |-> 0]
    /\ promoted = FALSE
    /\ writable = FALSE

\* A primary changes some of its tables.
Change(p, ts) ==
    /\ version[p] < MaxVersion[p]
    /\ version' = [version EXCEPT ![p] = @ + 1]
    /\ cfg' = [cfg EXCEPT ![p] =
                  [t \in Tables |-> IF t \in ts THEN version[p] + 1 ELSE @[t]]]
    /\ UNCHANGED <<content, claim, promoted, writable>>

\* A primary's configuration arrives, all of it at once.
Install(p, v) ==
    /\ ~writable
    /\ NotOlder(p, v)
    /\ Covers(content', p, v)
    /\ content' \in [Tables -> Content]
    /\ UNCHANGED <<version, cfg, claim, promoted, writable>>

\* The node claims what it holds.
Record(p, v) ==
    /\ ~writable
    /\ NotOlder(p, v)
    /\ Covers(content, p, v)
    /\ claim' = [node |-> p, ver |-> v]
    /\ UNCHANGED <<version, cfg, content, promoted, writable>>

\* It is told to follow p, of whose configuration it claims nothing yet.
Follow(p) ==
    /\ claim' = [node |-> p, ver |-> 0]
    /\ promoted' = FALSE
    /\ UNCHANGED <<version, cfg, content, writable>>

\* It is told to stop following, perhaps when it no longer does ...
Declare ==
    /\ promoted' = TRUE
    /\ UNCHANGED <<version, cfg, content, claim, writable>>

\* ... gives up its claim ...
Forget ==
    /\ claim' = [node |-> NoNode, ver |-> 0]
    /\ UNCHANGED <<version, cfg, content, promoted, writable>>

\* ... and accepts writes.
TakeOver ==
    /\ claim.ver = 0
    /\ writable' = TRUE
    /\ UNCHANGED <<version, cfg, content, claim, promoted>>

\* What it accepts after a restart is what is on record.
Boot ==
    /\ writable' = promoted
    /\ UNCHANGED <<version, cfg, content, claim, promoted>>

\* A write of its own.
Edit(t) ==
    /\ writable
    /\ content' = [content EXCEPT ![t] = [by |-> Self, ver |-> 1]]
    /\ UNCHANGED <<version, cfg, claim, promoted, writable>>

Next ==
    \/ \E p \in Primaries, ts \in SUBSET Tables : Change(p, ts)
    \/ \E p \in Primaries : \E v \in 0 .. version[p] : Install(p, v) \/ Record(p, v)
    \/ \E p \in Primaries : Follow(p)
    \/ Declare \/ Forget \/ TakeOver \/ Boot
    \/ \E t \in Tables : Edit(t)

Spec == Init /\ [][Next]_vars
=============================================================================
