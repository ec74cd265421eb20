------------------------------ MODULE MCPolicy ------------------------------
(* Policy for TLC: two built-in lists and one more, two URLs, the first read in *)
(* two formats, the second now and then with nothing usable.                 *)
EXTENDS Policy, TLC

ads == <<"ads", "com">>
sub == <<"x", "ads", "com">>
spy == <<"spy", "org">>
MCDomains == {ads, sub, spy, <<"badads", "com">>}
MCRuleDomains == {ads, sub}
\* "v" now and then serves a page with no usable domain.
MCVersions == [s \in Sources |-> IF s = "v" THEN {0, 1} ELSE {0}]
\* "w" is the URL of "u" in another format.
MCUrl == [s \in Sources |-> IF s = "v" THEN "V" ELSE "U"]
MCContent == [b \in Bodies |-> CASE b = <<"u", 0>> -> {sub, spy}
                                 [] b = <<"v", 0>> -> {ads}
                                 [] OTHER -> {}]

Def(n, s, on) == [name |-> n, src |-> s, on |-> on]
MCManifest == <<Def("shipped", "u", TRUE), Def("second", "w", TRUE)>>
MCEdits == {Def("mine", "v", TRUE), Def("mine", "u", TRUE),
            Def("shipped", "w", FALSE), Def("shipped", "v", TRUE)}
Symm == Permutations(Handlers)
NoRules == [d \in RuleDomains |-> None]
\* The other list first, so that ids change owners; both repointed.
Swapped == [enabled |-> TRUE, rules |-> NoRules,
            lists |-> <<Def("mine", "u", TRUE), Def("shipped", "v", TRUE)>>]
\* A document from before the built-ins.
Older == [enabled |-> TRUE, rules |-> [d \in RuleDomains |-> IF d = ads THEN "deny" ELSE "allow"],
          lists |-> <<Def("mine", "v", TRUE)>>]
MCDocs == {Swapped, Older}
=============================================================================
