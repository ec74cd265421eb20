------------------------------ MODULE MCBackup ------------------------------
(* Backup for TLC: three servers of two suites. *)
EXTENDS Backup, TLC

CONSTANTS s1, s2, s3, k1, k2

\* s1 and s3 belong to one suite.
Suites == s1 :> k1 @@ s2 :> k2 @@ s3 :> k1
============================================================================
