----------------------------- MODULE MCEvidence -----------------------------
(* A bundle of two records, its writer's verification and one of another.  *)
EXTENDS Evidence

TwoRecords == <<"intent", "action">>

=============================================================================
