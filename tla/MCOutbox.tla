------------------------------ MODULE MCOutbox -------------------------------
(***************************************************************************)
(* Contents for the outbox's rows: all different.                          *)
(***************************************************************************)
EXTENDS TopicReader

DistinctContent == [r \in Rows |-> r]
=============================================================================
