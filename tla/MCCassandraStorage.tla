------------------------- MODULE MCCassandraStorage -------------------------
(* Small instances of CassandraStorage: clients that share users and        *)
(* emails.  States that differ only in the reply of the latest call count   *)
(* as one: it is read in no later step.                                     *)
EXTENDS CassandraStorage

WithoutReply == <<rows, call>>
=============================================================================
