---------------------------- MODULE MCTableStorage ---------------------------
(* Small instances of TableStorage: every kind of adapter.  States that     *)
(* differ only in the reply of the latest call count as one: it is read in  *)
(* no later step.                                                           *)
EXTENDS TableStorage

WithoutReply == <<adapter, now, table>>
=============================================================================
