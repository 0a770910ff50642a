-------------------------- MODULE MCMemoryStorage ---------------------------
(* Small instances of MemoryStorage: two users and two emails, and one      *)
(* object more than the adapter can hold.  States that differ only in the   *)
(* reply of the latest call count as one: it is read in no later step.      *)
EXTENDS MemoryStorage

WithoutReply == <<heap, users, email>>
=============================================================================
