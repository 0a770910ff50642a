--------------------------- MODULE MCEmailPassword --------------------------
(* Small instances of EmailPassword.  States that differ only in the reply   *)
(* of the adapter's latest call count as one: it is read in no later step.   *)
EXTENDS EmailPassword

\* A password that is too long begins with the 72 bytes of another one.
Beginning == [p \in Passwords |-> IF p \in TooLong THEN CHOOSE q \in Passwords \ TooLong : TRUE ELSE p]

WithoutReply == <<store, app, call, answer>>
=============================================================================
