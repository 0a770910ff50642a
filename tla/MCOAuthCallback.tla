--------------------------- MODULE MCOAuthCallback ---------------------------
(* A small instance of OAuthCallback.  States that differ only in the reply  *)
(* of the adapter's latest call count as one: it is read in no later step.   *)
EXTENDS OAuthCallback, TLC

WithoutReply == <<store, app, secret, call, answer>>

Interchangeable == Permutations(Clients) \cup Permutations(Ids) \cup Permutations(Emails)
=============================================================================
