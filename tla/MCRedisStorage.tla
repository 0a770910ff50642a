--------------------------- MODULE MCRedisStorage ---------------------------
(* Small instances of RedisStorage: two clients that share or partition the *)
(* users and the emails they write.  States that differ only in the reply   *)
(* of the latest call count as one: it is read in no later step.            *)
EXTENDS RedisStorage

CONSTANTS c1, c2, i1, i2, i3, e1, e2, e3

Partition(a, b) == [c \in Clients |-> IF c = c1 THEN a ELSE b]

OwnIds == Partition(Ids \ {i2}, {i2})
OwnEmails == Partition({e1, e2}, {e3})
AllIds == Partition(Ids, Ids)
AllEmails == Partition(Emails, Emails)

SharedEmails == {AllEmails}
OwnOrSharedEmails == {OwnEmails, Partition({e1, e3}, {e1, e3})}

WithoutReply == <<kv, idx, call, emailsOf>>
=============================================================================
