----------------------------- MODULE UserStore ------------------------------
(***************************************************************************)
(* What core.Storage promises to the rest of the framework, whatever the   *)
(* adapter: one table of users keyed by ID in which no two users share an  *)
(* email, and five operations that take effect at one instant.             *)
(*                                                                         *)
(* store is that table.  reply is the latest call that returned: the       *)
(* operation, the key it was about, its error and the user it returned (a  *)
(* set with at most one element) or, for the writes, was given.            *)
(*                                                                         *)
(* A call to a remote adapter may also fail on the way ("fault").  Such a  *)
(* write has then taken effect or not: the caller cannot tell.             *)
(***************************************************************************)
EXTENDS GoMaps

CONSTANTS Ids, Emails, Attrs

VARIABLES store, reply
vars == <<store, reply>>

\* attrs stands for everything a user carries besides its keys.
User == [id : Ids, email : Emails, attrs : Attrs]

NoReply == [op |-> "none", key |-> "", err |-> "nil", user |-> {}]
Reply(op, key, err, user) == [op |-> op, key |-> key, err |-> err, user |-> user]

EmailTaken(e) == \E i \in DOMAIN store : store[i].email = e

Init == /\ store = EmptyMap
        /\ reply = NoReply

Insert(u) == /\ u.id \notin DOMAIN store
             /\ ~EmailTaken(u.email)
             /\ store' = Put(store, u.id, u)

Replace(u) == /\ u.id \in DOMAIN store
              /\ store[u.id].email # u.email => ~EmailTaken(u.email)
              /\ store' = Put(store, u.id, u)

Remove(i) == /\ i \in DOMAIN store
             /\ store' = Without(store, i)

CreateUser(u) ==
  \/ /\ Insert(u)
     /\ reply' = Reply("CreateUser", u.id, "nil", {u})
  \/ /\ u.id \in DOMAIN store \/ EmailTaken(u.email)
     /\ reply' = Reply("CreateUser", u.id, "exists", {u})
     /\ UNCHANGED store
  \/ /\ Insert(u) \/ UNCHANGED store
     /\ reply' = Reply("CreateUser", u.id, "fault", {u})

GetUserByEmail(e) ==
  LET hits == {store[i] : i \in {j \in DOMAIN store : store[j].email = e}}
  IN  /\ \/ \E u \in hits : reply' = Reply("GetUserByEmail", e, "nil", {u})
         \/ hits = {} /\ reply' = Reply("GetUserByEmail", e, "notfound", {})
         \/ reply' = Reply("GetUserByEmail", e, "fault", {})
      /\ UNCHANGED store

GetUserById(i) ==
  LET hits == {store[j] : j \in DOMAIN store \cap {i}}
  IN  /\ \/ reply' = Reply("GetUserById", i, IF hits = {} THEN "notfound" ELSE "nil", hits)
         \/ reply' = Reply("GetUserById", i, "fault", {})
      /\ UNCHANGED store

UpdateUser(u) ==
  \/ /\ Replace(u)
     /\ reply' = Reply("UpdateUser", u.id, "nil", {u})
  \/ /\ u.id \notin DOMAIN store
     /\ reply' = Reply("UpdateUser", u.id, "notfound", {u})
     /\ UNCHANGED store
  \/ /\ u.id \in DOMAIN store
     /\ store[u.id].email # u.email
     /\ EmailTaken(u.email)
     /\ reply' = Reply("UpdateUser", u.id, "exists", {u})
     /\ UNCHANGED store
  \/ /\ Replace(u) \/ UNCHANGED store
     /\ reply' = Reply("UpdateUser", u.id, "fault", {u})

DeleteUser(i) ==
  \/ /\ Remove(i)
     /\ reply' = Reply("DeleteUser", i, "nil", {})
  \/ /\ i \notin DOMAIN store
     /\ reply' = Reply("DeleteUser", i, "notfound", {})
     /\ UNCHANGED store
  \/ /\ Remove(i) \/ UNCHANGED store
     /\ reply' = Reply("DeleteUser", i, "fault", {})

\* Only the memory adapter offers it.
Clear == /\ store' = EmptyMap
         /\ reply' = NoReply

Next == \/ \E u \in User : CreateUser(u) \/ UpdateUser(u)
        \/ \E i \in Ids : GetUserById(i) \/ DeleteUser(i)
        \/ \E e \in Emails : GetUserByEmail(e)
        \/ Clear

Spec == Init /\ [][Next]_vars

\* An adapter may hand out its own objects instead of copies.  Who shares one
\* and assigns to a field that is no key changes the table without a call.
Touch(u) == /\ u.id \in DOMAIN store
            /\ u.email = store[u.id].email
            /\ store' = Put(store, u.id, u)
            /\ UNCHANGED reply

SharedNext == Next \/ \E u \in User : Touch(u)
SharedSpec == Init /\ [][SharedNext]_vars

-----------------------------------------------------------------------------
\* Every user is filed under its own ID, and no two users share an email.
\* This is the guideline docs/guides/storage-adapters.md gives adapters.
EmailsUnique ==
  \A i, j \in DOMAIN store :
    /\ store[i].id = i
    /\ store[i].email = store[j].email => i = j
=============================================================================
