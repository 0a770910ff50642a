---------------------------- MODULE RedisStorage ----------------------------
(***************************************************************************)
(* storage/redis: one key per user and one hash as the email index.        *)
(*                                                                         *)
(* The adapter holds no lock.  A call is a sequence of Redis commands,     *)
(* each atomic at the server, with the commands of other clients between   *)
(* them; what a call read early it acts on late.  Only the writing         *)
(* pipelines are transactions (MULTI/EXEC).                                *)
(*                                                                         *)
(* Clients are the goroutines and processes that call the adapter.  IdsOf  *)
(* says which users each of them writes, Sharings which emails each may    *)
(* use: shared or partitioned.  With Faults a command can fail, and a      *)
(* transaction's answer can be lost after it took effect.                  *)
(***************************************************************************)
EXTENDS GoMaps

CONSTANTS Clients, Ids, Emails, Attrs,
          IdsOf,              \* Clients -> SUBSET Ids
          Sharings,           \* the choices of emailsOf, Clients -> SUBSET Emails
          Ops,                \* the operations in use
          Faults              \* whether the network may fail

ASSUME CallersAssumption ==
  /\ IdsOf \in [Clients -> SUBSET Ids]
  /\ Sharings \subseteq [Clients -> SUBSET Emails]
  /\ Faults \in BOOLEAN

VARIABLES kv,       \* "user:<id>" keys: ID -> stored user
          idx,      \* the email index hash: email -> ID
          call,     \* the call each client is in
          reply,    \* the latest call that returned, as in UserStore
          emailsOf  \* the emails each client uses
vars == <<kv, idx, call, reply, emailsOf>>

\* pw tells a password hash from the empty string.  Callers write a hash.
User == [id : Ids, email : Emails, attrs : Attrs, pw : {"hash", ""}]
UsersOf(c) == [id : IdsOf[c], email : emailsOf[c], attrs : Attrs, pw : {"hash"}]

NoReply == [op |-> "none", key |-> "", err |-> "nil", user |-> {}]

\* at is the next command; user and key are arguments; id and old are what
\* the call has read: the ID behind an email, the stored email of a user.
Idle == [op |-> "none", at |-> "idle", key |-> "", user |-> {}, id |-> {}, old |-> {}]

Arg(c) == CHOOSE u \in call[c].user : TRUE
IdOf(c) == CHOOSE i \in call[c].id : TRUE
Old(c) == CHOOSE e \in call[c].old : TRUE

Init == /\ kv = EmptyMap
        /\ idx = EmptyMap
        /\ call = [c \in Clients |-> Idle]
        /\ reply = NoReply
        /\ emailsOf \in Sharings

At(c, step) == call[c].at = step
Goto(c, step) == call' = [call EXCEPT ![c].at = step] /\ UNCHANGED reply
Return(c, err, found) ==
  /\ call' = [call EXCEPT ![c] = Idle]
  /\ reply' = [op |-> call[c].op, key |-> call[c].key, err |-> err, user |-> found]

\* A transaction was sent: it took effect, and its answer may get lost.
Answer(c, found) == \/ Return(c, "nil", found)
                    \/ Faults /\ Return(c, "fault", found)

Enter(c, op, key, first, user, id) ==
  /\ At(c, "idle")
  /\ op \in Ops
  /\ call' = [call EXCEPT ![c] =
       [op |-> op, at |-> first, key |-> key, user |-> user, id |-> id, old |-> {}]]
  /\ UNCHANGED <<kv, idx, reply>>

-----------------------------------------------------------------------------
(* CreateUser: HEXISTS email, EXISTS user, MULTI SET HSET EXEC. *)

EmailTaken_never(e) == FALSE
EmailTaken(e) == e \in DOMAIN idx

CreateUser(c, u) == Enter(c, "CreateUser", u.id, "hexists", {u}, {u.id})

CreateCheckEmail(c) ==
  /\ At(c, "hexists")
  /\ IF EmailTaken(Arg(c).email) THEN Return(c, "exists", call[c].user)
                                 ELSE Goto(c, "exists")
  /\ UNCHANGED <<kv, idx>>

CreateCheckId(c) ==
  /\ At(c, "exists")
  /\ IF IdOf(c) \in DOMAIN kv THEN Return(c, "exists", call[c].user)
                              ELSE Goto(c, "create")
  /\ UNCHANGED <<kv, idx>>

\* json.Marshal(user) drops the password, whose field is tagged json:"-".
CreateExec(c) ==
  /\ At(c, "create")
  /\ kv' = Put(kv, IdOf(c), [Arg(c) EXCEPT !.pw = ""])
  /\ idx' = Put(idx, Arg(c).email, IdOf(c))
  /\ Answer(c, call[c].user)

-----------------------------------------------------------------------------
(* GetUserByEmail: HGET, then GetUserById.  GetUserById: GET, and GET again *)
(* in getUserFull, whose result is the one returned.                        *)

GetUserByEmail(c, e) == Enter(c, "GetUserByEmail", e, "hget", {}, {})

GetIndex(c) ==
  /\ At(c, "hget")
  /\ IF call[c].key \in DOMAIN idx
     THEN /\ call' = [call EXCEPT ![c].at = "get", ![c].id = {idx[call[c].key]}]
          /\ UNCHANGED reply
     ELSE Return(c, "notfound", {})
  /\ UNCHANGED <<kv, idx>>

GetUserById(c, i) == Enter(c, "GetUserById", i, "get", {}, {i})

GetFirst(c) ==
  /\ At(c, "get")
  /\ IF IdOf(c) \in DOMAIN kv THEN Goto(c, "getfull") ELSE Return(c, "notfound", {})
  /\ UNCHANGED <<kv, idx>>

GetFull(c) ==
  /\ At(c, "getfull")
  /\ IF IdOf(c) \in DOMAIN kv THEN Return(c, "nil", {kv[IdOf(c)]})
                              ELSE Return(c, "notfound", {})
  /\ UNCHANGED <<kv, idx>>

-----------------------------------------------------------------------------
(* UpdateUser: GET, HEXISTS if the email changes, MULTI [HDEL HSET] SET EXEC *)

UpdateUser(c, u) == Enter(c, "UpdateUser", u.id, "read", {u}, {u.id})

UpdateRead(c) ==
  /\ At(c, "read") /\ call[c].op = "UpdateUser"
  /\ IF IdOf(c) \notin DOMAIN kv
     THEN Return(c, "notfound", call[c].user)
     ELSE LET old == kv[IdOf(c)].email
          IN  /\ call' = [call EXCEPT ![c].old = {old},
                            ![c].at = IF old = Arg(c).email THEN "update" ELSE "hexists2"]
              /\ UNCHANGED reply
  /\ UNCHANGED <<kv, idx>>

UpdateCheckEmail(c) ==
  /\ At(c, "hexists2")
  /\ IF EmailTaken(Arg(c).email) THEN Return(c, "exists", call[c].user)
                                 ELSE Goto(c, "update")
  /\ UNCHANGED <<kv, idx>>

Reindexed_swapped(i, old, new) == Put(Without(idx, old), i, new)
Reindexed_keepsOld(i, old, new) == Put(idx, new, i)
Reindexed(i, old, new) == IF old = new THEN idx ELSE Put(Without(idx, old), new, i)

UpdateExec(c) ==
  /\ At(c, "update")
  /\ kv' = Put(kv, IdOf(c), Arg(c))
  /\ idx' = Reindexed(IdOf(c), Old(c), Arg(c).email)
  /\ Answer(c, call[c].user)

-----------------------------------------------------------------------------
(* DeleteUser: GET, MULTI DEL HDEL EXEC. *)

DeleteUser(c, i) == Enter(c, "DeleteUser", i, "read", {}, {i})

DeleteRead(c) ==
  /\ At(c, "read") /\ call[c].op = "DeleteUser"
  /\ IF IdOf(c) \notin DOMAIN kv
     THEN Return(c, "notfound", {})
     ELSE /\ call' = [call EXCEPT ![c].old = {kv[IdOf(c)].email}, ![c].at = "delete"]
          /\ UNCHANGED reply
  /\ UNCHANGED <<kv, idx>>

DeleteExec(c) ==
  /\ At(c, "delete")
  /\ kv' = Without(kv, IdOf(c))
  /\ idx' = Without(idx, Old(c))
  /\ Answer(c, {})

-----------------------------------------------------------------------------
\* Any command can fail before it takes effect, which ends the call.
CommandFails(c) ==
  /\ Faults /\ ~At(c, "idle")
  /\ Return(c, "fault", call[c].user)
  /\ UNCHANGED <<kv, idx>>

Begin(c) == \/ \E u \in UsersOf(c) : CreateUser(c, u) \/ UpdateUser(c, u)
            \/ \E i \in IdsOf[c] : DeleteUser(c, i)
            \/ \E i \in Ids : GetUserById(c, i)
            \/ \E e \in emailsOf[c] : GetUserByEmail(c, e)

Step(c) == \/ CreateCheckEmail(c) \/ CreateCheckId(c) \/ CreateExec(c)
           \/ GetIndex(c) \/ GetFirst(c) \/ GetFull(c)
           \/ UpdateRead(c) \/ UpdateCheckEmail(c) \/ UpdateExec(c)
           \/ DeleteRead(c) \/ DeleteExec(c)
           \/ CommandFails(c)

Next == /\ \E c \in Clients : Begin(c) \/ Step(c)
        /\ UNCHANGED emailsOf

Spec == Init /\ [][Next]_vars

-----------------------------------------------------------------------------
Call == [op : {"none", "CreateUser", "UpdateUser", "DeleteUser", "GetUserById", "GetUserByEmail"},
         at : {"idle", "hexists", "exists", "create", "hget", "get", "getfull",
               "read", "hexists2", "update", "delete"},
         key : Ids \cup Emails \cup {""}, user : SUBSET User, id : SUBSET Ids, old : SUBSET Emails]
Replies == [op : {"none", "CreateUser", "UpdateUser", "DeleteUser", "GetUserById", "GetUserByEmail"},
            key : Ids \cup Emails \cup {""}, err : {"nil", "exists", "notfound", "fault"},
            user : SUBSET User]

TypeOK ==
  /\ kv \in MapsOf(Ids, User)
  /\ idx \in MapsOf(Emails, Ids)
  /\ call \in [Clients -> Call]
  /\ reply \in Replies
  /\ emailsOf \in Sharings

\* Every entry of the email index leads to a stored user that has that
\* email.  It needs more than the transactions: the email a transaction
\* removes from the index was read before it, so it stays true only if no
\* user has two writers at a time.
IndexSound ==
  \A e \in DOMAIN idx : idx[e] \in DOMAIN kv /\ kv[idx[e]].email = e

\* "CreateUser should reject duplicate emails"
\* (docs/guides/storage-adapters.md): no two stored users share an email.
EmailsUnique ==
  \A i, j \in DOMAIN kv : kv[i].email = kv[j].email => i = j

\* When users and emails are partitioned among the writers, and nobody looks
\* up an email another writer may move, the adapter is the table of UserStore
\* but for one thing: the interleaved commands, the double read of
\* GetUserById and the lost answers do not show.
WithPassword(u) == [id |-> u.id, email |-> u.email, attrs |-> <<u.attrs, u.pw>>]
Abstract == INSTANCE UserStore WITH
              Attrs <- Attrs \X {"hash", ""},
              store <- [i \in DOMAIN kv |-> WithPassword(kv[i])],
              reply <- [reply EXCEPT !.user = {WithPassword(u) : u \in @}]

\* A user is created without the password it was given: only UpdateUser
\* stores what docs/guides/storage-adapters.md asks to store as it is.
LosesPassword(u) ==
  /\ Abstract!Insert(WithPassword([u EXCEPT !.pw = ""]))
  /\ reply' \in {[op |-> "CreateUser", key |-> u.id, err |-> err, user |-> {u}] :
                 err \in {"nil", "fault"}}

Partitioned == \A c, d \in Clients : c # d => emailsOf[c] \cap emailsOf[d] = {}

ImplementsUserStore ==
  /\ Abstract!Init
  /\ [][Partitioned => Abstract!Next \/ \E u \in User : LosesPassword(u)]_(Abstract!vars)
=============================================================================
