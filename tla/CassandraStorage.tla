-------------------------- MODULE CassandraStorage --------------------------
(***************************************************************************)
(* storage/cassandra: one table keyed by ID, with an index on email that   *)
(* makes lookups possible and forbids nothing.                             *)
(*                                                                         *)
(* The writes are a read followed by a write, with other clients between.  *)
(* INSERT is conditional (IF NOT EXISTS).  UPDATE and DELETE are not, and  *)
(* an UPDATE of a row that is not there makes it.  One statement is atomic *)
(* (one replica, one coordinator's clock).                                 *)
(*                                                                         *)
(* Clients are the goroutines and processes that call the adapter.  With   *)
(* Faults a statement, or its answer, can be lost.                         *)
(***************************************************************************)
EXTENDS GoMaps

CONSTANTS Clients, Ids, Emails, Attrs, Faults

ASSUME FaultsAssumption == Faults \in BOOLEAN

VARIABLES rows,     \* the users table: ID -> user
          call,     \* the write each client is in
          reply     \* the latest call that returned, as in UserStore
vars == <<rows, call, reply>>

User == [id : Ids, email : Emails, attrs : Attrs]

NoReply == [op |-> "none", key |-> "", err |-> "nil", user |-> {}]
Idle == [op |-> "none", at |-> "idle", id |-> {}, user |-> {}]

Init == /\ rows = EmptyMap
        /\ call = [c \in Clients |-> Idle]
        /\ reply = NoReply

ID(c) == CHOOSE i \in call[c].id : TRUE
Arg(c) == CHOOSE u \in call[c].user : TRUE

At(c, step) == call[c].at = step
Goto(c, step) == call' = [call EXCEPT ![c].at = step] /\ UNCHANGED reply
Return(c, err) ==
  /\ call' = [call EXCEPT ![c] = Idle]
  /\ reply' = [op |-> call[c].op, key |-> ID(c), err |-> err, user |-> call[c].user]
Answer(c) == Return(c, "nil") \/ (Faults /\ Return(c, "fault"))

Enter(c, op, first, id, user) ==
  /\ At(c, "idle")
  /\ call' = [call EXCEPT ![c] = [op |-> op, at |-> first, id |-> {id}, user |-> user]]
  /\ UNCHANGED <<rows, reply>>

-----------------------------------------------------------------------------
(* CreateUser: SELECT by email, INSERT ... IF NOT EXISTS. *)

CreateUser(c, u) == Enter(c, "CreateUser", "select", u.id, {u})

EmailTaken(e) == \E i \in DOMAIN rows : rows[i].email = e

\* Only a SELECT that succeeds rejects: one that fails counts as no such user.
CreateCheckEmail(c) ==
  /\ At(c, "select")
  /\ \/ EmailTaken(Arg(c).email) /\ Return(c, "exists")
     \/ (~EmailTaken(Arg(c).email) \/ Faults) /\ Goto(c, "insert")
  /\ UNCHANGED rows

\* An insert that was not applied answers with the row that is there, which
\* ScanCAS is given no room for: it fails, or reports ErrUserAlreadyExists.
CreateInsert_byEmail(c) ==
  /\ At(c, "insert")
  /\ rows' = Put(rows, Arg(c).email, Arg(c))
  /\ Answer(c)
CreateInsert_always(c) ==
  /\ At(c, "insert")
  /\ rows' = Put(rows, ID(c), Arg(c))
  /\ Answer(c)
CreateInsert(c) ==
  /\ At(c, "insert")
  /\ IF ID(c) \in DOMAIN rows
     THEN UNCHANGED rows /\ (Return(c, "exists") \/ Return(c, "fault"))
     ELSE rows' = Put(rows, ID(c), Arg(c)) /\ Answer(c)

-----------------------------------------------------------------------------
(* The lookups are one SELECT, and by email it takes any one row that fits. *)

Lookup(op, key, hits) ==
  /\ \/ \E u \in hits : reply' = [op |-> op, key |-> key, err |-> "nil", user |-> {u}]
     \/ hits = {} /\ reply' = [op |-> op, key |-> key, err |-> "notfound", user |-> {}]
     \/ Faults /\ reply' = [op |-> op, key |-> key, err |-> "fault", user |-> {}]
  /\ UNCHANGED <<rows, call>>

GetUserByEmail(e) ==
  Lookup("GetUserByEmail", e, {rows[i] : i \in {j \in DOMAIN rows : rows[j].email = e}})
GetUserById(i) == Lookup("GetUserById", i, {rows[j] : j \in DOMAIN rows \cap {i}})

-----------------------------------------------------------------------------
(* UpdateUser and DeleteUser: GetUserById, then UPDATE or DELETE. *)

UpdateUser(c, u) == Enter(c, "UpdateUser", "exists", u.id, {u})
DeleteUser(c, i) == Enter(c, "DeleteUser", "exists", i, {})

CheckExists(c) ==
  /\ At(c, "exists")
  /\ IF ID(c) \in DOMAIN rows THEN Goto(c, call[c].op) ELSE Return(c, "notfound")
  /\ UNCHANGED rows

UpdateExec(c) ==
  /\ At(c, "UpdateUser")
  /\ rows' = Put(rows, ID(c), Arg(c))
  /\ Answer(c)

DeleteExec(c) ==
  /\ At(c, "DeleteUser")
  /\ rows' = Without(rows, ID(c))
  /\ Answer(c)

\* Any statement but the first of CreateUser ends the call when it fails.
StatementFails(c) ==
  /\ Faults /\ call[c].at \notin {"idle", "select"}
  /\ Return(c, "fault")
  /\ UNCHANGED rows

Step(c) == \/ CreateCheckEmail(c) \/ CreateInsert(c)
           \/ CheckExists(c) \/ UpdateExec(c) \/ DeleteExec(c)
           \/ StatementFails(c)

Next == \/ \E c \in Clients :
             \/ \E u \in User : CreateUser(c, u) \/ UpdateUser(c, u)
             \/ \E i \in Ids : DeleteUser(c, i)
             \/ Step(c)
        \/ \E i \in Ids : GetUserById(i)
        \/ \E e \in Emails : GetUserByEmail(e)

Spec == Init /\ [][Next]_vars

-----------------------------------------------------------------------------
Call == [op : {"none", "CreateUser", "UpdateUser", "DeleteUser"},
         at : {"idle", "select", "insert", "exists", "UpdateUser", "DeleteUser"},
         id : SUBSET Ids, user : SUBSET User]

TypeOK ==
  /\ rows \in MapsOf(Ids, User)
  /\ call \in [Clients -> Call]
  /\ reply.err \in {"nil", "exists", "notfound", "fault"}
  /\ reply.user \subseteq User

\* However the two statements of the writes interleave, fail or lose their
\* answers, the adapter is the table of UserStore but for three deviations.
Abstract == INSTANCE UserStore WITH store <- rows

Answered(op, key, user) ==
  reply' \in {Abstract!Reply(op, key, err, user) : err \in {"nil", "fault"}}

\* The email was free when it was looked for, or UpdateUser did not look.
SharedEmail(u) ==
  /\ EmailTaken(u.email)
  /\ rows' = Put(rows, u.id, u)
  /\ IF u.id \in DOMAIN rows THEN Answered("UpdateUser", u.id, {u})
                             ELSE Answered("CreateUser", u.id, {u})

\* The user was deleted after UpdateUser saw it: the UPDATE makes it again.
Revive(u) ==
  /\ u.id \notin DOMAIN rows
  /\ rows' = Put(rows, u.id, u)
  /\ Answered("UpdateUser", u.id, {u})

\* The user was deleted after DeleteUser saw it.
DeleteNothing(i) ==
  /\ i \notin DOMAIN rows
  /\ UNCHANGED rows
  /\ Answered("DeleteUser", i, {})

Deviation == \/ \E u \in User : SharedEmail(u) \/ Revive(u)
             \/ \E i \in Ids : DeleteNothing(i)

ImplementsUserStore ==
  Abstract!Init /\ [][Abstract!Next \/ Deviation]_(Abstract!vars)
=============================================================================
