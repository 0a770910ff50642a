--------------------------- MODULE TableStorage -----------------------------
(***************************************************************************)
(* The adapters that leave the work to a database: storage/sqlite,         *)
(* storage/mysql, storage/postgres, storage/sql and storage/mongodb.  An   *)
(* operation is one statement, and the database makes it atomic, keeps IDs *)
(* unique and, where the adapter created the index, emails too.  What is   *)
(* left to get right is what the adapter makes of the statement's outcome. *)
(*                                                                         *)
(* updated_at is the column an update changes even if nothing else does: a *)
(* time, in the units the column keeps.  New makes a table, or an index,   *)
(* that keeps emails unique; NewFromDB and NewFromClient take what they    *)
(* find, here one that keeps IDs unique and nothing else.  storage/sql is  *)
(* like New of the database behind its driver once AutoMigrate has run,    *)
(* and like NewFromDB before.                                              *)
(***************************************************************************)
EXTENDS GoMaps, Naturals

CONSTANTS Ids, Emails, Attrs,
          Adapters,    \* the adapters considered
          Faults,      \* a statement or its answer can be lost
          MaxTime      \* bound of the clock

ASSUME AdaptersAssumption ==
  /\ Adapters \subseteq {"sqlite.New", "postgres.New", "mysql.New", "mongodb.New", "sqlite.NewFromDB",
                         "postgres.NewFromDB", "mysql.NewFromDB", "mongodb.NewFromClient"}
  /\ Faults \in BOOLEAN /\ MaxTime \in Nat

VARIABLES adapter,    \* the one in use
          now,        \* the clock
          table, reply
vars == <<adapter, now, table, reply>>

\* Whether the database keeps emails unique, as it does where New saw to it.
UniqueEmail == adapter \in {"sqlite.New", "postgres.New", "mysql.New", "mongodb.New"}

\* Whether an update counts the rows it changed, and not those it found.
ChangedRows == adapter \in {"mysql.New", "mysql.NewFromDB"}

\* Whether CreateUser calls every error ErrUserAlreadyExists.
OnlyExists == adapter \notin {"mongodb.New", "mongodb.NewFromClient"}

User == [id : Ids, email : Emails, attrs : Attrs]
Row == [user : User, updatedAt : 0..MaxTime]

NoReply == [op |-> "none", key |-> "", err |-> "nil", user |-> {}]
Return(op, key, err, user) == reply' = [op |-> op, key |-> key, err |-> err, user |-> user]

Init == /\ adapter \in Adapters
        /\ now = 0
        /\ table = EmptyMap
        /\ reply = NoReply

\* The database refuses an email another row has.
Clash_never(u) == FALSE
Clash(u) == UniqueEmail /\ \E i \in DOMAIN table \ {u.id} : table[i].user.email = u.email

Stamped_ahead(u) == [user |-> u, updatedAt |-> now + 1]
Stamped(u) == [user |-> u, updatedAt |-> now]

-----------------------------------------------------------------------------
\* What CreateUser makes of the error of its INSERT.
InsertError(duplicate) == IF OnlyExists \/ duplicate THEN "exists" ELSE "fault"

CreateUser(u) ==
  LET refused == u.id \in DOMAIN table \/ Clash(u)
      stored == table' = Put(table, u.id, Stamped(u))
  IN  /\ \/ /\ ~refused /\ stored
            /\ Return("CreateUser", u.id, "nil", {u})
         \/ /\ refused /\ UNCHANGED table
            /\ Return("CreateUser", u.id, InsertError(TRUE), {u})
         \/ /\ Faults
            /\ UNCHANGED table \/ (~refused /\ stored)
            /\ Return("CreateUser", u.id, InsertError(FALSE), {u})
      /\ UNCHANGED <<adapter, now>>

Lookup(op, key, hits) ==
  /\ \/ \E u \in hits : Return(op, key, "nil", {u})
     \/ hits = {} /\ Return(op, key, "notfound", {})
     \/ Faults /\ Return(op, key, "fault", {})
  /\ UNCHANGED <<adapter, now, table>>

GetUserByEmail(e) ==
  Lookup("GetUserByEmail", e, {table[i].user : i \in {j \in DOMAIN table : table[j].user.email = e}})

GetUserById(i) == Lookup("GetUserById", i, {table[j].user : j \in DOMAIN table \cap {i}})

\* RowsAffected, or the MatchedCount of MongoDB.
RowsAffected_all(u) == 1
RowsAffected(u) ==
  IF u.id \notin DOMAIN table \/ (ChangedRows /\ table[u.id] = Stamped(u)) THEN 0 ELSE 1

UpdateUser(u) ==
  LET refused == u.id \in DOMAIN table /\ Clash(u)
      updated == table' = IF u.id \in DOMAIN table THEN Put(table, u.id, Stamped(u)) ELSE table
  IN  /\ \/ /\ ~refused /\ updated
            /\ Return("UpdateUser", u.id, IF RowsAffected(u) = 0 THEN "notfound" ELSE "nil", {u})
         \/ /\ refused /\ UNCHANGED table
            /\ Return("UpdateUser", u.id, "fault", {u})
         \/ /\ Faults
            /\ UNCHANGED table \/ (~refused /\ updated)
            /\ Return("UpdateUser", u.id, "fault", {u})
      /\ UNCHANGED <<adapter, now>>

DeleteUser(i) ==
  /\ \/ /\ table' = Without(table, i)
        /\ Return("DeleteUser", i, IF i \in DOMAIN table THEN "nil" ELSE "notfound", {})
     \/ /\ Faults
        /\ UNCHANGED table \/ table' = Without(table, i)
        /\ Return("DeleteUser", i, "fault", {})
  /\ UNCHANGED <<adapter, now>>

Tick == /\ now < MaxTime
        /\ now' = now + 1
        /\ UNCHANGED <<adapter, table, reply>>

Next == \/ \E u \in User : CreateUser(u) \/ UpdateUser(u)
        \/ \E i \in Ids : GetUserById(i) \/ DeleteUser(i)
        \/ \E e \in Emails : GetUserByEmail(e)
        \/ Tick

Spec == Init /\ [][Next]_vars

-----------------------------------------------------------------------------
TypeOK == /\ adapter \in Adapters /\ now \in 0..MaxTime
          /\ table \in MapsOf(Ids, Row)
          /\ reply.err \in {"nil", "exists", "notfound", "fault"}
          /\ reply.user \subseteq User

\* Each adapter is the table of UserStore, answers that get lost included,
\* but for the deviations below, each of one kind of adapter.
Store == [i \in DOMAIN table |-> table[i].user]
Abstract == INSTANCE UserStore WITH store <- Store

\* MySQL: a user is reported missing when the update left it as it was.
MissedUpdate(u) ==
  /\ ChangedRows
  /\ u.id \in DOMAIN Store /\ Store[u.id] = u
  /\ Store' = Store
  /\ reply' = Abstract!Reply("UpdateUser", u.id, "notfound", {u})

\* SQL: a statement that failed, or whose answer was lost, reports a user
\* that exists, and the table may or may not have it.
MaskedFault(u) ==
  /\ OnlyExists /\ Faults
  /\ Abstract!Insert(u) \/ Store' = Store
  /\ reply' = Abstract!Reply("CreateUser", u.id, "exists", {u})

\* No index: nothing keeps two users from having one email, whatever the
\* answer, if it arrives.
SharedEmail(u) ==
  /\ ~UniqueEmail /\ Abstract!EmailTaken(u.email)
  /\ Store' = Abstract!Put(Store, u.id, u)
  /\ \/ /\ u.id \notin DOMAIN Store
        /\ \E err \in {"nil", InsertError(FALSE)} : reply' = Abstract!Reply("CreateUser", u.id, err, {u})
     \/ /\ u.id \in DOMAIN Store
        /\ \E err \in {"nil", "fault"} : reply' = Abstract!Reply("UpdateUser", u.id, err, {u})

Deviation == \E u \in User : MissedUpdate(u) \/ MaskedFault(u) \/ SharedEmail(u)

ImplementsUserStore ==
  Abstract!Init /\ [][Abstract!Next \/ Deviation]_(Abstract!vars)

\* "CreateUser should reject duplicate emails" (docs/guides/storage-adapters.md):
\* an adapter keeps them unique where it made its table or its index.
EmailsUnique == UniqueEmail => Abstract!EmailsUnique
=============================================================================
