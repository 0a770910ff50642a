------------------------- MODULE RemoteStorageProofs ------------------------
(***************************************************************************)
(* The adapters whose users are kept by a server, for any number of users, *)
(* emails and clients, any clock, and whichever statements fail: first the *)
(* SQL and MongoDB adapters, then Cassandra.                               *)
(***************************************************************************)
EXTENDS TableStorage, GoMapsLemmas

CONSTANT Clients
VARIABLES rows, call

Cassandra == INSTANCE CassandraStorage

\* A row that was just written carries the user and the time.
LEMMA StampedIs ==
  ASSUME TypeOK, NEW u \in User
  PROVE  u.id \in Ids /\ Stamped(u) \in Row /\ Stamped(u).user = u
BY DEF TypeOK, User, Row, Stamped

\* All that an operation can do to the table.
Write == \/ \E u \in User : ~Clash(u) /\ table' = Put(table, u.id, Stamped(u))
         \/ \E i \in Ids : table' = Without(table, i)
         \/ UNCHANGED table

\* The types, and every user under its own ID, with or without an index.
Filed == \A i \in DOMAIN table : table[i].user.id = i

Inv == TypeOK /\ Filed /\ EmailsUnique

\* The database refuses the writes that would give two rows one email, so the
\* table keeps its types and its emails unique.
LEMMA WriteKeeps ==
  ASSUME Inv, Write, UNCHANGED adapter
  PROVE  table' \in MapsOf(Ids, Row) /\ Filed' /\ EmailsUnique'
<1>1. ASSUME NEW u \in User, ~Clash(u), table' = Put(table, u.id, Stamped(u))
      PROVE  table' \in MapsOf(Ids, Row) /\ Filed' /\ EmailsUnique'
  <2>1. u.id \in Ids /\ Stamped(u) \in Row /\ Stamped(u).user = u
    BY StampedIs DEF Inv
  <2>2. table' \in MapsOf(Ids, Row)
    BY <1>1, <2>1, PutType DEF Inv, TypeOK
  <2>3. /\ DOMAIN table' = DOMAIN table \cup {u.id} /\ table'[u.id].user = u
        /\ \A i \in DOMAIN table : i # u.id => table'[i] = table[i]
    BY <1>1, <2>1 DEF Put
  <2>4. Filed'
    BY <2>3 DEF Inv, Filed
  <2>5. ASSUME UniqueEmail
        PROVE  \A i \in DOMAIN table : i # u.id => table[i].user.email # u.email
    BY <1>1, <2>5 DEF Clash
  <2>6. ASSUME UniqueEmail, NEW i \in DOMAIN table', NEW j \in DOMAIN table',
               table'[i].user.email = table'[j].user.email
        PROVE  i = j
    BY <2>3, <2>5, <2>6 DEF Inv, EmailsUnique, Abstract!EmailsUnique, Store
  <2> QED
    BY <2>2, <2>4, <2>6 DEF Filed, EmailsUnique, Abstract!EmailsUnique, Store, UniqueEmail
<1>2. ASSUME NEW k \in Ids, table' = Without(table, k)
      PROVE  table' \in MapsOf(Ids, Row) /\ Filed' /\ EmailsUnique'
  <2>1. table' \in MapsOf(Ids, Row)
    BY <1>2, WithoutType DEF Inv, TypeOK
  <2>2. /\ DOMAIN table' = DOMAIN table \ {k}
        /\ \A i \in DOMAIN table' : table'[i] = table[i]
    BY <1>2 DEF Without, Restrict
  <2> QED
    BY <2>1, <2>2 DEF Inv, Filed, EmailsUnique, Abstract!EmailsUnique, Store, UniqueEmail
<1>3. ASSUME UNCHANGED table
      PROVE  table' \in MapsOf(Ids, Row) /\ Filed' /\ EmailsUnique'
  BY <1>3 DEF Inv, TypeOK, Filed, EmailsUnique, Abstract!EmailsUnique, Store, UniqueEmail
<1> QED
  BY <1>1, <1>2, <1>3 DEF Write

\* An operation leaves the clock and the adapter alone, and answers in kind.
LEMMA OperationKeeps ==
  ASSUME Inv, Write, UNCHANGED <<adapter, now>>,
         reply'.err \in {"nil", "exists", "notfound", "fault"}, reply'.user \subseteq User
  PROVE  Inv'
<1>1. table' \in MapsOf(Ids, Row) /\ Filed' /\ EmailsUnique'
  BY WriteKeeps
<1> QED
  BY <1>1 DEF Inv, TypeOK, Row, User

\* An INSERT that clashes is refused.
LEMMA CreateUserKeeps ==
  ASSUME Inv, NEW u \in User, CreateUser(u)
  PROVE  Inv'
<1>1. Write
  BY DEF CreateUser, Write
<1>2. /\ reply'.err \in {"nil", "exists", "notfound", "fault"} /\ reply'.user \subseteq User
      /\ UNCHANGED <<adapter, now>>
  BY DEF CreateUser, Return, InsertError
<1> QED
  BY <1>1, <1>2, OperationKeeps

\* An UPDATE that clashes is refused.
LEMMA UpdateUserKeeps ==
  ASSUME Inv, NEW u \in User, UpdateUser(u)
  PROVE  Inv'
<1>1. Write
  BY DEF UpdateUser, Write
<1>2. /\ reply'.err \in {"nil", "exists", "notfound", "fault"} /\ reply'.user \subseteq User
      /\ UNCHANGED <<adapter, now>>
  BY DEF UpdateUser, Return
<1> QED
  BY <1>1, <1>2, OperationKeeps

\* A DELETE leaves fewer users to clash.
LEMMA DeleteUserKeeps ==
  ASSUME Inv, NEW i \in Ids, DeleteUser(i)
  PROVE  Inv'
<1>1. Write
  BY DEF DeleteUser, Write
<1>2. /\ reply'.err \in {"nil", "exists", "notfound", "fault"} /\ reply'.user \subseteq User
      /\ UNCHANGED <<adapter, now>>
  BY DEF DeleteUser, Return
<1> QED
  BY <1>1, <1>2, OperationKeeps

\* A SELECT changes nothing.
LEMMA LookupKeeps ==
  ASSUME Inv, NEW op, NEW key, NEW hits \in SUBSET User, Lookup(op, key, hits)
  PROVE  Inv'
<1>1. Write
  BY DEF Lookup, Write
<1>2. /\ reply'.err \in {"nil", "exists", "notfound", "fault"} /\ reply'.user \subseteq User
      /\ UNCHANGED <<adapter, now>>
  BY DEF Lookup, Return
<1> QED
  BY <1>1, <1>2, OperationKeeps

\* What is in the table is a user.
LEMMA UserOfRow ==
  ASSUME Inv, NEW i \in DOMAIN table
  PROVE  table[i].user \in User
<1>1. table[i] \in Row
  BY MapsOfIs DEF Inv, TypeOK
<1> QED
  BY <1>1 DEF Row

\* The invariant holds in every state the adapters can reach.
LEMMA InvHolds == Spec => []Inv
<1>1. Init => Inv
  <2> SUFFICES ASSUME Init
               PROVE  Inv
    OBVIOUS
  <2>1. table \in MapsOf(Ids, Row) /\ DOMAIN table = {}
    BY EmptyMapIs DEF Init
  <2>2. now \in 0..MaxTime
    BY AdaptersAssumption DEF Init
  <2> QED
    BY <2>1, <2>2 DEF Init, NoReply, Inv, TypeOK, Filed, EmailsUnique, Abstract!EmailsUnique, Store
<1>2. Inv /\ [Next]_vars => Inv'
  <2> SUFFICES ASSUME Inv, [Next]_vars
               PROVE  Inv'
    OBVIOUS
  <2>1. ASSUME NEW u \in User, CreateUser(u) \/ UpdateUser(u)
        PROVE  Inv'
    BY <2>1, CreateUserKeeps, UpdateUserKeeps
  <2>2. ASSUME NEW i \in Ids, DeleteUser(i)
        PROVE  Inv'
    BY <2>2, DeleteUserKeeps
  <2>3. ASSUME NEW i \in Ids, GetUserById(i)
        PROVE  Inv'
    <3>1. {table[j].user : j \in DOMAIN table \cap {i}} \in SUBSET User
      BY UserOfRow
    <3> QED
      BY <2>3, <3>1, LookupKeeps DEF GetUserById
  <2>4. ASSUME NEW e \in Emails, GetUserByEmail(e)
        PROVE  Inv'
    <3>1. {table[i].user : i \in {j \in DOMAIN table : table[j].user.email = e}} \in SUBSET User
      BY UserOfRow
    <3> QED
      BY <2>4, <3>1, LookupKeeps DEF GetUserByEmail
  <2>5. ASSUME Tick \/ UNCHANGED vars
        PROVE  Inv'
    <3>1. adapter' = adapter /\ table' = table /\ reply' = reply /\ now' \in 0..MaxTime
      BY <2>5, AdaptersAssumption DEF Tick, vars, Inv, TypeOK
    <3> QED
      BY <3>1 DEF Inv, TypeOK, Filed, Row, User, EmailsUnique, Abstract!EmailsUnique, Store, UniqueEmail
  <2> QED
    BY <2>1, <2>2, <2>3, <2>4, <2>5 DEF Next
<1> QED
  BY <1>1, <1>2, PTL DEF Spec

-----------------------------------------------------------------------------
\* The clock, the rows and the replies keep their types.
THEOREM TypeCorrect == Spec => []TypeOK
BY InvHolds, PTL DEF Inv

\* With an index, no two users ever share an email, whatever statements fail.
THEOREM TableEmailsUnique == Spec => []EmailsUnique
BY InvHolds, PTL DEF Inv

-----------------------------------------------------------------------------
(* Each operation is one of UserStore's, or one of the known deviations.    *)

\* The table of UserStore is the table without the times.
LEMMA StoreIs ==
  /\ DOMAIN Store = DOMAIN table
  /\ \A i \in DOMAIN table : Store[i] = table[i].user
  /\ UNCHANGED table => Store' = Store
BY DEF Store

\* Writing a row there writes the user.
LEMMA StoredIs ==
  ASSUME NEW u \in User, table' = Put(table, u.id, Stamped(u))
  PROVE  Store' = Abstract!Put(Store, u.id, u)
BY DEF Store, Put, Abstract!Put, Stamped

\* If the database does not refuse the email, nobody else has it, or there is
\* no index.
LEMMA NoClashIs ==
  ASSUME NEW u \in User, ~Clash(u)
  PROVE  \/ \A i \in DOMAIN Store : i # u.id => Store[i].email # u.email
         \/ ~UniqueEmail /\ Abstract!EmailTaken(u.email)
BY DEF Clash, Store, Abstract!EmailTaken

\* An INSERT is UserStore's CreateUser; but an adapter that calls every error
\* "exists" hides a failure, and without an index the email may be shared.
LEMMA CreateUserImplements ==
  ASSUME NEW u \in User, CreateUser(u)
  PROVE  Abstract!CreateUser(u) \/ MaskedFault(u) \/ SharedEmail(u)
<1> DEFINE answer(err) == reply' = Abstract!Reply("CreateUser", u.id, err, {u})
<1>1. \A err : Return("CreateUser", u.id, err, {u}) => answer(err)
  BY DEF Return, Abstract!Reply
<1> HIDE DEF answer
<1>2. ASSUME u.id \notin DOMAIN table, ~Clash(u), table' = Put(table, u.id, Stamped(u))
      PROVE  \/ Abstract!Insert(u)
             \/ ~UniqueEmail /\ Abstract!EmailTaken(u.email) /\ Store' = Abstract!Put(Store, u.id, u)
  BY <1>2, StoreIs, StoredIs, NoClashIs DEF Abstract!Insert, Abstract!EmailTaken
<1>3. ASSUME u.id \notin DOMAIN table, ~Clash(u), table' = Put(table, u.id, Stamped(u)), answer("nil")
      PROVE  Abstract!CreateUser(u) \/ SharedEmail(u)
  BY <1>2, <1>3, StoreIs DEF Abstract!CreateUser, SharedEmail, answer
<1>4. ASSUME u.id \in DOMAIN table \/ Clash(u), UNCHANGED table, answer("exists")
      PROVE  Abstract!CreateUser(u)
  <2>1. u.id \in DOMAIN Store \/ Abstract!EmailTaken(u.email)
    BY <1>4 DEF Clash, Store, Abstract!EmailTaken
  <2> QED
    BY <1>4, <2>1, StoreIs DEF Abstract!CreateUser, answer
<1>5. ASSUME Faults,
             \/ UNCHANGED table
             \/ u.id \notin DOMAIN table /\ ~Clash(u) /\ table' = Put(table, u.id, Stamped(u)),
             answer(InsertError(FALSE))
      PROVE  Abstract!CreateUser(u) \/ MaskedFault(u) \/ SharedEmail(u)
  <2>1. \/ Abstract!Insert(u) \/ Store' = Store
        \/ /\ u.id \notin DOMAIN Store /\ ~UniqueEmail /\ Abstract!EmailTaken(u.email)
           /\ Store' = Abstract!Put(Store, u.id, u)
    BY <1>2, <1>5, StoreIs
  <2>2. CASE Abstract!Insert(u) \/ Store' = Store
    BY <1>5, <2>2 DEF Abstract!CreateUser, MaskedFault, InsertError, answer
  <2>3. CASE /\ u.id \notin DOMAIN Store /\ ~UniqueEmail /\ Abstract!EmailTaken(u.email)
             /\ Store' = Abstract!Put(Store, u.id, u)
    BY <1>5, <2>3 DEF SharedEmail, answer
  <2> QED
    BY <2>1, <2>2, <2>3
<1>6. InsertError(TRUE) = "exists"
  BY DEF InsertError
<1> QED
  BY <1>1, <1>3, <1>4, <1>5, <1>6 DEF CreateUser

\* An UPDATE is its UpdateUser; but MySQL, which counts the rows that changed,
\* may count none, and without an index the email may be shared.
LEMMA UpdateUserImplements ==
  ASSUME NEW u \in User, UpdateUser(u)
  PROVE  Abstract!UpdateUser(u) \/ MissedUpdate(u) \/ SharedEmail(u)
<1> DEFINE answer(err) == reply' = Abstract!Reply("UpdateUser", u.id, err, {u})
<1>1. \A err : Return("UpdateUser", u.id, err, {u}) => answer(err)
  BY DEF Return, Abstract!Reply
<1> HIDE DEF answer
<1>2. ASSUME u.id \in DOMAIN table, ~Clash(u), table' = Put(table, u.id, Stamped(u))
      PROVE  \/ Abstract!Replace(u)
             \/ ~UniqueEmail /\ Abstract!EmailTaken(u.email) /\ Store' = Abstract!Put(Store, u.id, u)
  BY <1>2, StoreIs, StoredIs, NoClashIs DEF Abstract!Replace, Abstract!EmailTaken
<1>3. ASSUME u.id \in DOMAIN table, ~Clash(u), table' = Put(table, u.id, Stamped(u)),
             answer(IF RowsAffected(u) = 0 THEN "notfound" ELSE "nil")
      PROVE  Abstract!UpdateUser(u) \/ MissedUpdate(u) \/ SharedEmail(u)
  <2>1. CASE RowsAffected(u) = 0
    <3>1. ChangedRows /\ table[u.id] = Stamped(u)
      BY <1>3, <2>1 DEF RowsAffected
    <3>2. Store[u.id] = u
      BY <1>3, <3>1, StoreIs DEF Stamped
    <3>3. Store' = Store
      <4>1. DOMAIN table' = DOMAIN table /\ \A i \in DOMAIN table : table'[i] = table[i]
        BY <1>3, <3>1 DEF Put
      <4> QED
        BY <4>1 DEF Store
    <3> QED
      BY <1>3, <2>1, <3>1, <3>2, <3>3, StoreIs DEF MissedUpdate, answer
  <2>2. CASE RowsAffected(u) # 0
    BY <1>2, <1>3, <2>2, StoreIs DEF Abstract!UpdateUser, SharedEmail, answer
  <2> QED
    BY <2>1, <2>2
<1>4. ASSUME u.id \notin DOMAIN table, UNCHANGED table,
             answer(IF RowsAffected(u) = 0 THEN "notfound" ELSE "nil")
      PROVE  Abstract!UpdateUser(u)
  BY <1>4, StoreIs DEF Abstract!UpdateUser, RowsAffected, answer
<1>5. ASSUME UNCHANGED table, answer("fault")
      PROVE  Abstract!UpdateUser(u)
  BY <1>5, StoreIs DEF Abstract!UpdateUser, answer
<1>6. ASSUME u.id \in DOMAIN table, ~Clash(u), table' = Put(table, u.id, Stamped(u)), answer("fault")
      PROVE  Abstract!UpdateUser(u) \/ SharedEmail(u)
  BY <1>2, <1>6, StoreIs DEF Abstract!UpdateUser, SharedEmail, answer
<1> QED
  BY <1>1, <1>3, <1>4, <1>5, <1>6 DEF UpdateUser

\* A DELETE is its DeleteUser.
LEMMA DeleteUserImplements ==
  ASSUME NEW i \in Ids, DeleteUser(i)
  PROVE  Abstract!DeleteUser(i)
<1>1. ASSUME table' = Without(table, i)
      PROVE  IF i \in DOMAIN Store THEN Abstract!Remove(i) ELSE Store' = Store
  BY <1>1 DEF Store, Without, Restrict, Abstract!Remove, Abstract!Without, Abstract!Restrict
<1> QED
  BY <1>1, StoreIs DEF DeleteUser, Abstract!DeleteUser, Return, Abstract!Reply

\* A SELECT finds the users UserStore finds.
LEMMA LookupsImplement ==
  /\ \A i \in Ids : GetUserById(i) => Abstract!GetUserById(i)
  /\ \A e \in Emails : GetUserByEmail(e) => Abstract!GetUserByEmail(e)
<1>1. ASSUME NEW i \in Ids, GetUserById(i)
      PROVE  Abstract!GetUserById(i)
  <2> DEFINE hits == {table[j].user : j \in DOMAIN table \cap {i}}
  <2>1. hits = {Store[j] : j \in DOMAIN Store \cap {i}}
    BY DEF Store
  <2>2. hits = {} \/ \E u \in hits : hits = {u}
    OBVIOUS
  <2>3. Lookup("GetUserById", i, hits)
    BY <1>1 DEF GetUserById
  <2> HIDE DEF hits
  <2> QED
    BY <2>1, <2>2, <2>3, StoreIs DEF Lookup, Return, Abstract!GetUserById, Abstract!Reply
<1>2. ASSUME NEW e \in Emails, GetUserByEmail(e)
      PROVE  Abstract!GetUserByEmail(e)
  <2> DEFINE hits == {table[i].user : i \in {j \in DOMAIN table : table[j].user.email = e}}
  <2>1. hits = {Store[i] : i \in {j \in DOMAIN Store : Store[j].email = e}}
    BY DEF Store
  <2>2. Lookup("GetUserByEmail", e, hits)
    BY <1>2 DEF GetUserByEmail
  <2> HIDE DEF hits
  <2> QED
    BY <2>1, <2>2, StoreIs DEF Lookup, Return, Abstract!GetUserByEmail, Abstract!Reply
<1> QED
  BY <1>1, <1>2

\* Every adapter is the table of UserStore, up to the deviations that are
\* named, and those occur only in the adapters named with them.
THEOREM TableImplements == Spec => ImplementsUserStore
<1>1. Init => Abstract!Init
  BY DEF Init, NoReply, Store, EmptyMap, Abstract!Init, Abstract!NoReply, Abstract!EmptyMap
<1>2. [Next]_vars => [Abstract!Next \/ Deviation]_(Abstract!vars)
  <2>1. Abstract!User = User
    BY DEF Abstract!User, User
  <2>2. ASSUME NEW u \in User, CreateUser(u) \/ UpdateUser(u)
        PROVE  Abstract!Next \/ Deviation
    BY <2>1, <2>2, CreateUserImplements, UpdateUserImplements DEF Abstract!Next, Deviation
  <2>3. ASSUME NEW i \in Ids, GetUserById(i) \/ DeleteUser(i)
        PROVE  Abstract!Next
    BY <2>3, LookupsImplement, DeleteUserImplements DEF Abstract!Next
  <2>4. ASSUME NEW e \in Emails, GetUserByEmail(e)
        PROVE  Abstract!Next
    BY <2>4, LookupsImplement DEF Abstract!Next
  <2>5. ASSUME Tick \/ UNCHANGED vars
        PROVE  UNCHANGED Abstract!vars
    <3>1. table' = table /\ reply' = reply
      BY <2>5 DEF Tick, vars
    <3> QED
      BY <3>1, StoreIs DEF Abstract!vars
  <2> QED
    BY <2>2, <2>3, <2>4, <2>5 DEF Next
<1> QED
  BY <1>1, <1>2, PTL DEF Spec, ImplementsUserStore

\* The adapters with nothing to excuse: MongoDB with its index, whatever gets
\* lost on the way, and SQLite and PostgreSQL as long as nothing does.
Faithful == adapter = "mongodb.New" \/ (~Faults /\ adapter \in {"sqlite.New", "postgres.New"})

\* They are the table of UserStore, with no deviation.
THEOREM FaithfulImplements == Spec /\ Faithful => Abstract!Spec
<1>1. Faithful /\ [Next]_vars => Faithful'
  BY DEF Faithful, Next, CreateUser, UpdateUser, GetUserById, GetUserByEmail, Lookup, DeleteUser, Tick, vars
<1>2. Faithful /\ [Abstract!Next \/ Deviation]_(Abstract!vars) => [Abstract!Next]_(Abstract!vars)
  BY DEF Faithful, Deviation, MissedUpdate, MaskedFault, SharedEmail, ChangedRows, OnlyExists, UniqueEmail
<1>3. Spec => ImplementsUserStore
  BY TableImplements
<1> QED
  BY <1>1, <1>2, <1>3, PTL DEF Spec, ImplementsUserStore, Abstract!Spec

-----------------------------------------------------------------------------
(* Cassandra: two statements to a write, and other clients between them.    *)

\* Its maps are the maps of Go.
LEMMA CassandraMaps ==
  /\ \A K, V : Cassandra!MapsOf(K, V) = MapsOf(K, V)
  /\ \A m, k, v : Cassandra!Put(m, k, v) = Put(m, k, v) /\ Cassandra!Abstract!Put(m, k, v) = Put(m, k, v)
  /\ \A m, k : Cassandra!Without(m, k) = Without(m, k) /\ Cassandra!Abstract!Without(m, k) = Without(m, k)
BY DEF Cassandra!MapsOf, MapsOf, Cassandra!Put, Cassandra!Abstract!Put, Put, Cassandra!Without,
       Cassandra!Abstract!Without, Without, Cassandra!Restrict, Cassandra!Abstract!Restrict, Restrict

\* A call on its way knows the ID it is about and, but for DeleteUser, the
\* user it was given.
Underway(r) ==
  \/ r.at = "idle"
  \/ /\ r.at \in {"select", "insert"} /\ r.op = "CreateUser"
     /\ \E u \in Cassandra!User : r.user = {u} /\ r.id = {u.id}
  \/ /\ r.at \in {"exists", "UpdateUser"} /\ r.op = "UpdateUser"
     /\ \E u \in Cassandra!User : r.user = {u} /\ r.id = {u.id}
  \/ /\ r.at \in {"exists", "DeleteUser"} /\ r.op = "DeleteUser"
     /\ r.user = {} /\ \E i \in Ids : r.id = {i}

CassandraInv == Cassandra!TypeOK /\ \A c \in Clients : Underway(call[c])

\* What a call on its way acts on.
LEMMA ArgumentsAre ==
  ASSUME CassandraInv, NEW c \in Clients, call[c].at # "idle"
  PROVE  /\ call[c].id = {Cassandra!ID(c)} /\ Cassandra!ID(c) \in Ids
         /\ call[c].at \in {"select", "insert"} => call[c].op = "CreateUser"
         /\ call[c].at \in {"UpdateUser", "DeleteUser"} => call[c].op = call[c].at
         /\ call[c].at = "exists" => call[c].op \in {"UpdateUser", "DeleteUser"}
         /\ call[c].op \in {"CreateUser", "UpdateUser"} =>
              /\ call[c].user = {Cassandra!Arg(c)} /\ Cassandra!Arg(c) \in Cassandra!User
              /\ Cassandra!Arg(c).id = Cassandra!ID(c)
         /\ call[c].op = "DeleteUser" => call[c].user = {}
         /\ call[c].op \in {"CreateUser", "UpdateUser", "DeleteUser"}
<1>1. Underway(call[c])
  BY DEF CassandraInv
<1>2. ASSUME NEW i, call[c].id = {i}
      PROVE  Cassandra!ID(c) = i
  BY <1>2 DEF Cassandra!ID
<1>3. ASSUME NEW u, call[c].user = {u}
      PROVE  Cassandra!Arg(c) = u
  BY <1>3 DEF Cassandra!Arg
<1> QED
  BY <1>1, <1>2, <1>3 DEF Underway, Cassandra!User

\* The call of one client moves on, and knows what it has to.
LEMMA OneMoves ==
  ASSUME CassandraInv, NEW c \in Clients, NEW q \in Cassandra!Call, Underway(q),
         call' = [call EXCEPT ![c] = q]
  PROVE  call' \in [Clients -> Cassandra!Call] /\ \A d \in Clients : Underway(call'[d])
BY DEF CassandraInv, Cassandra!TypeOK

\* The next statement of a call.
LEMMA GotoMoves ==
  ASSUME CassandraInv, NEW c \in Clients, NEW step, Cassandra!Goto(c, step),
         \/ call[c].at = "select" /\ step = "insert"
         \/ call[c].at = "exists" /\ step = call[c].op
  PROVE  call' \in [Clients -> Cassandra!Call] /\ \A d \in Clients : Underway(call'[d])
<1> DEFINE q == [call[c] EXCEPT !.at = step]
<1>1. call[c] \in Cassandra!Call /\ call \in [Clients -> Cassandra!Call] /\ Underway(call[c])
  BY DEF CassandraInv, Cassandra!TypeOK
<1>2. call[c].at = "exists" => call[c].op \in {"UpdateUser", "DeleteUser"}
  BY ArgumentsAre
<1>3. /\ q \in Cassandra!Call /\ q.op = call[c].op /\ q.at = step
      /\ q.id = call[c].id /\ q.user = call[c].user
  BY <1>1, <1>2 DEF Cassandra!Call
<1>4. call' = [call EXCEPT ![c] = q]
  BY <1>1 DEF Cassandra!Goto
<1> HIDE DEF q
<1>5. Underway(q)
  BY <1>1, <1>2, <1>3 DEF Underway
<1> QED
  BY <1>3, <1>4, <1>5, OneMoves

\* A call that returns is over, and is answered about its user.
LEMMA ReturnMoves ==
  ASSUME CassandraInv, NEW c \in Clients, call[c].at # "idle",
         NEW err \in {"nil", "exists", "notfound", "fault"}, Cassandra!Return(c, err)
  PROVE  /\ call' \in [Clients -> Cassandra!Call] /\ \A d \in Clients : Underway(call'[d])
         /\ reply' = Cassandra!Abstract!Reply(call[c].op, Cassandra!ID(c), err, call[c].user)
         /\ reply'.err \in {"nil", "exists", "notfound", "fault"}
         /\ reply'.user \subseteq Cassandra!User
<1>1. Cassandra!Idle \in Cassandra!Call /\ Underway(Cassandra!Idle)
  BY DEF Cassandra!Idle, Cassandra!Call, Underway
<1>2. call' = [call EXCEPT ![c] = Cassandra!Idle]
  BY DEF Cassandra!Return
<1>3. reply' = Cassandra!Abstract!Reply(call[c].op, Cassandra!ID(c), err, call[c].user)
  BY DEF Cassandra!Return, Cassandra!Abstract!Reply
<1>4. reply'.err = err /\ reply'.user = call[c].user
  BY <1>3 DEF Cassandra!Abstract!Reply
<1>5. call[c].user \subseteq Cassandra!User
  BY DEF CassandraInv, Cassandra!TypeOK, Cassandra!Call
<1> QED
  BY <1>1, <1>2, <1>3, <1>4, <1>5, OneMoves

\* The parts of the invariant, put together again.
LEMMA CassandraTogether ==
  ASSUME rows' \in MapsOf(Ids, Cassandra!User),
         call' \in [Clients -> Cassandra!Call], \A d \in Clients : Underway(call'[d]),
         reply'.err \in {"nil", "exists", "notfound", "fault"}, reply'.user \subseteq Cassandra!User
  PROVE  CassandraInv'
BY CassandraMaps DEF CassandraInv, Cassandra!TypeOK, Cassandra!MapsOf, MapsOf, Underway, Cassandra!User, Cassandra!Call

\* The second statement of a call, where it does what UserStore does not: the
\* email is taken although the call looked, or did not look; or the row is gone
\* that it found.
Strays(c) ==
  LET u == Cassandra!Arg(c)
      i == Cassandra!ID(c)
  IN  \/ call[c].at = "insert" /\ u \in Cassandra!User /\ i \notin DOMAIN rows /\ Cassandra!SharedEmail(u)
      \/ call[c].at = "UpdateUser" /\ u \in Cassandra!User
         /\ IF i \in DOMAIN rows THEN Cassandra!SharedEmail(u) ELSE Cassandra!Revive(u)
      \/ call[c].at = "DeleteUser" /\ i \in Ids \ DOMAIN rows /\ Cassandra!DeleteNothing(i)

\* What a step may look like to the rest of the framework.
Promised == \/ Cassandra!Abstract!Next
            \/ \E c \in Clients : Strays(c)
            \/ UNCHANGED <<rows, reply>>

\* The calls UserStore knows, for a user, an ID or an email.
LEMMA PromisedIs ==
  /\ \A u \in Cassandra!User :
       Cassandra!Abstract!CreateUser(u) \/ Cassandra!Abstract!UpdateUser(u) => Promised
  /\ \A i \in Ids :
       Cassandra!Abstract!DeleteUser(i) \/ Cassandra!Abstract!GetUserById(i) => Promised
  /\ \A e \in Emails : Cassandra!Abstract!GetUserByEmail(e) => Promised
<1>1. Cassandra!User = Cassandra!Abstract!User
  BY DEF Cassandra!User, Cassandra!Abstract!User
<1> QED
  BY <1>1 DEF Promised, Cassandra!Abstract!Next

\* A call that begins touches nothing.
LEMMA EnterKeeps ==
  ASSUME CassandraInv, NEW c \in Clients,
         \/ \E u \in Cassandra!User : Cassandra!CreateUser(c, u) \/ Cassandra!UpdateUser(c, u)
         \/ \E i \in Ids : Cassandra!DeleteUser(c, i)
  PROVE  CassandraInv' /\ Promised
<1>1. PICK op \in {"CreateUser", "UpdateUser", "DeleteUser"}, first \in {"select", "exists"},
           i \in Ids, user \in SUBSET Cassandra!User :
        /\ Cassandra!Enter(c, op, first, i, user)
        /\ \/ op = "CreateUser" /\ first = "select" /\ \E u \in Cassandra!User : user = {u} /\ i = u.id
           \/ op = "UpdateUser" /\ first = "exists" /\ \E u \in Cassandra!User : user = {u} /\ i = u.id
           \/ op = "DeleteUser" /\ first = "exists" /\ user = {}
  <2>1. ASSUME NEW u \in Cassandra!User
        PROVE  u.id \in Ids /\ {u} \in SUBSET Cassandra!User
    BY DEF Cassandra!User
  <2> QED
    BY <2>1 DEF Cassandra!CreateUser, Cassandra!UpdateUser, Cassandra!DeleteUser
<1> DEFINE q == [op |-> op, at |-> first, id |-> {i}, user |-> user]
<1>2. q \in Cassandra!Call
  BY <1>1 DEF Cassandra!Call
<1>3. Underway(q)
  BY <1>1 DEF Underway
<1>4. call' = [call EXCEPT ![c] = q] /\ rows' = rows /\ reply' = reply
  BY <1>1 DEF Cassandra!Enter
<1> HIDE DEF q
<1>5. call' \in [Clients -> Cassandra!Call] /\ \A d \in Clients : Underway(call'[d])
  BY <1>2, <1>3, <1>4, OneMoves
<1> QED
  BY <1>4, <1>5, CassandraTogether, CassandraMaps DEF CassandraInv, Cassandra!TypeOK, Promised

\* CreateUser looks for the email first; that it was free then is all it knows.
LEMMA CreateCheckEmailKeeps ==
  ASSUME CassandraInv, NEW c \in Clients, Cassandra!CreateCheckEmail(c)
  PROVE  CassandraInv' /\ Promised
<1> DEFINE u == Cassandra!Arg(c)
<1>1. /\ call[c].at = "select" /\ call[c].op = "CreateUser" /\ call[c].user = {u}
      /\ u \in Cassandra!User /\ u.id = Cassandra!ID(c)
  BY ArgumentsAre DEF Cassandra!CreateCheckEmail, Cassandra!At
<1>2. rows' = rows /\ rows \in MapsOf(Ids, Cassandra!User)
  BY CassandraMaps DEF Cassandra!CreateCheckEmail, CassandraInv, Cassandra!TypeOK
<1> HIDE DEF u
<1>3. ASSUME Cassandra!EmailTaken(u.email), Cassandra!Return(c, "exists")
      PROVE  CassandraInv' /\ Promised
  <2>1. Cassandra!Abstract!CreateUser(u)
    BY <1>1, <1>2, <1>3, ReturnMoves
       DEF Cassandra!Abstract!CreateUser, Cassandra!EmailTaken, Cassandra!Abstract!EmailTaken
  <2> QED
    BY <1>1, <1>2, <1>3, <2>1, ReturnMoves, PromisedIs, CassandraTogether
<1>4. ASSUME Cassandra!Goto(c, "insert")
      PROVE  CassandraInv' /\ Promised
  <2>1. reply' = reply
    BY <1>4 DEF Cassandra!Goto
  <2> QED
    BY <1>1, <1>2, <1>4, <2>1, GotoMoves, CassandraTogether DEF CassandraInv, Cassandra!TypeOK, Promised
<1> QED
  BY <1>3, <1>4 DEF Cassandra!CreateCheckEmail, u

\* The INSERT is conditional on the ID, not on the email.
LEMMA CreateInsertKeeps ==
  ASSUME CassandraInv, NEW c \in Clients, Cassandra!CreateInsert(c)
  PROVE  CassandraInv' /\ Promised
<1> DEFINE u == Cassandra!Arg(c)
<1>1. /\ call[c].at = "insert" /\ call[c].op = "CreateUser" /\ call[c].user = {u}
      /\ u \in Cassandra!User /\ u.id = Cassandra!ID(c) /\ Cassandra!ID(c) \in Ids
  BY ArgumentsAre DEF Cassandra!CreateInsert, Cassandra!At
<1>2. rows \in MapsOf(Ids, Cassandra!User)
  BY CassandraMaps DEF CassandraInv, Cassandra!TypeOK
<1>3. ASSUME u.id \in DOMAIN rows, UNCHANGED rows,
             NEW err \in {"exists", "fault"}, Cassandra!Return(c, err)
      PROVE  CassandraInv' /\ Promised
  <2>1. Cassandra!Abstract!CreateUser(u)
    BY <1>1, <1>3, ReturnMoves DEF Cassandra!Abstract!CreateUser
  <2> QED
    BY <1>1, <1>2, <1>3, <2>1, ReturnMoves, PromisedIs, CassandraTogether
<1>4. ASSUME u.id \notin DOMAIN rows, rows' = Put(rows, u.id, u),
             NEW err \in {"nil", "fault"}, Cassandra!Return(c, err)
      PROVE  CassandraInv' /\ Promised
  <2>1. reply' = Cassandra!Abstract!Reply("CreateUser", u.id, err, {u})
    BY <1>1, <1>4, ReturnMoves
  <2>2. ASSUME Cassandra!EmailTaken(u.email)
        PROVE  Promised
    <3>1. Cassandra!SharedEmail(u)
      BY <1>1, <1>4, <2>1, <2>2, CassandraMaps DEF Cassandra!SharedEmail, Cassandra!Answered
    <3> QED
      BY <1>1, <1>4, <3>1 DEF Promised, Strays
  <2>3. ASSUME ~Cassandra!EmailTaken(u.email)
        PROVE  Promised
    <3>1. Cassandra!Abstract!Insert(u)
      BY <1>4, <2>3, CassandraMaps DEF Cassandra!Abstract!Insert, Cassandra!EmailTaken, Cassandra!Abstract!EmailTaken
    <3> QED
      BY <1>1, <1>4, <2>1, <3>1, PromisedIs DEF Cassandra!Abstract!CreateUser
  <2>4. rows' \in MapsOf(Ids, Cassandra!User)
    BY <1>1, <1>2, <1>4, PutType
  <2>5. CassandraInv'
    BY <1>1, <1>4, <2>4, ReturnMoves, CassandraTogether
  <2>6. Promised
    BY <2>2, <2>3
  <2> QED
    BY <2>5, <2>6
<1>5. \/ /\ u.id \in DOMAIN rows /\ UNCHANGED rows
         /\ \E err \in {"exists", "fault"} : Cassandra!Return(c, err)
      \/ /\ u.id \notin DOMAIN rows /\ rows' = Put(rows, u.id, u)
         /\ \E err \in {"nil", "fault"} : Cassandra!Return(c, err)
  BY <1>1, CassandraMaps DEF Cassandra!CreateInsert, Cassandra!Answer
<1> QED
  BY <1>3, <1>4, <1>5

\* UpdateUser and DeleteUser look for the ID first.
LEMMA CheckExistsKeeps ==
  ASSUME CassandraInv, NEW c \in Clients, Cassandra!CheckExists(c)
  PROVE  CassandraInv' /\ Promised
<1> DEFINE u == Cassandra!Arg(c)
           i == Cassandra!ID(c)
<1>1. /\ call[c].at = "exists" /\ i \in Ids
      /\ \/ call[c].op = "UpdateUser" /\ call[c].user = {u} /\ u \in Cassandra!User /\ u.id = i
         \/ call[c].op = "DeleteUser" /\ call[c].user = {}
  BY ArgumentsAre DEF Cassandra!CheckExists, Cassandra!At
<1>2. rows' = rows /\ rows \in MapsOf(Ids, Cassandra!User)
  BY CassandraMaps DEF Cassandra!CheckExists, CassandraInv, Cassandra!TypeOK
<1>3. ASSUME i \notin DOMAIN rows, Cassandra!Return(c, "notfound")
      PROVE  CassandraInv' /\ Promised
  <2>1. reply' = Cassandra!Abstract!Reply(call[c].op, i, "notfound", call[c].user)
    BY <1>1, <1>3, ReturnMoves
  <2>2. \/ u \in Cassandra!User /\ Cassandra!Abstract!UpdateUser(u)
        \/ Cassandra!Abstract!DeleteUser(i)
    BY <1>1, <1>2, <1>3, <2>1 DEF Cassandra!Abstract!UpdateUser, Cassandra!Abstract!DeleteUser
  <2> QED
    BY <1>1, <1>2, <1>3, <2>2, ReturnMoves, PromisedIs, CassandraTogether
<1>4. ASSUME Cassandra!Goto(c, call[c].op)
      PROVE  CassandraInv' /\ Promised
  <2>1. reply' = reply
    BY <1>4 DEF Cassandra!Goto
  <2> QED
    BY <1>1, <1>2, <1>4, <2>1, GotoMoves, CassandraTogether DEF CassandraInv, Cassandra!TypeOK, Promised
<1> QED
  BY <1>3, <1>4 DEF Cassandra!CheckExists

\* The UPDATE is not conditional: it may share an email or make a row again.
LEMMA UpdateExecKeeps ==
  ASSUME CassandraInv, NEW c \in Clients, Cassandra!UpdateExec(c)
  PROVE  CassandraInv' /\ Promised
<1> DEFINE u == Cassandra!Arg(c)
<1>1. /\ call[c].at = "UpdateUser" /\ call[c].op = "UpdateUser" /\ call[c].user = {u}
      /\ u \in Cassandra!User /\ u.id = Cassandra!ID(c) /\ Cassandra!ID(c) \in Ids
  BY ArgumentsAre DEF Cassandra!UpdateExec, Cassandra!At
<1>2. rows \in MapsOf(Ids, Cassandra!User)
  BY CassandraMaps DEF CassandraInv, Cassandra!TypeOK
<1>3. PICK err \in {"nil", "fault"} : Cassandra!Return(c, err)
  BY DEF Cassandra!UpdateExec, Cassandra!Answer
<1>4. rows' = Put(rows, u.id, u)
  BY <1>1, CassandraMaps DEF Cassandra!UpdateExec
<1>5. reply' = Cassandra!Abstract!Reply("UpdateUser", u.id, err, {u})
  BY <1>1, <1>3, ReturnMoves
<1>6. CassandraInv'
  BY <1>1, <1>2, <1>3, <1>4, PutType, ReturnMoves, CassandraTogether
<1>7. CASE u.id \notin DOMAIN rows
  <2>1. Cassandra!Revive(u)
    BY <1>4, <1>5, <1>7, CassandraMaps DEF Cassandra!Revive, Cassandra!Answered
  <2> QED
    BY <1>1, <1>6, <1>7, <2>1 DEF Promised, Strays
<1>8. CASE u.id \in DOMAIN rows /\ Cassandra!EmailTaken(u.email)
  <2>1. Cassandra!SharedEmail(u)
    BY <1>4, <1>5, <1>8, CassandraMaps DEF Cassandra!SharedEmail, Cassandra!Answered
  <2> QED
    BY <1>1, <1>6, <1>8, <2>1 DEF Promised, Strays
<1>9. CASE u.id \in DOMAIN rows /\ ~Cassandra!EmailTaken(u.email)
  <2>1. Cassandra!Abstract!Replace(u)
    BY <1>4, <1>9, CassandraMaps DEF Cassandra!Abstract!Replace, Cassandra!EmailTaken, Cassandra!Abstract!EmailTaken
  <2> QED
    BY <1>1, <1>5, <1>6, <2>1, PromisedIs DEF Cassandra!Abstract!UpdateUser
<1> QED
  BY <1>7, <1>8, <1>9

\* Nor is the DELETE: the row may be gone.
LEMMA DeleteExecKeeps ==
  ASSUME CassandraInv, NEW c \in Clients, Cassandra!DeleteExec(c)
  PROVE  CassandraInv' /\ Promised
<1> DEFINE i == Cassandra!ID(c)
<1>1. /\ call[c].at = "DeleteUser" /\ call[c].op = "DeleteUser" /\ call[c].user = {}
      /\ i \in Ids
  BY ArgumentsAre DEF Cassandra!DeleteExec, Cassandra!At
<1>2. rows \in MapsOf(Ids, Cassandra!User)
  BY CassandraMaps DEF CassandraInv, Cassandra!TypeOK
<1>3. PICK err \in {"nil", "fault"} : Cassandra!Return(c, err)
  BY DEF Cassandra!DeleteExec, Cassandra!Answer
<1>4. rows' = Without(rows, i)
  BY CassandraMaps DEF Cassandra!DeleteExec
<1>5. reply' = Cassandra!Abstract!Reply("DeleteUser", i, err, {})
  BY <1>1, <1>3, ReturnMoves
<1>6. CassandraInv'
  BY <1>1, <1>2, <1>3, <1>4, WithoutType, ReturnMoves, CassandraTogether
<1>7. CASE i \in DOMAIN rows
  <2>1. Cassandra!Abstract!Remove(i)
    BY <1>4, <1>7, CassandraMaps DEF Cassandra!Abstract!Remove
  <2> QED
    BY <1>1, <1>5, <1>6, <2>1, PromisedIs DEF Cassandra!Abstract!DeleteUser
<1>8. CASE i \notin DOMAIN rows
  <2>1. rows' = rows
    BY <1>2, <1>4, <1>8, MapsOfIs DEF Without, Restrict
  <2>2. Cassandra!DeleteNothing(i)
    BY <1>5, <1>8, <2>1 DEF Cassandra!DeleteNothing, Cassandra!Answered
  <2> QED
    BY <1>1, <1>6, <1>8, <2>2 DEF Promised, Strays
<1> QED
  BY <1>7, <1>8

\* A statement that fails has done nothing, and the caller hears of it.
LEMMA StatementFailsKeeps ==
  ASSUME CassandraInv, NEW c \in Clients, Cassandra!StatementFails(c)
  PROVE  CassandraInv' /\ Promised
<1> DEFINE u == Cassandra!Arg(c)
           i == Cassandra!ID(c)
<1>1. /\ call[c].at # "idle" /\ i \in Ids
      /\ \/ /\ call[c].op \in {"CreateUser", "UpdateUser"} /\ call[c].user = {u}
            /\ u \in Cassandra!User /\ u.id = i
         \/ call[c].op = "DeleteUser" /\ call[c].user = {}
  BY ArgumentsAre DEF Cassandra!StatementFails
<1>2. rows' = rows /\ rows \in MapsOf(Ids, Cassandra!User) /\ Cassandra!Return(c, "fault")
  BY CassandraMaps DEF Cassandra!StatementFails, CassandraInv, Cassandra!TypeOK
<1>3. reply' = Cassandra!Abstract!Reply(call[c].op, i, "fault", call[c].user)
  BY <1>1, <1>2, ReturnMoves
<1>4. \/ /\ u \in Cassandra!User
         /\ Cassandra!Abstract!CreateUser(u) \/ Cassandra!Abstract!UpdateUser(u)
      \/ Cassandra!Abstract!DeleteUser(i)
  BY <1>1, <1>2, <1>3
     DEF Cassandra!Abstract!CreateUser, Cassandra!Abstract!UpdateUser, Cassandra!Abstract!DeleteUser
<1> QED
  BY <1>1, <1>2, <1>4, ReturnMoves, PromisedIs, CassandraTogether

\* A lookup is one statement, and the row it finds is a user.
LEMMA CassandraLookupKeeps ==
  ASSUME CassandraInv, (\E i \in Ids : Cassandra!GetUserById(i)) \/ (\E e \in Emails : Cassandra!GetUserByEmail(e))
  PROVE  CassandraInv' /\ Promised
<1>1. \A i \in DOMAIN rows : rows[i] \in Cassandra!User
  BY MapsOfIs, CassandraMaps DEF CassandraInv, Cassandra!TypeOK
<1>2. ASSUME NEW op, NEW key, NEW hits \in SUBSET Cassandra!User, Cassandra!Lookup(op, key, hits)
      PROVE  CassandraInv'
  <2>1. /\ rows' = rows /\ call' = call
        /\ reply'.err \in {"nil", "exists", "notfound", "fault"} /\ reply'.user \subseteq Cassandra!User
    BY <1>2 DEF Cassandra!Lookup
  <2> QED
    BY <2>1, CassandraTogether, CassandraMaps DEF CassandraInv, Cassandra!TypeOK
<1>3. ASSUME NEW i \in Ids, Cassandra!GetUserById(i)
      PROVE  CassandraInv' /\ Promised
  <2> DEFINE hits == {rows[j] : j \in DOMAIN rows \cap {i}}
  <2>1. hits \in SUBSET Cassandra!User
    BY <1>1
  <2>2. hits = {} \/ \E u \in hits : hits = {u}
    OBVIOUS
  <2>3. Cassandra!Lookup("GetUserById", i, hits)
    BY <1>3 DEF Cassandra!GetUserById
  <2>4. hits = {rows[j] : j \in DOMAIN rows \cap {i}}
    OBVIOUS
  <2> HIDE DEF hits
  <2>5. Cassandra!Abstract!GetUserById(i)
    BY <2>2, <2>3, <2>4 DEF Cassandra!Lookup, Cassandra!Abstract!GetUserById, Cassandra!Abstract!Reply
  <2> QED
    BY <1>2, <2>1, <2>3, <2>5, PromisedIs
<1>4. ASSUME NEW e \in Emails, Cassandra!GetUserByEmail(e)
      PROVE  CassandraInv' /\ Promised
  <2> DEFINE hits == {rows[i] : i \in {j \in DOMAIN rows : rows[j].email = e}}
  <2>1. hits \in SUBSET Cassandra!User
    BY <1>1
  <2>2. Cassandra!Lookup("GetUserByEmail", e, hits)
    BY <1>4 DEF Cassandra!GetUserByEmail
  <2>3. hits = {rows[i] : i \in {j \in DOMAIN rows : rows[j].email = e}}
    OBVIOUS
  <2> HIDE DEF hits
  <2>4. Cassandra!Abstract!GetUserByEmail(e)
    BY <2>2, <2>3 DEF Cassandra!Lookup, Cassandra!Abstract!GetUserByEmail, Cassandra!Abstract!Reply
  <2> QED
    BY <1>2, <2>1, <2>2, <2>4, PromisedIs
<1> QED
  BY <1>3, <1>4

\* Every step keeps the invariant and does what it promises.
LEMMA CassandraSteps ==
  CassandraInv /\ [Cassandra!Next]_(Cassandra!vars) => CassandraInv' /\ Promised
<1> SUFFICES ASSUME CassandraInv, [Cassandra!Next]_(Cassandra!vars)
             PROVE  CassandraInv' /\ Promised
  OBVIOUS
<1>1. ASSUME NEW c \in Clients, Cassandra!Step(c)
      PROVE  CassandraInv' /\ Promised
  BY <1>1, CreateCheckEmailKeeps, CreateInsertKeeps, CheckExistsKeeps, UpdateExecKeeps,
     DeleteExecKeeps, StatementFailsKeeps DEF Cassandra!Step
<1>2. ASSUME UNCHANGED Cassandra!vars
      PROVE  CassandraInv' /\ Promised
  BY <1>2, CassandraTogether, CassandraMaps DEF Cassandra!vars, CassandraInv, Cassandra!TypeOK, Promised
<1> QED
  BY <1>1, <1>2, EnterKeeps, CassandraLookupKeeps DEF Cassandra!Next

\* At the start there is no row and no call.
LEMMA CassandraStart ==
  ASSUME Cassandra!Init
  PROVE  CassandraInv /\ Cassandra!Abstract!Init
<1>1. rows = EmptyMap
  BY DEF Cassandra!Init, Cassandra!EmptyMap, EmptyMap
<1>2. Cassandra!Idle \in Cassandra!Call /\ Underway(Cassandra!Idle)
  BY DEF Cassandra!Idle, Cassandra!Call, Underway
<1>3. CassandraInv
  BY <1>1, <1>2, EmptyMapIs, CassandraMaps DEF Cassandra!Init, Cassandra!NoReply, CassandraInv, Cassandra!TypeOK
<1> QED
  BY <1>3 DEF Cassandra!Init, Cassandra!NoReply, Cassandra!EmptyMap,
              Cassandra!Abstract!Init, Cassandra!Abstract!NoReply, Cassandra!Abstract!EmptyMap

\* The rows, the calls and the replies keep their types.
THEOREM CassandraTypeCorrect == Cassandra!Spec => []Cassandra!TypeOK
<1>1. CassandraInv => Cassandra!TypeOK
  BY DEF CassandraInv
<1> QED
  BY <1>1, CassandraSteps, CassandraStart, PTL DEF Cassandra!Spec

\* However the two statements of the writes interleave, the adapter is the
\* table of UserStore, up to the three deviations that are named.
THEOREM CassandraImplements == Cassandra!Spec => Cassandra!ImplementsUserStore
<1>1. Promised => [Cassandra!Abstract!Next \/ Cassandra!Deviation]_(Cassandra!Abstract!vars)
  BY DEF Promised, Strays, Cassandra!Deviation, Cassandra!Abstract!vars
<1> QED
  BY <1>1, CassandraSteps, CassandraStart, PTL DEF Cassandra!Spec, Cassandra!ImplementsUserStore

-----------------------------------------------------------------------------
(* Cassandra with one client: what is left when nothing comes between.      *)

OneClient == \A c, d \in Clients : c = d

\* What a call found with its first statement is still so at its second; that
\* the email is free it knows only if the SELECT cannot have failed.
Fresh ==
  \A c \in Clients :
    /\ call[c].at \in {"UpdateUser", "DeleteUser"} => Cassandra!ID(c) \in DOMAIN rows
    /\ call[c].at = "insert" /\ ~Faults => ~Cassandra!EmailTaken(Cassandra!Arg(c).email)

\* Two users share an email, and it is an update or a failing database's doing.
Shares == \E u \in Cassandra!User : Cassandra!SharedEmail(u) /\ (u.id \in DOMAIN rows \/ Faults)

\* The statement that ends a call leaves nothing to be known.
LEMMA FreshAtRest ==
  ASSUME OneClient, CassandraInv, NEW c \in Clients, NEW err, Cassandra!Return(c, err)
  PROVE  Fresh'
<1>1. call' = [call EXCEPT ![c] = Cassandra!Idle] /\ call \in [Clients -> Cassandra!Call]
  BY DEF CassandraInv, Cassandra!TypeOK, Cassandra!Return
<1>2. \A d \in Clients : call'[d].at = "idle"
  BY <1>1 DEF OneClient, Cassandra!Idle
<1> QED
  BY <1>2 DEF Fresh

\* No other client is there to make what a call knows untrue.
LEMMA FreshKeeps ==
  ASSUME OneClient, CassandraInv, Fresh, [Cassandra!Next]_(Cassandra!vars)
  PROVE  Fresh'
<1>1. call \in [Clients -> Cassandra!Call]
  BY DEF CassandraInv, Cassandra!TypeOK
<1>2. ASSUME NEW c \in Clients, NEW q, call' = [call EXCEPT ![c] = q], q.at \in {"select", "exists"}
      PROVE  Fresh'
  <2>1. \A d \in Clients : call'[d].at \in {"select", "exists"}
    BY <1>1, <1>2 DEF OneClient
  <2> QED
    BY <2>1 DEF Fresh
<1>3. ASSUME NEW c \in Clients,
             \/ \E u \in Cassandra!User : Cassandra!CreateUser(c, u) \/ Cassandra!UpdateUser(c, u)
             \/ \E i \in Ids : Cassandra!DeleteUser(c, i)
      PROVE  Fresh'
  <2>1. PICK op \in {"CreateUser", "UpdateUser", "DeleteUser"}, first \in {"select", "exists"},
             i \in Ids, user \in SUBSET Cassandra!User : Cassandra!Enter(c, op, first, i, user)
    <3>1. \A u \in Cassandra!User : u.id \in Ids /\ {u} \in SUBSET Cassandra!User
      BY DEF Cassandra!User
    <3>2. {} \in SUBSET Cassandra!User
      OBVIOUS
    <3> QED
      BY <1>3, <3>1, <3>2 DEF Cassandra!CreateUser, Cassandra!UpdateUser, Cassandra!DeleteUser
  <2> DEFINE q == [op |-> op, at |-> first, id |-> {i}, user |-> user]
  <2>2. call' = [call EXCEPT ![c] = q] /\ q.at = first
    BY <2>1 DEF Cassandra!Enter
  <2> HIDE DEF q
  <2> QED
    BY <1>2, <2>2
<1>4. ASSUME NEW c \in Clients, NEW step, Cassandra!Goto(c, step), rows' = rows,
             step \in {"UpdateUser", "DeleteUser"} => Cassandra!ID(c) \in DOMAIN rows,
             step = "insert" /\ ~Faults => ~Cassandra!EmailTaken(Cassandra!Arg(c).email)
      PROVE  Fresh'
  <2> DEFINE q == [call[c] EXCEPT !.at = step]
  <2>1. call' = [call EXCEPT ![c] = q] /\ q.at = step /\ q.id = call[c].id /\ q.user = call[c].user
    BY <1>1, <1>4 DEF Cassandra!Goto, Cassandra!Call
  <2> HIDE DEF q
  <2>2. call'[c] = q /\ \A d \in Clients : d = c
    BY <1>1, <2>1 DEF OneClient
  <2>3. Cassandra!ID(c)' = Cassandra!ID(c) /\ Cassandra!Arg(c)' = Cassandra!Arg(c)
    BY <2>1, <2>2 DEF Cassandra!ID, Cassandra!Arg
  <2> QED
    BY <1>4, <2>1, <2>2, <2>3 DEF Fresh, Cassandra!EmailTaken
<1>5. ASSUME NEW c \in Clients, Cassandra!Step(c)
      PROVE  Fresh'
  <2>1. CASE Cassandra!CreateCheckEmail(c)
    <3>1. \/ Cassandra!Return(c, "exists")
          \/ /\ Cassandra!Goto(c, "insert") /\ rows' = rows
             /\ ~Faults => ~Cassandra!EmailTaken(Cassandra!Arg(c).email)
      BY <2>1 DEF Cassandra!CreateCheckEmail
    <3> QED
      BY <1>4, <3>1, FreshAtRest
  <2>2. CASE Cassandra!CheckExists(c)
    <3>1. call[c].at = "exists" /\ rows' = rows
          /\ \/ Cassandra!ID(c) \in DOMAIN rows /\ Cassandra!Goto(c, call[c].op)
             \/ Cassandra!Return(c, "notfound")
      BY <2>2 DEF Cassandra!CheckExists, Cassandra!At
    <3>2. call[c].op # "insert"
      BY <3>1, ArgumentsAre
    <3> QED
      BY <1>4, <3>1, <3>2, FreshAtRest
  <2>3. CASE Cassandra!CreateInsert(c) \/ Cassandra!UpdateExec(c) \/ Cassandra!DeleteExec(c)
             \/ Cassandra!StatementFails(c)
    <3>1. \E err : Cassandra!Return(c, err)
      BY <2>3 DEF Cassandra!CreateInsert, Cassandra!UpdateExec, Cassandra!DeleteExec,
                  Cassandra!StatementFails, Cassandra!Answer
    <3> QED
      BY <3>1, FreshAtRest
  <2> QED
    BY <1>5, <2>1, <2>2, <2>3 DEF Cassandra!Step
<1>6. ASSUME rows' = rows, call' = call
      PROVE  Fresh'
  BY <1>6 DEF Fresh, Cassandra!ID, Cassandra!Arg, Cassandra!EmailTaken
<1>7. ASSUME \/ UNCHANGED Cassandra!vars
             \/ \E i \in Ids : Cassandra!GetUserById(i)
             \/ \E e \in Emails : Cassandra!GetUserByEmail(e)
      PROVE  Fresh'
  BY <1>6, <1>7 DEF Cassandra!vars, Cassandra!GetUserById, Cassandra!GetUserByEmail, Cassandra!Lookup
<1> QED
  BY <1>3, <1>5, <1>7 DEF Cassandra!Next

\* One client sees the table of UserStore, but that an update may give a user
\* another's email, and a creation whose look-up failed may, too: whatever else
\* the adapter does otherwise takes a second client.
THEOREM CassandraAlone ==
  ASSUME OneClient
  PROVE  Cassandra!Spec =>
           /\ Cassandra!Abstract!Init
           /\ [][Cassandra!Abstract!Next \/ Shares]_(Cassandra!Abstract!vars)
<1>1. Cassandra!Init => Fresh
  BY DEF Cassandra!Init, Cassandra!Idle, Fresh
<1>2. CassandraInv /\ Fresh /\ [Cassandra!Next]_(Cassandra!vars)
        => [Cassandra!Abstract!Next \/ Shares]_(Cassandra!Abstract!vars)
  <2> SUFFICES ASSUME CassandraInv, Fresh, [Cassandra!Next]_(Cassandra!vars)
               PROVE  [Cassandra!Abstract!Next \/ Shares]_(Cassandra!Abstract!vars)
    OBVIOUS
  <2>1. ASSUME NEW c \in Clients, Strays(c)
        PROVE  Shares
    <3>1. /\ call[c].at \in {"UpdateUser", "DeleteUser"} => Cassandra!ID(c) \in DOMAIN rows
          /\ call[c].at = "insert" /\ ~Faults => ~Cassandra!EmailTaken(Cassandra!Arg(c).email)
      BY DEF Fresh
    <3>2. call[c].at = "UpdateUser" => Cassandra!Arg(c).id = Cassandra!ID(c)
      BY ArgumentsAre
    <3>3. \A u : Cassandra!SharedEmail(u) => Cassandra!EmailTaken(u.email)
      BY DEF Cassandra!SharedEmail
    <3> QED
      BY <2>1, <3>1, <3>2, <3>3 DEF Strays, Shares
  <2> QED
    BY <2>1, CassandraSteps DEF Promised, Cassandra!Abstract!vars
<1>3. CassandraInv /\ Fresh /\ [Cassandra!Next]_(Cassandra!vars) => Fresh'
  BY FreshKeeps
<1> QED
  BY <1>1, <1>2, <1>3, CassandraSteps, CassandraStart, PTL DEF Cassandra!Spec
=============================================================================
