------------------------- MODULE RedisStorageProofs -------------------------
(***************************************************************************)
(* The Redis adapter, for any number of users, emails and clients, with    *)
(* the commands of other clients between those of a call, and whichever    *)
(* commands fail or have their answers lost.                               *)
(***************************************************************************)
EXTENDS RedisStorage, GoMapsLemmas

\* The maps of the contract are the maps of Go.
LEMMA RedisMaps ==
  /\ \A m, k, v : Abstract!Put(m, k, v) = Put(m, k, v)
  /\ \A m, k : Abstract!Without(m, k) = Without(m, k)
BY DEF Abstract!Put, Put, Abstract!Without, Without, Abstract!Restrict, Restrict

\* Each user has one writer: no two clients write the same user.
OneWriter == \A c, d \in Clients : c # d => IdsOf[c] \cap IdsOf[d] = {}

\* What the call r of client c was given, and what it has read so far.
Given(c, r) ==
  \/ r.at = "idle"
  \/ /\ r.op = "CreateUser" /\ r.at \in {"hexists", "exists", "create"}
     /\ \E u \in UsersOf(c) : r.user = {u} /\ r.id = {u.id} /\ r.key = u.id
  \/ /\ r.op = "UpdateUser" /\ r.at \in {"read", "hexists2", "update"}
     /\ \E u \in UsersOf(c) : r.user = {u} /\ r.id = {u.id} /\ r.key = u.id
     /\ r.at # "read" => \E e \in Emails : r.old = {e}
  \/ /\ r.op = "DeleteUser" /\ r.at \in {"read", "delete"} /\ r.user = {}
     /\ \E i \in IdsOf[c] : r.id = {i} /\ r.key = i
     /\ r.at # "read" => \E e \in Emails : r.old = {e}
  \/ /\ r.op = "GetUserById" /\ r.at \in {"get", "getfull"} /\ r.user = {}
     /\ \E i \in Ids : r.id = {i} /\ r.key = i
  \/ /\ r.op = "GetUserByEmail" /\ r.at \in {"hget", "get", "getfull"} /\ r.user = {}
     /\ r.key \in emailsOf[c]
     /\ r.at # "hget" => \E i \in Ids : r.id = {i}

\* With one writer to a user, what a call has read of the user it writes is
\* still so: that it is not there, or there with that email.
Guarded(k, r) ==
  /\ r.at = "create" => \A i \in r.id : i \notin DOMAIN k
  /\ r.at \in {"hexists2", "update", "delete"} =>
       \A i \in r.id, e \in r.old : i \in DOMAIN k /\ k[i].email = e
  /\ r.at = "hexists2" => \A u \in r.user, e \in r.old : e # u.email

\* If emails have one writer too, every stored user is behind its email, which
\* is one its writer may use, and so emails are unique;
Complete(k, x) ==
  /\ \A i \in DOMAIN k : k[i].email \in DOMAIN x /\ x[k[i].email] = i
  /\ \A i \in DOMAIN k : \E c \in Clients : i \in IdsOf[c] /\ k[i].email \in emailsOf[c]

\* and what a call has read of the index is still so.
Informed(k, x, r) ==
  /\ r.at \in {"exists", "create"} => \A u \in r.user : u.email \notin DOMAIN x
  /\ r.at = "update" => \A u \in r.user, e \in r.old : e # u.email => u.email \notin DOMAIN x
  /\ r.op = "GetUserByEmail" /\ r.at \in {"get", "getfull"} =>
       \A i \in r.id : i \in DOMAIN k /\ k[i].email = r.key

RedisTyped == TypeOK /\ \A c \in Clients : Given(c, call[c])
RedisSound == IndexSound /\ \A c \in Clients : Guarded(kv, call[c])
RedisComplete == Complete(kv, idx) /\ \A c \in Clients : Informed(kv, idx, call[c])

RedisInv == /\ RedisTyped
            /\ OneWriter => RedisSound
            /\ OneWriter /\ Partitioned => RedisComplete

\* The users a client writes are users.
LEMMA UsersOfIs ==
  ASSUME TypeOK, NEW c \in Clients
  PROVE  /\ emailsOf[c] \subseteq Emails /\ IdsOf[c] \subseteq Ids
         /\ \A u \in UsersOf(c) : u \in User /\ u.id \in IdsOf[c] /\ u.email \in emailsOf[c]
<1>1. emailsOf \in [Clients -> SUBSET Emails] /\ IdsOf \in [Clients -> SUBSET Ids]
  BY CallersAssumption DEF TypeOK
<1>2. emailsOf[c] \subseteq Emails /\ IdsOf[c] \subseteq Ids
  BY <1>1
<1> QED
  BY <1>2 DEF UsersOf, User

\* What a call on its way acts on.
LEMMA RedisArguments ==
  ASSUME RedisTyped, NEW c \in Clients, call[c].at # "idle"
  PROVE  /\ call[c] \in Call
         /\ call[c].at # "hget" => call[c].id = {IdOf(c)} /\ IdOf(c) \in Ids
         /\ call[c].op \in {"CreateUser", "UpdateUser"} =>
              /\ call[c].user = {Arg(c)} /\ Arg(c) \in User
              /\ Arg(c).email \in emailsOf[c]
              /\ Arg(c).id = IdOf(c)
         /\ call[c].op \in {"CreateUser", "UpdateUser", "DeleteUser"} => IdOf(c) \in IdsOf[c]
         /\ call[c].op # "GetUserByEmail" => call[c].key = IdOf(c)
         /\ call[c].op = "GetUserByEmail" => call[c].key \in emailsOf[c] /\ call[c].key \in Emails
         /\ call[c].op \notin {"CreateUser", "UpdateUser"} => call[c].user = {}
         /\ call[c].at \in {"hexists2", "update", "delete"} =>
              call[c].old = {Old(c)} /\ Old(c) \in Emails
<1>1. Given(c, call[c]) /\ TypeOK /\ call[c] \in Call
  BY DEF RedisTyped, TypeOK
<1>2. ASSUME NEW i, call[c].id = {i}
      PROVE  IdOf(c) = i
  BY <1>2 DEF IdOf
<1>3. ASSUME NEW u, call[c].user = {u}
      PROVE  Arg(c) = u
  BY <1>3 DEF Arg
<1>4. ASSUME NEW e, call[c].old = {e}
      PROVE  Old(c) = e
  BY <1>4 DEF Old
<1>5. /\ emailsOf[c] \subseteq Emails /\ IdsOf[c] \subseteq Ids
      /\ \A u \in UsersOf(c) : u \in User /\ u.id \in IdsOf[c] /\ u.email \in emailsOf[c]
  BY <1>1, UsersOfIs
<1>6. CASE call[c].op = "CreateUser" \/ call[c].op = "UpdateUser"
  <2>1. PICK u \in UsersOf(c) : call[c].user = {u} /\ call[c].id = {u.id} /\ call[c].key = u.id
    BY <1>1, <1>6 DEF Given
  <2>2. Arg(c) = u /\ IdOf(c) = u.id
    BY <1>2, <1>3, <2>1
  <2>3. call[c].at \in {"hexists2", "update", "delete"} =>
          call[c].old = {Old(c)} /\ Old(c) \in Emails
    BY <1>1, <1>4, <1>6 DEF Given
  <2> QED
    BY <1>1, <1>5, <1>6, <2>1, <2>2, <2>3
<1>7. CASE call[c].op = "DeleteUser"
  <2>1. PICK i \in IdsOf[c] : call[c].id = {i} /\ call[c].key = i
    BY <1>1, <1>7 DEF Given
  <2>2. IdOf(c) = i
    BY <1>2, <2>1
  <2>3. /\ call[c].user = {}
        /\ call[c].at \in {"hexists2", "update", "delete"} =>
             call[c].old = {Old(c)} /\ Old(c) \in Emails
    BY <1>1, <1>4, <1>7 DEF Given
  <2> QED
    BY <1>1, <1>5, <1>7, <2>1, <2>2, <2>3
<1>8. CASE call[c].op \notin {"CreateUser", "UpdateUser", "DeleteUser"}
  <2>1. /\ call[c].user = {} /\ call[c].at \in {"hget", "get", "getfull"}
        /\ call[c].at # "hget" => \E i \in Ids : call[c].id = {i}
        /\ call[c].op = "GetUserByEmail" => call[c].key \in emailsOf[c]
        /\ call[c].op # "GetUserByEmail" => call[c].id = {call[c].key}
    BY <1>1, <1>8 DEF Given
  <2> QED
    BY <1>1, <1>2, <1>5, <1>8, <2>1
<1> QED
  BY <1>6, <1>7, <1>8

\* A step in which no user and no index entry changes, and one call moves on.
LEMMA RedisMoves ==
  ASSUME RedisInv, UNCHANGED <<kv, idx, emailsOf>>, reply' \in Replies,
         NEW c \in Clients, NEW q \in Call, call' = [call EXCEPT ![c] = q],
         Given(c, q),
         OneWriter => Guarded(kv, q),
         OneWriter /\ Partitioned => Informed(kv, idx, q)
  PROVE  RedisInv'
<1>1. call \in [Clients -> Call] /\ TypeOK
  BY DEF RedisInv, RedisTyped, TypeOK
<1>2. \A d \in Clients : call'[d] = IF d = c THEN q ELSE call[d]
  BY <1>1
<1>3. call' \in [Clients -> Call]
  BY <1>1
<1>4. kv' = kv /\ idx' = idx /\ emailsOf' = emailsOf
  OBVIOUS
<1>5. RedisTyped'
  <2>1. TypeOK'
    BY <1>1, <1>3, <1>4 DEF TypeOK
  <2>2. \A d \in Clients : Given(d, call'[d])
    BY <1>2, SMTT(60) DEF RedisInv, RedisTyped
  <2>3. \A d \in Clients : Given(d, call[d])'
    BY <1>4, <2>2 DEF Given, UsersOf
  <2> QED
    BY <2>1, <2>3 DEF RedisTyped
<1>6. ASSUME OneWriter
      PROVE  RedisSound'
  <2>1. \A d \in Clients : Guarded(kv, call'[d])
    BY <1>2, <1>6 DEF RedisInv, RedisSound
  <2>2. \A d \in Clients : Guarded(kv, call[d])'
    BY <1>4, <2>1 DEF Guarded
  <2>3. IndexSound'
    BY <1>4, <1>6 DEF RedisInv, RedisSound, IndexSound
  <2> QED
    BY <2>2, <2>3 DEF RedisSound
<1>7. ASSUME OneWriter, Partitioned'
      PROVE  RedisComplete'
  <2>1. Partitioned
    BY <1>4, <1>7 DEF Partitioned
  <2>2. \A d \in Clients : Informed(kv, idx, call'[d])
    BY <1>2, <1>7, <2>1 DEF RedisInv, RedisComplete
  <2>3. \A d \in Clients : Informed(kv, idx, call[d])'
    BY <1>4, <2>2 DEF Informed
  <2>4. Complete(kv, idx)'
    BY <1>4, <1>7, <2>1 DEF RedisInv, RedisComplete, Complete
  <2> QED
    BY <2>3, <2>4 DEF RedisComplete
<1> QED
  BY <1>5, <1>6, <1>7 DEF RedisInv, OneWriter

\* The table and the replies of UserStore.
UserTable == [i \in DOMAIN kv |-> WithPassword(kv[i])]
UserReply == [reply EXCEPT !.user = {WithPassword(u) : u \in @}]

RedisPromised == \/ Partitioned =>
                      Abstract!Next \/ \E u \in User : LosesPassword(u)
                 \/ UNCHANGED <<UserTable, UserReply>>

\* A call that returns is over, and its answer is one of UserStore's.
LEMMA RedisReturn ==
  ASSUME RedisInv, NEW c \in Clients, call[c].at # "idle",
         NEW err \in {"nil", "exists", "notfound", "fault"},
         NEW found \in SUBSET User, Return(c, err, found)
  PROVE  /\ call' = [call EXCEPT ![c] = Idle]
         /\ reply' = [op |-> call[c].op, key |-> call[c].key, err |-> err, user |-> found]
         /\ reply' \in Replies
         /\ UserReply' = Abstract!Reply(call[c].op, call[c].key, err,
                                             {WithPassword(u) : u \in found})
<1>1. call[c] \in Call
  BY DEF RedisInv, RedisTyped, TypeOK
<1>2. call' = [call EXCEPT ![c] = Idle]
  BY DEF Return
<1>3. reply' = [op |-> call[c].op, key |-> call[c].key, err |-> err, user |-> found]
  BY DEF Return
<1>4. reply' \in Replies
  BY <1>1, <1>3 DEF Call, Replies
<1>5. UserReply' = [op |-> call[c].op, key |-> call[c].key, err |-> err,
                    user |-> {WithPassword(u) : u \in found}]
  <2> DEFINE users == {WithPassword(u) : u \in found}
  <2>1. UserReply' = [reply' EXCEPT !.user = users]
    BY <1>3 DEF UserReply
  <2> HIDE DEF users
  <2>2. UserReply' = [op |-> call[c].op, key |-> call[c].key, err |-> err, user |-> users]
    BY <1>3, <2>1
  <2> QED
    BY <2>2 DEF users
<1> QED
  BY <1>2, <1>3, <1>4, <1>5 DEF Abstract!Reply

\* A call that is over knows nothing it would have to keep up with.
LEMMA RedisIdle ==
  /\ Idle \in Call
  /\ \A c : Given(c, Idle)
  /\ \A k : Guarded(k, Idle)
  /\ \A k, x : Informed(k, x, Idle)
BY DEF Idle, Call, Given, Guarded, Informed

\* A call that returns without having written anything.
LEMMA RedisReturnKeeps ==
  ASSUME RedisInv, NEW c \in Clients, call[c].at # "idle",
         NEW err \in {"nil", "exists", "notfound", "fault"},
         NEW found \in SUBSET User, Return(c, err, found),
         UNCHANGED <<kv, idx, emailsOf>>
  PROVE  RedisInv'
BY RedisReturn, RedisIdle, RedisMoves

\* A user as UserStore has it.
LEMMA WithPasswordIs ==
  ASSUME NEW u \in User
  PROVE  /\ WithPassword(u) \in Abstract!User
         /\ WithPassword(u).id = u.id /\ WithPassword(u).email = u.email
BY DEF User, WithPassword, Abstract!User

\* What UserStore needs to know to answer as it does.
LEMMA UserTableIs ==
  ASSUME RedisInv
  PROVE  /\ DOMAIN UserTable = DOMAIN kv
         /\ \A i \in DOMAIN kv : /\ kv[i] \in User
                                 /\ UserTable[i] = WithPassword(kv[i])
                                 /\ UserTable[i].email = kv[i].email
         /\ UNCHANGED kv => UserTable' = UserTable
<1>1. \A i \in DOMAIN kv : kv[i] \in User
  BY MapsOfIs, RedisMaps DEF RedisInv, RedisTyped, TypeOK
<1>2. \A i \in DOMAIN kv : UserTable[i] = WithPassword(kv[i])
  BY DEF UserTable
<1>3. \A i \in DOMAIN kv : WithPassword(kv[i]).email = kv[i].email
  BY <1>1, WithPasswordIs
<1> QED
  BY <1>1, <1>2, <1>3 DEF UserTable

\* The refusals and failures of UserStore, which change nothing.
LEMMA RefusalsPromised ==
  ASSUME RedisInv, UNCHANGED kv, NEW u \in User, NEW i \in Ids
  PROVE  LET told(op, key, err, user) == UserReply' = Abstract!Reply(op, key, err, user)
         IN  /\ \/ /\ u.id \in DOMAIN kv \/ \E j \in DOMAIN kv : kv[j].email = u.email
                   /\ told("CreateUser", u.id, "exists", {WithPassword(u)})
                \/ told("CreateUser", u.id, "fault", {WithPassword(u)})
                \/ /\ u.id \notin DOMAIN kv
                   /\ told("UpdateUser", u.id, "notfound", {WithPassword(u)})
                \/ /\ u.id \in DOMAIN kv /\ kv[u.id].email # u.email
                   /\ \E j \in DOMAIN kv : kv[j].email = u.email
                   /\ told("UpdateUser", u.id, "exists", {WithPassword(u)})
                \/ told("UpdateUser", u.id, "fault", {WithPassword(u)})
                => RedisPromised
             /\ \/ i \notin DOMAIN kv /\ told("DeleteUser", i, "notfound", {})
                \/ told("DeleteUser", i, "fault", {})
                => RedisPromised
<1> DEFINE w == WithPassword(u)
           told(op, key, err, user) == UserReply' = Abstract!Reply(op, key, err, user)
<1>1. /\ DOMAIN UserTable = DOMAIN kv /\ UserTable' = UserTable
      /\ \A j \in DOMAIN kv : UserTable[j].email = kv[j].email
  BY UserTableIs
<1>2. w \in Abstract!User /\ w.id = u.id /\ w.email = u.email
  BY WithPasswordIs
<1> HIDE DEF w
<1>3. ASSUME \/ /\ u.id \in DOMAIN kv \/ \E j \in DOMAIN kv : kv[j].email = u.email
                /\ told("CreateUser", u.id, "exists", {w})
             \/ told("CreateUser", u.id, "fault", {w})
      PROVE  RedisPromised
  <2>1. Abstract!CreateUser(w)
    BY <1>1, <1>2, <1>3
       DEF Abstract!CreateUser, Abstract!EmailTaken, UserTable, UserReply
  <2> QED
    BY <1>2, <2>1 DEF RedisPromised, Abstract!Next
<1>4. ASSUME \/ u.id \notin DOMAIN kv /\ told("UpdateUser", u.id, "notfound", {w})
             \/ /\ u.id \in DOMAIN kv /\ kv[u.id].email # u.email
                /\ \E j \in DOMAIN kv : kv[j].email = u.email
                /\ told("UpdateUser", u.id, "exists", {w})
             \/ told("UpdateUser", u.id, "fault", {w})
      PROVE  RedisPromised
  <2>1. Abstract!UpdateUser(w)
    BY <1>1, <1>2, <1>4
       DEF Abstract!UpdateUser, Abstract!EmailTaken, UserTable, UserReply
  <2> QED
    BY <1>2, <2>1 DEF RedisPromised, Abstract!Next
<1>5. ASSUME \/ i \notin DOMAIN kv /\ told("DeleteUser", i, "notfound", {})
             \/ told("DeleteUser", i, "fault", {})
      PROVE  RedisPromised
  <2>1. Abstract!DeleteUser(i)
    BY <1>1, <1>5 DEF Abstract!DeleteUser, UserTable, UserReply
  <2> QED
    BY <2>1 DEF RedisPromised, Abstract!Next
<1> QED
  BY <1>3, <1>4, <1>5 DEF w

\* A call that begins knows what it was given.
LEMMA RedisEnterKeeps ==
  ASSUME RedisInv, NEW c \in Clients, Begin(c), UNCHANGED emailsOf
  PROVE  RedisInv' /\ RedisPromised
<1>1. /\ emailsOf[c] \subseteq Emails /\ IdsOf[c] \subseteq Ids
      /\ \A u \in UsersOf(c) : u \in User /\ u.id \in IdsOf[c] /\ u.email \in emailsOf[c]
  BY UsersOfIs DEF RedisInv, RedisTyped
<1>2. ASSUME NEW op \in {"CreateUser", "UpdateUser", "DeleteUser", "GetUserById", "GetUserByEmail"},
             NEW first \in {"hexists", "read", "get", "hget"},
             NEW key \in Ids \cup Emails, NEW user \in SUBSET User, NEW id \in SUBSET Ids,
             Enter(c, op, key, first, user, id),
             \/ /\ \/ op = "CreateUser" /\ first = "hexists"
                   \/ op = "UpdateUser" /\ first = "read"
                /\ \E u \in UsersOf(c) : user = {u} /\ id = {u.id} /\ key = u.id
             \/ /\ op = "DeleteUser" /\ first = "read" /\ user = {}
                /\ \E i \in IdsOf[c] : id = {i} /\ key = i
             \/ /\ op = "GetUserById" /\ first = "get" /\ user = {}
                /\ \E i \in Ids : id = {i} /\ key = i
             \/ op = "GetUserByEmail" /\ first = "hget" /\ user = {} /\ key \in emailsOf[c]
      PROVE  RedisInv' /\ RedisPromised
  <2> DEFINE q == [op |-> op, at |-> first, key |-> key, user |-> user, id |-> id, old |-> {}]
  <2>1. /\ kv' = kv /\ idx' = idx /\ emailsOf' = emailsOf /\ reply' = reply
        /\ call' = [call EXCEPT ![c] = q]
    BY <1>2 DEF Enter
  <2>2. q \in Call
    BY <1>2 DEF Call
  <2>3. Given(c, q) /\ Guarded(kv, q) /\ Informed(kv, idx, q)
    BY <1>2 DEF Given, Guarded, Informed
  <2> HIDE DEF q
  <2>4. reply' \in Replies
    BY <2>1 DEF RedisInv, RedisTyped, TypeOK
  <2>5. RedisPromised
    BY <2>1 DEF RedisPromised, UserTable, UserReply
  <2> QED
    BY <2>1, <2>2, <2>3, <2>4, <2>5, RedisMoves
<1>3. ASSUME NEW u \in UsersOf(c), CreateUser(c, u)
      PROVE  RedisInv' /\ RedisPromised
  BY <1>1, <1>2, <1>3 DEF CreateUser
<1>4. ASSUME NEW u \in UsersOf(c), UpdateUser(c, u)
      PROVE  RedisInv' /\ RedisPromised
  BY <1>1, <1>2, <1>4 DEF UpdateUser
<1>5. ASSUME NEW i \in IdsOf[c], DeleteUser(c, i)
      PROVE  RedisInv' /\ RedisPromised
  BY <1>1, <1>2, <1>5 DEF DeleteUser
<1>6. ASSUME NEW i \in Ids, GetUserById(c, i)
      PROVE  RedisInv' /\ RedisPromised
  BY <1>2, <1>6 DEF GetUserById
<1>7. ASSUME NEW e \in emailsOf[c], GetUserByEmail(c, e)
      PROVE  RedisInv' /\ RedisPromised
  BY <1>1, <1>2, <1>7 DEF GetUserByEmail
<1> QED
  BY <1>3, <1>4, <1>5, <1>6, <1>7 DEF Begin

\* A call that goes on to its next command keeps what it was given.
LEMMA RedisGoto ==
  ASSUME RedisInv, NEW c \in Clients,
         NEW step \in {"exists", "create", "getfull", "update"}, Goto(c, step)
  PROVE  /\ \E q \in Call :
              /\ call' = [call EXCEPT ![c] = q]
              /\ q.op = call[c].op /\ q.at = step /\ q.key = call[c].key
              /\ q.user = call[c].user /\ q.id = call[c].id /\ q.old = call[c].old
         /\ reply' = reply /\ reply' \in Replies
<1> DEFINE q == [call[c] EXCEPT !.at = step]
<1>1. call[c] \in Call /\ call \in [Clients -> Call] /\ reply \in Replies
  BY DEF RedisInv, RedisTyped, TypeOK
<1>2. /\ q \in Call /\ q.op = call[c].op /\ q.at = step /\ q.key = call[c].key
      /\ q.user = call[c].user /\ q.id = call[c].id /\ q.old = call[c].old
  BY <1>1 DEF Call
<1>3. call' = [call EXCEPT ![c] = q] /\ reply' = reply
  BY <1>1 DEF Goto
<1> HIDE DEF q
<1> QED
  BY <1>1, <1>2, <1>3

\* An email in the index belongs to a user.
LEMMA CreateCheckEmailRedis ==
  ASSUME RedisInv, NEW c \in Clients, CreateCheckEmail(c), UNCHANGED emailsOf
  PROVE  RedisInv' /\ (OneWriter => RedisPromised)
<1> DEFINE u == Arg(c)
<1>1. /\ call[c].at = "hexists" /\ Given(c, call[c]) /\ call[c].op = "CreateUser"
      /\ UNCHANGED <<kv, idx>>
  BY DEF CreateCheckEmail, At, RedisInv, RedisTyped, Given
<1>2. /\ call[c].user = {u} /\ u \in User /\ u.id = IdOf(c) /\ call[c].key = IdOf(c)
      /\ u.id \in Ids
  BY <1>1, RedisArguments DEF RedisInv
<1> HIDE DEF u
<1>3. ASSUME u.email \in DOMAIN idx, Return(c, "exists", {u})
      PROVE  RedisInv' /\ (OneWriter => RedisPromised)
  <2>1. ASSUME OneWriter
        PROVE  \E j \in DOMAIN kv : kv[j].email = u.email
    BY <1>3, <2>1 DEF RedisInv, RedisSound, IndexSound
  <2>2. {u} \in SUBSET User /\ {WithPassword(w) : w \in {u}} = {WithPassword(u)}
    BY <1>2
  <2>3. UserReply' = Abstract!Reply("CreateUser", u.id, "exists", {WithPassword(u)})
    BY <1>1, <1>2, <1>3, <2>2, RedisReturn, ZenonT(60)
  <2>4. RedisInv'
    BY <1>1, <1>3, <2>2, RedisReturnKeeps
  <2>5. ASSUME OneWriter
        PROVE  RedisPromised
    BY <1>1, <1>2, <2>1, <2>3, <2>5, RefusalsPromised
  <2> QED
    BY <2>4, <2>5
<1>4. ASSUME u.email \notin DOMAIN idx, Goto(c, "exists")
      PROVE  RedisInv' /\ RedisPromised
  <2>1. /\ reply' = reply /\ reply' \in Replies
        /\ \E q \in Call :
             /\ call' = [call EXCEPT ![c] = q]
             /\ q.op = call[c].op /\ q.at = "exists" /\ q.key = call[c].key
             /\ q.user = call[c].user /\ q.id = call[c].id /\ q.old = call[c].old
    BY <1>4, RedisGoto
  <2>2. PICK q \in Call :
             /\ call' = [call EXCEPT ![c] = q]
             /\ q.op = call[c].op /\ q.at = "exists" /\ q.key = call[c].key
             /\ q.user = call[c].user /\ q.id = call[c].id /\ q.old = call[c].old
    BY <2>1
  <2>3. Given(c, q)
    BY <1>1, <2>2 DEF Given
  <2>4. Guarded(kv, q) /\ Informed(kv, idx, q)
    BY <1>1, <1>2, <1>4, <2>2 DEF Guarded, Informed
  <2>5. RedisPromised
    BY <1>1, <2>1 DEF RedisPromised, UserTable, UserReply
  <2> QED
    BY <1>1, <2>1, <2>2, <2>3, <2>4, <2>5, RedisMoves
<1>5. \/ u.email \in DOMAIN idx /\ Return(c, "exists", {u})
      \/ u.email \notin DOMAIN idx /\ Goto(c, "exists")
  BY <1>2 DEF CreateCheckEmail, EmailTaken, u
<1> QED
  BY <1>3, <1>4, <1>5

\* That the ID is free stays true as long as nobody else writes that user.
LEMMA CreateCheckIdRedis ==
  ASSUME RedisInv, NEW c \in Clients, CreateCheckId(c), UNCHANGED emailsOf
  PROVE  RedisInv' /\ (OneWriter => RedisPromised)
<1> DEFINE u == Arg(c)
<1>1. /\ call[c].at = "exists" /\ Given(c, call[c]) /\ call[c].op = "CreateUser"
      /\ UNCHANGED <<kv, idx>>
  BY DEF CreateCheckId, At, RedisInv, RedisTyped, Given
<1>2. /\ call[c].user = {u} /\ u \in User /\ u.id = IdOf(c)
      /\ call[c].key = IdOf(c) /\ call[c].id = {IdOf(c)} /\ IdOf(c) \in Ids
  BY <1>1, RedisArguments DEF RedisInv
<1> HIDE DEF u
<1>3. ASSUME u.id \in DOMAIN kv, Return(c, "exists", {u})
      PROVE  RedisInv' /\ RedisPromised
  <2>1. {u} \in SUBSET User /\ {WithPassword(w) : w \in {u}} = {WithPassword(u)}
    BY <1>2
  <2>2. UserReply' = Abstract!Reply("CreateUser", u.id, "exists", {WithPassword(u)})
    BY <1>1, <1>2, <1>3, <2>1, RedisReturn, ZenonT(60)
  <2>3. RedisInv'
    BY <1>1, <1>3, <2>1, RedisReturnKeeps
  <2>4. RedisPromised
    BY <1>1, <1>2, <1>3, <2>2, RefusalsPromised
  <2> QED
    BY <2>3, <2>4
<1>4. ASSUME u.id \notin DOMAIN kv, Goto(c, "create")
      PROVE  RedisInv' /\ RedisPromised
  <2>1. /\ reply' = reply /\ reply' \in Replies
        /\ \E q \in Call :
             /\ call' = [call EXCEPT ![c] = q]
             /\ q.op = call[c].op /\ q.at = "create" /\ q.key = call[c].key
             /\ q.user = call[c].user /\ q.id = call[c].id /\ q.old = call[c].old
    BY <1>4, RedisGoto
  <2>2. PICK q \in Call :
             /\ call' = [call EXCEPT ![c] = q]
             /\ q.op = call[c].op /\ q.at = "create" /\ q.key = call[c].key
             /\ q.user = call[c].user /\ q.id = call[c].id /\ q.old = call[c].old
    BY <2>1
  <2>3. Given(c, q)
    BY <1>1, <2>2 DEF Given
  <2>4. Guarded(kv, q)
    BY <1>2, <1>4, <2>2 DEF Guarded
  <2>5. ASSUME OneWriter, Partitioned
        PROVE  Informed(kv, idx, q)
    <3>1. Informed(kv, idx, call[c])
      BY <2>5 DEF RedisInv, RedisComplete
    <3> QED
      BY <1>1, <2>2, <3>1 DEF Informed
  <2>6. RedisPromised
    BY <1>1, <2>1 DEF RedisPromised, UserTable, UserReply
  <2> QED
    BY <1>1, <2>1, <2>2, <2>3, <2>4, <2>5, <2>6, RedisMoves
<1>5. \/ u.id \in DOMAIN kv /\ Return(c, "exists", {u})
      \/ u.id \notin DOMAIN kv /\ Goto(c, "create")
  BY <1>2 DEF CreateCheckId, u
<1> QED
  BY <1>3, <1>4, <1>5

\* A failed command has done nothing, and the caller hears of it.
LEMMA CommandFailsRedis ==
  ASSUME RedisInv, NEW c \in Clients, CommandFails(c), UNCHANGED emailsOf
  PROVE  RedisInv' /\ RedisPromised
<1> DEFINE u == Arg(c)
           i == IdOf(c)
<1>1. call[c].at # "idle" /\ Return(c, "fault", call[c].user) /\ UNCHANGED <<kv, idx>>
  BY DEF CommandFails, At
<1>2. /\ call[c].op \in {"CreateUser", "UpdateUser"} =>
           call[c].user = {u} /\ u \in User /\ u.id = i /\ call[c].key = i
      /\ call[c].op = "DeleteUser" => i \in Ids /\ call[c].user = {} /\ call[c].key = i
      /\ call[c].op = "GetUserById" => i \in Ids /\ call[c].user = {} /\ call[c].key = i
      /\ call[c].op = "GetUserByEmail" => call[c].key \in Emails /\ call[c].user = {}
      /\ call[c].user \in SUBSET User
      /\ call[c].op \in {"CreateUser", "UpdateUser", "DeleteUser", "GetUserById", "GetUserByEmail"}
  <2>1. call[c].op = "GetUserByEmail" \/ call[c].at # "hget"
    BY <1>1 DEF RedisInv, RedisTyped, Given
  <2>2. call[c].op \in {"CreateUser", "UpdateUser", "DeleteUser", "GetUserById", "GetUserByEmail"}
    BY <1>1 DEF RedisInv, RedisTyped, Given
  <2>3. call[c].user \in SUBSET User
    BY <1>1, RedisArguments DEF RedisInv, Call
  <2> QED
    BY <1>1, <2>1, <2>2, <2>3, RedisArguments DEF RedisInv
<1> HIDE DEF u, i
<1>3. RedisInv'
  BY <1>1, <1>2, RedisReturnKeeps
<1>4. UserReply' = Abstract!Reply(call[c].op, call[c].key, "fault",
                                        {WithPassword(w) : w \in call[c].user})
  BY <1>1, <1>2, RedisReturn
<1>5. CASE call[c].op \in {"CreateUser", "UpdateUser"}
  <2>1. {WithPassword(w) : w \in call[c].user} = {WithPassword(u)}
    BY <1>2, <1>5
  <2>2. RedisPromised
    BY <1>1, <1>2, <1>4, <1>5, <2>1, RefusalsPromised DEF User
  <2> QED
    BY <1>3, <2>2
<1>6. CASE call[c].op \notin {"CreateUser", "UpdateUser"}
  <2>1. {WithPassword(w) : w \in call[c].user} = {}
    BY <1>2, <1>6
  <2>2. UserTable' = UserTable
    BY <1>1, UserTableIs
  <2>3. \/ call[c].op = "DeleteUser" /\ i \in Ids /\ Abstract!DeleteUser(i)
        \/ call[c].op = "GetUserById" /\ i \in Ids /\ Abstract!GetUserById(i)
        \/ /\ call[c].op = "GetUserByEmail" /\ call[c].key \in Emails
           /\ Abstract!GetUserByEmail(call[c].key)
    BY <1>2, <1>4, <1>6, <2>1, <2>2
       DEF Abstract!DeleteUser, Abstract!GetUserById, Abstract!GetUserByEmail,
           UserTable, UserReply
  <2>4. RedisPromised
    BY <2>3 DEF RedisPromised, Abstract!Next
  <2> QED
    BY <1>3, <2>4
<1> QED
  BY <1>5, <1>6

\* The answers of UserStore to the lookups.
LEMMA LookupsPromised ==
  ASSUME RedisInv, UNCHANGED kv
  PROVE  /\ \A i \in Ids : i \in DOMAIN kv /\ UserReply' = Abstract!Reply("GetUserById", i, "nil", {UserTable[i]})
                           => RedisPromised
         /\ \A i \in Ids : i \notin DOMAIN kv /\ UserReply' = Abstract!Reply("GetUserById", i, "notfound", {})
                           => RedisPromised
         /\ \A e \in Emails, i \in DOMAIN kv :
              kv[i].email = e /\ UserReply' = Abstract!Reply("GetUserByEmail", e, "nil", {UserTable[i]})
              => RedisPromised
         /\ \A e \in Emails :
              /\ \A i \in DOMAIN kv : kv[i].email # e
              /\ UserReply' = Abstract!Reply("GetUserByEmail", e, "notfound", {})
              => RedisPromised
<1>1. /\ DOMAIN UserTable = DOMAIN kv /\ UserTable' = UserTable
      /\ \A j \in DOMAIN kv : UserTable[j].email = kv[j].email
  BY UserTableIs
<1>2. UserTable = [i \in DOMAIN kv |-> WithPassword(kv[i])] /\ UserTable' = [i \in DOMAIN kv |-> WithPassword(kv[i])]'
  BY DEF UserTable
<1>3. ASSUME NEW i \in Ids,
             \/ i \in DOMAIN kv /\ UserReply' = Abstract!Reply("GetUserById", i, "nil", {UserTable[i]})
             \/ i \notin DOMAIN kv /\ UserReply' = Abstract!Reply("GetUserById", i, "notfound", {})
      PROVE  RedisPromised
  <2> DEFINE hits == {UserTable[j] : j \in DOMAIN UserTable \cap {i}}
  <2>1. hits = IF i \in DOMAIN kv THEN {UserTable[i]} ELSE {}
    BY <1>1
  <2>2. UserReply' = Abstract!Reply("GetUserById", i, IF hits = {} THEN "notfound" ELSE "nil", hits)
    BY <1>3, <2>1
  <2>3. Abstract!GetUserById(i)
    BY <1>1, <1>2, <2>2 DEF Abstract!GetUserById, UserReply
  <2> QED
    BY <2>3 DEF RedisPromised, Abstract!Next
<1>4. ASSUME NEW e \in Emails,
             \/ \E i \in DOMAIN kv : kv[i].email = e /\ UserReply' = Abstract!Reply("GetUserByEmail", e, "nil", {UserTable[i]})
             \/ /\ \A i \in DOMAIN kv : kv[i].email # e
                /\ UserReply' = Abstract!Reply("GetUserByEmail", e, "notfound", {})
      PROVE  RedisPromised
  <2> DEFINE hits == {UserTable[i] : i \in {j \in DOMAIN UserTable : UserTable[j].email = e}}
  <2>1. \/ \E u \in hits : UserReply' = Abstract!Reply("GetUserByEmail", e, "nil", {u})
        \/ hits = {} /\ UserReply' = Abstract!Reply("GetUserByEmail", e, "notfound", {})
    BY <1>1, <1>4
  <2>2. hits = {[k \in DOMAIN kv |-> WithPassword(kv[k])][i] : i \in
                {j \in DOMAIN [k \in DOMAIN kv |-> WithPassword(kv[k])] :
                 [k \in DOMAIN kv |-> WithPassword(kv[k])][j].email = e}}
    BY <1>2
  <2> HIDE DEF hits
  <2>3. Abstract!GetUserByEmail(e)
    BY <1>1, <1>2, <2>1, <2>2 DEF Abstract!GetUserByEmail, UserReply
  <2> QED
    BY <2>3 DEF RedisPromised, Abstract!Next
<1> QED
  BY <1>3, <1>4

\* The index is complete, so an email it lacks is no user's; and what it
\* says stays true for as long as only this client uses the email.
LEMMA GetIndexRedis ==
  ASSUME RedisInv, NEW c \in Clients, GetIndex(c), UNCHANGED emailsOf
  PROVE  RedisInv' /\ (OneWriter => RedisPromised)
<1> DEFINE e == call[c].key
<1>1. /\ call[c].at = "hget" /\ Given(c, call[c]) /\ call[c].op = "GetUserByEmail" /\ call[c].user = {}
      /\ UNCHANGED <<kv, idx>>
  BY DEF GetIndex, At, RedisInv, RedisTyped, Given
<1>2. e \in emailsOf[c] /\ e \in Emails /\ call[c] \in Call
  BY <1>1, RedisArguments DEF RedisInv
<1>3. ASSUME e \notin DOMAIN idx, Return(c, "notfound", {})
      PROVE  RedisInv' /\ (OneWriter => RedisPromised)
  <2>1. {} \in SUBSET User /\ {WithPassword(w) : w \in {}} = {}
    OBVIOUS
  <2>2. UserReply' = Abstract!Reply("GetUserByEmail", e, "notfound", {})
    BY <1>1, <1>3, <2>1, RedisReturn
  <2>3. RedisInv'
    BY <1>1, <1>3, <2>1, RedisReturnKeeps
  <2>4. ASSUME OneWriter, Partitioned
        PROVE  RedisPromised
    <3>1. \A i \in DOMAIN kv : kv[i].email # e
      BY <1>3, <2>4 DEF RedisInv, RedisComplete, Complete
    <3> HIDE DEF e
    <3> QED
      BY <1>1, <1>2, <2>2, <3>1, LookupsPromised
  <2> QED
    BY <2>3, <2>4 DEF RedisPromised
<1>4. ASSUME e \in DOMAIN idx,
             call' = [call EXCEPT ![c].at = "get", ![c].id = {idx[e]}], reply' = reply
      PROVE  RedisInv' /\ RedisPromised
  <2> DEFINE q == [call[c] EXCEPT !.at = "get", !.id = {idx[e]}]
  <2>1. call \in [Clients -> Call] /\ reply' \in Replies /\ idx[e] \in Ids
    BY <1>4, MapsOfIs, RedisMaps DEF RedisInv, RedisTyped, TypeOK
  <2>2. call' = [call EXCEPT ![c] = q]
    BY <1>4, <2>1
  <2>3. /\ q \in Call
        /\ q.op = call[c].op /\ q.at = "get" /\ q.key = e
        /\ q.user = call[c].user /\ q.id = {idx[e]} /\ q.old = call[c].old
    BY <1>2, <2>1 DEF Call
  <2> HIDE DEF q
  <2>4. Given(c, q) /\ Guarded(kv, q)
    BY <1>1, <1>2, <2>1, <2>3 DEF Given, Guarded
  <2>5. ASSUME OneWriter
        PROVE  Informed(kv, idx, q)
    <3>1. idx[e] \in DOMAIN kv /\ kv[idx[e]].email = e
      BY <1>4, <2>5 DEF RedisInv, RedisSound, IndexSound
    <3> QED
      BY <2>3, <3>1 DEF Informed
  <2>6. RedisPromised
    BY <1>1, <1>4 DEF RedisPromised, UserTable, UserReply
  <2> QED
    BY <1>1, <2>1, <2>2, <2>3, <2>4, <2>5, <2>6, RedisMoves
<1>5. \/ e \notin DOMAIN idx /\ Return(c, "notfound", {})
      \/ /\ e \in DOMAIN idx
         /\ call' = [call EXCEPT ![c].at = "get", ![c].id = {idx[e]}] /\ reply' = reply
  BY DEF GetIndex
<1> QED
  BY <1>3, <1>4, <1>5

\* What both reads of GetUserById act on, and what they may answer.
LEMMA UserReads ==
  ASSUME RedisInv, NEW c \in Clients, call[c].at \in {"get", "getfull"},
         UNCHANGED <<kv, idx, emailsOf>>
  PROVE  /\ call[c].id = {IdOf(c)}
         /\ IdOf(c) \in DOMAIN kv /\ Return(c, "nil", {kv[IdOf(c)]}) =>
              RedisInv' /\ (OneWriter => RedisPromised)
         /\ IdOf(c) \notin DOMAIN kv /\ Return(c, "notfound", {}) =>
              RedisInv' /\ (OneWriter => RedisPromised)
<1> DEFINE i == IdOf(c)
<1>1. Given(c, call[c]) /\ call[c].op \in {"GetUserById", "GetUserByEmail"}
  BY DEF RedisInv, RedisTyped, Given
<1>2. /\ call[c].id = {i} /\ i \in Ids
      /\ call[c].op = "GetUserById" => call[c].key = i
      /\ call[c].op = "GetUserByEmail" => call[c].key \in Emails
  BY <1>1, RedisArguments DEF RedisInv
<1> HIDE DEF i
<1>3. ASSUME OneWriter, Partitioned, call[c].op = "GetUserByEmail"
      PROVE  i \in DOMAIN kv /\ kv[i].email = call[c].key
  BY <1>2, <1>3 DEF RedisInv, RedisComplete, Informed
<1>4. ASSUME i \in DOMAIN kv, Return(c, "nil", {kv[i]})
      PROVE  RedisInv' /\ (OneWriter => RedisPromised)
  <2>1. kv[i] \in User /\ UserTable[i] = WithPassword(kv[i])
    BY <1>4, UserTableIs
  <2>2. {kv[i]} \in SUBSET User /\ {WithPassword(w) : w \in {kv[i]}} = {UserTable[i]}
    BY <2>1
  <2>3. UserReply' = Abstract!Reply(call[c].op, call[c].key, "nil", {UserTable[i]})
    BY <1>4, <2>2, RedisReturn
  <2>4. RedisInv'
    BY <1>4, <2>2, RedisReturnKeeps
  <2>5. ASSUME OneWriter, Partitioned
        PROVE  RedisPromised
    BY <1>1, <1>2, <1>3, <1>4, <2>3, <2>5, LookupsPromised
  <2> QED
    BY <2>4, <2>5 DEF RedisPromised
<1>5. ASSUME i \notin DOMAIN kv, Return(c, "notfound", {})
      PROVE  RedisInv' /\ (OneWriter => RedisPromised)
  <2>1. {} \in SUBSET User /\ {WithPassword(w) : w \in {}} = {}
    OBVIOUS
  <2>2. UserReply' = Abstract!Reply(call[c].op, call[c].key, "notfound", {})
    BY <1>5, <2>1, RedisReturn
  <2>3. RedisInv'
    BY <1>5, <2>1, RedisReturnKeeps
  <2>4. ASSUME OneWriter, Partitioned
        PROVE  RedisPromised
    BY <1>1, <1>2, <1>3, <1>5, <2>2, <2>4, LookupsPromised
  <2> QED
    BY <2>3, <2>4 DEF RedisPromised
<1> QED
  BY <1>2, <1>4, <1>5 DEF i

\* The first of the two reads.
LEMMA GetFirstRedis ==
  ASSUME RedisInv, NEW c \in Clients, GetFirst(c), UNCHANGED emailsOf
  PROVE  RedisInv' /\ (OneWriter => RedisPromised)
<1>1. call[c].at = "get" /\ Given(c, call[c]) /\ UNCHANGED <<kv, idx>>
  BY DEF GetFirst, At, RedisInv, RedisTyped
<1>2. ASSUME Goto(c, "getfull")
      PROVE  RedisInv' /\ RedisPromised
  <2>1. /\ reply' = reply /\ reply' \in Replies
        /\ \E q \in Call :
             /\ call' = [call EXCEPT ![c] = q]
             /\ q.op = call[c].op /\ q.at = "getfull" /\ q.key = call[c].key
             /\ q.user = call[c].user /\ q.id = call[c].id /\ q.old = call[c].old
    BY <1>2, RedisGoto
  <2>2. PICK q \in Call :
             /\ call' = [call EXCEPT ![c] = q]
             /\ q.op = call[c].op /\ q.at = "getfull" /\ q.key = call[c].key
             /\ q.user = call[c].user /\ q.id = call[c].id /\ q.old = call[c].old
    BY <2>1
  <2>3. Given(c, q) /\ Guarded(kv, q)
    BY <1>1, <2>2 DEF Given, Guarded
  <2>4. ASSUME OneWriter, Partitioned
        PROVE  Informed(kv, idx, q)
    <3>1. Informed(kv, idx, call[c])
      BY <2>4 DEF RedisInv, RedisComplete
    <3> QED
      BY <1>1, <2>2, <3>1 DEF Informed
  <2>5. RedisPromised
    BY <1>1, <2>1 DEF RedisPromised, UserTable, UserReply
  <2> QED
    BY <1>1, <2>1, <2>2, <2>3, <2>4, <2>5, RedisMoves
<1>3. \/ Goto(c, "getfull")
      \/ IdOf(c) \notin DOMAIN kv /\ Return(c, "notfound", {})
  BY DEF GetFirst
<1> QED
  BY <1>1, <1>2, <1>3, UserReads

\* The second, whose user is returned.
LEMMA GetFullRedis ==
  ASSUME RedisInv, NEW c \in Clients, GetFull(c), UNCHANGED emailsOf
  PROVE  RedisInv' /\ (OneWriter => RedisPromised)
<1>1. call[c].at = "getfull" /\ UNCHANGED <<kv, idx>>
  BY DEF GetFull, At
<1>2. \/ IdOf(c) \in DOMAIN kv /\ Return(c, "nil", {kv[IdOf(c)]})
      \/ IdOf(c) \notin DOMAIN kv /\ Return(c, "notfound", {})
  BY DEF GetFull
<1> QED
  BY <1>1, <1>2, UserReads

\* What the update has read of the user stays so as long as nobody else
\* writes that user.
LEMMA UpdateReadRedis ==
  ASSUME RedisInv, NEW c \in Clients, UpdateRead(c), UNCHANGED emailsOf
  PROVE  RedisInv' /\ RedisPromised
<1> DEFINE u == Arg(c)
           i == IdOf(c)
<1>1. /\ call[c].at = "read" /\ Given(c, call[c]) /\ call[c].op = "UpdateUser"
      /\ UNCHANGED <<kv, idx>>
  BY DEF UpdateRead, At, RedisInv, RedisTyped
<1>2. /\ call[c].user = {u} /\ u \in User /\ u.id = i
      /\ call[c].key = i /\ call[c].id = {i} /\ i \in Ids /\ call[c] \in Call
  BY <1>1, RedisArguments DEF RedisInv
<1>3. /\ \/ i \notin DOMAIN kv /\ Return(c, "notfound", {u})
         \/ /\ i \in DOMAIN kv /\ reply' = reply
            /\ call' = [call EXCEPT ![c].old = {kv[i].email},
                          ![c].at = IF kv[i].email = u.email THEN "update" ELSE "hexists2"]
  BY <1>2 DEF UpdateRead
<1> HIDE DEF u, i
<1>4. ASSUME i \notin DOMAIN kv, Return(c, "notfound", {u})
      PROVE  RedisInv' /\ RedisPromised
  <2>1. {u} \in SUBSET User /\ {WithPassword(w) : w \in {u}} = {WithPassword(u)}
    BY <1>2
  <2>2. UserReply' = Abstract!Reply("UpdateUser", u.id, "notfound", {WithPassword(u)})
    BY <1>1, <1>2, <1>4, <2>1, RedisReturn, ZenonT(60)
  <2>3. RedisInv'
    BY <1>1, <1>4, <2>1, RedisReturnKeeps
  <2>4. RedisPromised
    BY <1>1, <1>2, <1>4, <2>2, RefusalsPromised
  <2> QED
    BY <2>3, <2>4
<1>5. ASSUME i \in DOMAIN kv, reply' = reply,
             call' = [call EXCEPT ![c].old = {kv[i].email},
                        ![c].at = IF kv[i].email = u.email THEN "update" ELSE "hexists2"]
      PROVE  RedisInv' /\ RedisPromised
  <2> DEFINE e == kv[i].email
             at == IF e = u.email THEN "update" ELSE "hexists2"
             q == [call[c] EXCEPT !.old = {e}, !.at = at]
  <2>1. call \in [Clients -> Call] /\ reply' \in Replies
    BY <1>5 DEF RedisInv, RedisTyped, TypeOK
  <2>2. call' = [call EXCEPT ![c] = q]
    BY <1>5, <2>1
  <2>3. e \in Emails
    BY <1>5, UserTableIs DEF User
  <2>4. at \in {"update", "hexists2"} /\ (at = "update" <=> e = u.email)
    OBVIOUS
  <2>5. e = kv[i].email
    OBVIOUS
  <2> HIDE DEF e, at
  <2>6. /\ q \in Call
        /\ q.op = call[c].op /\ q.at = at /\ q.key = call[c].key
        /\ q.user = call[c].user /\ q.id = call[c].id /\ q.old = {e}
    BY <1>2, <2>3, <2>4 DEF Call
  <2> HIDE DEF q
  <2>7. Given(c, q)
    BY <1>1, <2>3, <2>4, <2>6 DEF Given
  <2>8. Guarded(kv, q) /\ Informed(kv, idx, q)
    BY <1>1, <1>2, <1>5, <2>4, <2>5, <2>6 DEF Guarded, Informed
  <2>9. RedisPromised
    BY <1>1, <1>5 DEF RedisPromised, UserTable, UserReply
  <2> QED
    BY <1>1, <2>1, <2>2, <2>6, <2>7, <2>8, <2>9, RedisMoves
<1> QED
  BY <1>3, <1>4, <1>5

\* A new email in the index belongs to a user, and it is another one.
LEMMA UpdateCheckEmailRedis ==
  ASSUME RedisInv, NEW c \in Clients, UpdateCheckEmail(c), UNCHANGED emailsOf
  PROVE  RedisInv' /\ (OneWriter => RedisPromised)
<1> DEFINE u == Arg(c)
           i == IdOf(c)
<1>1. /\ call[c].at = "hexists2" /\ Given(c, call[c]) /\ call[c].op = "UpdateUser"
      /\ UNCHANGED <<kv, idx>>
  BY DEF UpdateCheckEmail, At, RedisInv, RedisTyped, Given
<1>2. /\ call[c].user = {u} /\ u \in User /\ u.id = i /\ call[c].key = i
      /\ call[c].id = {i} /\ i \in Ids /\ call[c].old = {Old(c)}
  BY <1>1, RedisArguments DEF RedisInv
<1>3. \/ u.email \in DOMAIN idx /\ Return(c, "exists", {u})
      \/ u.email \notin DOMAIN idx /\ Goto(c, "update")
  BY <1>2 DEF UpdateCheckEmail, EmailTaken
<1> HIDE DEF u, i
<1>4. ASSUME OneWriter
      PROVE  Guarded(kv, call[c])
  BY <1>4 DEF RedisInv, RedisSound
<1>5. ASSUME u.email \in DOMAIN idx, Return(c, "exists", {u})
      PROVE  RedisInv' /\ (OneWriter => RedisPromised)
  <2>1. {u} \in SUBSET User /\ {WithPassword(w) : w \in {u}} = {WithPassword(u)}
    BY <1>2
  <2>0. UserReply' = Abstract!Reply(call[c].op, call[c].key, "exists", {WithPassword(u)})
    BY <1>1, <1>5, <2>1, RedisReturn
  <2>2. UserReply' = Abstract!Reply("UpdateUser", u.id, "exists", {WithPassword(u)})
    BY <1>1, <1>2, <2>0
  <2>3. RedisInv'
    BY <1>1, <1>5, <2>1, RedisReturnKeeps
  <2>4. ASSUME OneWriter
        PROVE  RedisPromised
    <3>1. \E j \in DOMAIN kv : kv[j].email = u.email
      BY <1>5, <2>4 DEF RedisInv, RedisSound, IndexSound
    <3>2. u.id \in DOMAIN kv /\ kv[u.id].email # u.email
      BY <1>1, <1>2, <1>4, <2>4 DEF Guarded
    <3> QED
      BY <1>1, <1>2, <2>2, <3>1, <3>2, RefusalsPromised
  <2> QED
    BY <2>3, <2>4
<1>6. ASSUME u.email \notin DOMAIN idx, Goto(c, "update")
      PROVE  RedisInv' /\ RedisPromised
  <2>1. /\ reply' = reply /\ reply' \in Replies
        /\ \E q \in Call :
             /\ call' = [call EXCEPT ![c] = q]
             /\ q.op = call[c].op /\ q.at = "update" /\ q.key = call[c].key
             /\ q.user = call[c].user /\ q.id = call[c].id /\ q.old = call[c].old
    BY <1>6, RedisGoto
  <2>2. PICK q \in Call :
             /\ call' = [call EXCEPT ![c] = q]
             /\ q.op = call[c].op /\ q.at = "update" /\ q.key = call[c].key
             /\ q.user = call[c].user /\ q.id = call[c].id /\ q.old = call[c].old
    BY <2>1
  <2>3. Given(c, q) /\ Informed(kv, idx, q)
    BY <1>1, <1>2, <1>6, <2>2 DEF Given, Informed
  <2>4. ASSUME OneWriter
        PROVE  Guarded(kv, q)
    BY <1>1, <1>4, <2>2, <2>4 DEF Guarded
  <2>5. RedisPromised
    BY <1>1, <2>1 DEF RedisPromised, UserTable, UserReply
  <2> QED
    BY <1>1, <2>1, <2>2, <2>3, <2>4, <2>5, RedisMoves
<1> QED
  BY <1>3, <1>5, <1>6

\* So does what the deletion has read.
LEMMA DeleteReadRedis ==
  ASSUME RedisInv, NEW c \in Clients, DeleteRead(c), UNCHANGED emailsOf
  PROVE  RedisInv' /\ RedisPromised
<1> DEFINE i == IdOf(c)
<1>1. /\ call[c].at = "read" /\ Given(c, call[c]) /\ call[c].op = "DeleteUser"
      /\ UNCHANGED <<kv, idx>>
  BY DEF DeleteRead, At, RedisInv, RedisTyped
<1>2. /\ call[c].user = {} /\ call[c].key = i /\ call[c].id = {i} /\ i \in Ids
      /\ call[c] \in Call
  BY <1>1, RedisArguments DEF RedisInv
<1>3. \/ i \notin DOMAIN kv /\ Return(c, "notfound", {})
      \/ /\ i \in DOMAIN kv /\ reply' = reply
         /\ call' = [call EXCEPT ![c].old = {kv[i].email}, ![c].at = "delete"]
  BY <1>2 DEF DeleteRead
<1> HIDE DEF i
<1>4. ASSUME i \notin DOMAIN kv, Return(c, "notfound", {})
      PROVE  RedisInv' /\ RedisPromised
  <2>1. {} \in SUBSET User /\ {WithPassword(w) : w \in {}} = {}
    OBVIOUS
  <2>2. UserReply' = Abstract!Reply("DeleteUser", i, "notfound", {})
    BY <1>1, <1>2, <1>4, <2>1, RedisReturn
  <2>3. RedisInv'
    BY <1>1, <1>4, <2>1, RedisReturnKeeps
  <2>4. DOMAIN UserTable = DOMAIN kv /\ UserTable' = UserTable
    BY <1>1, UserTableIs
  <2>5. Abstract!DeleteUser(i)
    BY <1>4, <2>2, <2>4 DEF Abstract!DeleteUser, UserTable, UserReply
  <2> QED
    BY <1>2, <2>3, <2>5 DEF RedisPromised, Abstract!Next
<1>5. ASSUME i \in DOMAIN kv, reply' = reply,
             call' = [call EXCEPT ![c].old = {kv[i].email}, ![c].at = "delete"]
      PROVE  RedisInv' /\ RedisPromised
  <2> DEFINE e == kv[i].email
             q == [call[c] EXCEPT !.old = {e}, !.at = "delete"]
  <2>1. call \in [Clients -> Call] /\ reply' \in Replies
    BY <1>5 DEF RedisInv, RedisTyped, TypeOK
  <2>2. call' = [call EXCEPT ![c] = q]
    BY <1>5, <2>1
  <2>3. e \in Emails /\ e = kv[i].email
    BY <1>5, UserTableIs DEF User
  <2> HIDE DEF e
  <2>4. /\ q \in Call
        /\ q.op = call[c].op /\ q.at = "delete" /\ q.key = call[c].key
        /\ q.user = call[c].user /\ q.id = call[c].id /\ q.old = {e}
    BY <1>2, <2>3 DEF Call
  <2> HIDE DEF q
  <2>5. Given(c, q)
    BY <1>1, <2>3, <2>4 DEF Given
  <2>6. Guarded(kv, q) /\ Informed(kv, idx, q)
    BY <1>1, <1>2, <1>5, <2>3, <2>4 DEF Guarded, Informed
  <2>7. RedisPromised
    BY <1>1, <1>5 DEF RedisPromised, UserTable, UserReply
  <2> QED
    BY <1>1, <2>1, <2>2, <2>4, <2>5, <2>6, <2>7, RedisMoves
<1> QED
  BY <1>3, <1>4, <1>5

\* Who else writes elsewhere, so what it has read is still so after a write.
LEMMA RedisWrites ==
  ASSUME RedisInv, UNCHANGED emailsOf, reply' \in Replies,
         NEW c \in Clients, call' = [call EXCEPT ![c] = Idle], NEW i \in IdsOf[c],
         kv' \in MapsOf(Ids, User), idx' \in MapsOf(Emails, Ids),
         \A j : j # i => /\ j \in DOMAIN kv' <=> j \in DOMAIN kv
                         /\ j \in DOMAIN kv => kv'[j] = kv[j],
         OneWriter => IndexSound',
         OneWriter /\ Partitioned =>
           /\ Complete(kv', idx')
           /\ \A e : e \notin emailsOf[c] => (e \in DOMAIN idx' <=> e \in DOMAIN idx)
  PROVE  RedisInv'
<1>1. call \in [Clients -> Call] /\ TypeOK /\ emailsOf' = emailsOf
  BY DEF RedisInv, RedisTyped, TypeOK
<1>2. \A d \in Clients : call'[d] = IF d = c THEN Idle ELSE call[d]
  BY <1>1
<1>3. RedisTyped'
  <2>1. call' \in [Clients -> Call]
    BY <1>1, RedisIdle
  <2>2. TypeOK'
    BY <1>1, <2>1, RedisMaps DEF TypeOK
  <2>3. \A d \in Clients : Given(d, call'[d])
    BY <1>2, RedisIdle DEF RedisInv, RedisTyped
  <2>4. \A d \in Clients : Given(d, call[d])'
    BY <1>1, <2>3 DEF Given, UsersOf
  <2> QED
    BY <2>2, <2>4 DEF RedisTyped
<1>4. ASSUME NEW d \in Clients, d # c, OneWriter
      PROVE  /\ Guarded(kv', call[d])
             /\ Partitioned => Informed(kv', idx', call[d])
  <2>1. /\ Given(d, call[d]) /\ Guarded(kv, call[d])
        /\ Partitioned => Informed(kv, idx, call[d]) /\ Complete(kv, idx)
    BY <1>4 DEF RedisInv, RedisTyped, RedisSound, RedisComplete
  <2>2. \A u \in UsersOf(d) : u.id \in IdsOf[d] /\ u.email \in emailsOf[d]
    BY UsersOfIs DEF RedisInv, RedisTyped
  <2>3. i \notin IdsOf[d] /\ (Partitioned => emailsOf[c] \cap emailsOf[d] = {})
    BY <1>4 DEF OneWriter, Partitioned
  <2>4. Guarded(kv', call[d])
    <3>1. call[d].at \in {"create", "hexists2", "update", "delete"} => \A j \in call[d].id : j # i
      BY <2>1, <2>2, <2>3 DEF Given
    <3> QED
      BY <2>1, <3>1 DEF Guarded
  <2>5. ASSUME Partitioned
        PROVE  Informed(kv', idx', call[d])
    <3>1. call[d].at \in {"exists", "create", "update"} => \A u \in call[d].user : u.email \notin emailsOf[c]
      BY <2>1, <2>2, <2>3, <2>5 DEF Given
    <3>2. call[d].op = "GetUserByEmail" /\ call[d].at \in {"get", "getfull"} => \A j \in call[d].id : j # i
      <4>1. i \in DOMAIN kv => kv[i].email \in emailsOf[c]
        BY <1>4, <2>1, <2>5 DEF Complete, OneWriter
      <4>2. call[d].op = "GetUserByEmail" => call[d].at = "idle" \/ call[d].key \in emailsOf[d]
        BY <2>1 DEF Given
      <4> QED
        BY <2>1, <2>3, <2>5, <4>1, <4>2 DEF Informed
    <3> QED
      BY <1>4, <2>1, <2>5, <3>1, <3>2 DEF Informed
  <2> QED
    BY <2>4, <2>5
<1>5. ASSUME OneWriter
      PROVE  RedisSound'
  <2>1. \A d \in Clients : Guarded(kv', call'[d])
    BY <1>2, <1>4, <1>5, RedisIdle
  <2>2. \A d \in Clients : Guarded(kv, call[d])'
    BY <2>1 DEF Guarded
  <2> QED
    BY <1>5, <2>2 DEF RedisSound
<1>6. ASSUME OneWriter, Partitioned'
      PROVE  RedisComplete'
  <2>1. Partitioned
    BY <1>1, <1>6 DEF Partitioned
  <2>2. \A d \in Clients : Informed(kv', idx', call'[d])
    BY <1>2, <1>4, <1>6, <2>1, RedisIdle
  <2>3. \A d \in Clients : Informed(kv, idx, call[d])'
    BY <2>2 DEF Informed
  <2>4. Complete(kv, idx)'
    BY <1>1, <1>6, <2>1 DEF Complete
  <2> QED
    BY <2>3, <2>4 DEF RedisComplete
<1> QED
  BY <1>3, <1>5, <1>6 DEF RedisInv, OneWriter

\* Where users and emails have one writer, a user's email is its writer's,
\* and no other user has it.
LEMMA RedisOwns ==
  ASSUME RedisInv, OneWriter, Partitioned, NEW c \in Clients, NEW i \in IdsOf[c]
  PROVE  /\ i \in DOMAIN kv => kv[i].email \in emailsOf[c]
         /\ \A e : e \notin DOMAIN idx => \A j \in DOMAIN kv : kv[j].email # e
         /\ \A j, k \in DOMAIN kv : kv[j].email = kv[k].email => j = k
BY DEF RedisInv, RedisComplete, Complete, OneWriter

\* A write of a user, or its removal, as UserStore has it.
LEMMA UserTableWritten ==
  ASSUME NEW i, NEW v
  PROVE  /\ kv' = Put(kv, i, v) => UserTable' = Put(UserTable, i, WithPassword(v))
         /\ kv' = Without(kv, i) => UserTable' = Without(UserTable, i)
<1>1. ASSUME kv' = Put(kv, i, v)
      PROVE  UserTable' = Put(UserTable, i, WithPassword(v))
  <2>1. UserTable' = [j \in DOMAIN kv' |-> WithPassword(kv'[j])]
    BY DEF UserTable, WithPassword
  <2> QED
    BY <1>1, <2>1 DEF UserTable, Put
<1>2. ASSUME kv' = Without(kv, i)
      PROVE  UserTable' = Without(UserTable, i)
  <2>1. UserTable' = [j \in DOMAIN kv' |-> WithPassword(kv'[j])]
    BY DEF UserTable, WithPassword
  <2> QED
    BY <1>2, <2>1 DEF UserTable, Without, Restrict
<1> QED
  BY <1>1, <1>2

\* The new user's ID is still free, and its email too if it has one writer.
LEMMA CreateExecRedis ==
  ASSUME RedisInv, NEW c \in Clients, CreateExec(c), UNCHANGED emailsOf
  PROVE  RedisInv' /\ (OneWriter => RedisPromised)
<1> DEFINE u == Arg(c)
           i == IdOf(c)
           v == [u EXCEPT !.pw = ""]
<1>1. /\ call[c].at = "create" /\ Given(c, call[c]) /\ call[c].op = "CreateUser"
      /\ kv' = Put(kv, i, v) /\ idx' = Put(idx, u.email, i)
  BY RedisMaps DEF CreateExec, At, RedisInv, RedisTyped, Given
<1>2. /\ call[c].user = {u} /\ u \in User /\ u.id = i /\ call[c].key = i
      /\ call[c].id = {i} /\ i \in Ids /\ i \in IdsOf[c] /\ u.email \in emailsOf[c]
  BY <1>1, RedisArguments DEF RedisInv
<1>3. PICK err \in {"nil", "fault"} : Return(c, err, {u})
  BY <1>2 DEF CreateExec, Answer
<1>4. v \in User /\ v.id = i /\ v.email = u.email /\ u.email \in Emails
  BY <1>2 DEF User
<1>5. v = [u EXCEPT !.pw = ""]
  OBVIOUS
<1> HIDE DEF u, i, v
<1>6. /\ DOMAIN kv' = DOMAIN kv \cup {i} /\ kv'[i] = v
      /\ \A j \in DOMAIN kv : j # i => kv'[j] = kv[j]
      /\ DOMAIN idx' = DOMAIN idx \cup {u.email} /\ idx'[u.email] = i
      /\ \A e \in DOMAIN idx : e # u.email => idx'[e] = idx[e]
  BY <1>1 DEF Put
<1>7. /\ call' = [call EXCEPT ![c] = Idle] /\ reply' \in Replies
      /\ reply' = [op |-> "CreateUser", key |-> u.id, err |-> err, user |-> {u}]
  <2>1. {u} \in SUBSET User
    BY <1>2
  <2>2. /\ call' = [call EXCEPT ![c] = Idle] /\ reply' \in Replies
        /\ reply' = [op |-> call[c].op, key |-> call[c].key, err |-> err, user |-> {u}]
    BY <1>1, <1>3, <2>1, RedisReturn
  <2> QED
    BY <1>1, <1>2, <2>2
<1>8. kv' \in MapsOf(Ids, User) /\ idx' \in MapsOf(Emails, Ids)
  BY <1>1, <1>2, <1>4, PutType, RedisMaps DEF RedisInv, RedisTyped, TypeOK
<1>9. ASSUME OneWriter
      PROVE  i \notin DOMAIN kv /\ IndexSound'
  <2>1. i \notin DOMAIN kv
    BY <1>1, <1>2, <1>9 DEF RedisInv, RedisSound, Guarded
  <2>2. IndexSound
    BY <1>9 DEF RedisInv, RedisSound
  <2> QED
    BY <1>4, <1>6, <2>1, <2>2 DEF IndexSound
<1>10. ASSUME OneWriter, Partitioned
       PROVE  /\ Complete(kv', idx')
              /\ \A e : e \notin emailsOf[c] => (e \in DOMAIN idx' <=> e \in DOMAIN idx)
              /\ \A j \in DOMAIN kv : kv[j].email # u.email
  <2>1. Complete(kv, idx) /\ u.email \notin DOMAIN idx
    BY <1>1, <1>2, <1>10 DEF RedisInv, RedisComplete, Informed
  <2>2. \A j \in DOMAIN kv : kv[j].email # u.email
    BY <1>2, <1>10, <2>1, RedisOwns
  <2>3. \A j \in DOMAIN kv' : kv'[j].email \in DOMAIN idx' /\ idx'[kv'[j].email] = j
    BY <1>4, <1>6, <2>1, <2>2 DEF Complete
  <2>4. \A j \in DOMAIN kv' : \E d \in Clients : j \in IdsOf[d] /\ kv'[j].email \in emailsOf[d]
    BY <1>2, <1>4, <1>6, <2>1 DEF Complete
  <2> QED
    BY <1>2, <1>6, <2>2, <2>3, <2>4 DEF Complete
<1>11. RedisInv'
  BY <1>2, <1>6, <1>7, <1>8, <1>9, <1>10, RedisWrites
<1>12. ASSUME OneWriter, Partitioned
       PROVE  RedisPromised
  <2>1. /\ DOMAIN UserTable = DOMAIN kv
        /\ \A j \in DOMAIN kv : UserTable[j].email = kv[j].email
    BY UserTableIs
  <2>2. UserTable' = Put(UserTable, i, WithPassword(v))
    BY <1>1, UserTableWritten
  <2>3. WithPassword(v).id = i /\ WithPassword(v).email = u.email
    BY <1>4, WithPasswordIs
  <2>4. i \notin DOMAIN UserTable /\ ~ \E j \in DOMAIN UserTable : UserTable[j].email = u.email
    BY <1>9, <1>10, <1>12, <2>1
  <2>5. Abstract!Insert(WithPassword(v))
    BY <2>2, <2>3, <2>4, RedisMaps DEF Abstract!Insert, Abstract!EmailTaken, UserTable
  <2>6. LosesPassword(u)
    BY <1>5, <1>7, <2>5 DEF LosesPassword
  <2> QED
    BY <1>2, <2>6 DEF RedisPromised
<1> QED
  BY <1>11, <1>12 DEF RedisPromised

\* The user is still there with the email that was read, so the index entry
\* that goes is its own; and a new email is still free if it has one writer.
LEMMA UpdateExecRedis ==
  ASSUME RedisInv, NEW c \in Clients, UpdateExec(c), UNCHANGED emailsOf
  PROVE  RedisInv' /\ (OneWriter => RedisPromised)
<1> DEFINE u == Arg(c)
           i == IdOf(c)
           old == Old(c)
<1>1. /\ call[c].at = "update" /\ Given(c, call[c]) /\ call[c].op = "UpdateUser"
      /\ kv' = Put(kv, i, u)
      /\ idx' = IF old = u.email THEN idx ELSE Put(Without(idx, old), u.email, i)
  BY RedisMaps DEF UpdateExec, Reindexed, At, RedisInv, RedisTyped, Given
<1>2. /\ call[c].user = {u} /\ u \in User /\ u.id = i /\ call[c].key = i
      /\ call[c].id = {i} /\ i \in Ids /\ i \in IdsOf[c] /\ u.email \in emailsOf[c]
      /\ call[c].old = {old} /\ old \in Emails
  BY <1>1, RedisArguments DEF RedisInv
<1>3. PICK err \in {"nil", "fault"} : Return(c, err, {u})
  BY <1>2 DEF UpdateExec, Answer
<1>4. u.email \in Emails
  BY <1>2 DEF User
<1> HIDE DEF u, i, old
<1>6. /\ DOMAIN kv' = DOMAIN kv \cup {i} /\ kv'[i] = u
      /\ \A j \in DOMAIN kv : j # i => kv'[j] = kv[j]
  BY <1>1 DEF Put
<1>7. ASSUME old # u.email
      PROVE  /\ DOMAIN idx' = (DOMAIN idx \ {old}) \cup {u.email} /\ idx'[u.email] = i
             /\ \A e \in DOMAIN idx : e # u.email /\ e # old => idx'[e] = idx[e]
  <2> DEFINE x == Without(idx, old)
  <2>1. DOMAIN x = DOMAIN idx \ {old} /\ \A e \in DOMAIN idx : e # old => x[e] = idx[e]
    BY WithoutIs
  <2>2. idx' = Put(x, u.email, i)
    BY <1>1, <1>7
  <2> HIDE DEF x
  <2> QED
    BY <2>1, <2>2 DEF Put
<1>8. /\ call' = [call EXCEPT ![c] = Idle] /\ reply' \in Replies
      /\ UserReply' = Abstract!Reply("UpdateUser", i, err, {WithPassword(u)})
  <2>1. {u} \in SUBSET User /\ {WithPassword(w) : w \in {u}} = {WithPassword(u)}
    BY <1>2
  <2>2. /\ call' = [call EXCEPT ![c] = Idle] /\ reply' \in Replies
        /\ UserReply' = Abstract!Reply(call[c].op, call[c].key, err, {WithPassword(u)})
    BY <1>1, <1>3, <2>1, RedisReturn
  <2> QED
    BY <1>1, <1>2, <2>2
<1>9. kv' \in MapsOf(Ids, User) /\ idx' \in MapsOf(Emails, Ids)
  <2>1. kv \in MapsOf(Ids, User) /\ idx \in MapsOf(Emails, Ids)
    BY RedisMaps DEF RedisInv, RedisTyped, TypeOK
  <2>2. Without(idx, old) \in MapsOf(Emails, Ids)
    BY <2>1, WithoutType
  <2> QED
    BY <1>1, <1>2, <1>4, <2>1, <2>2, PutType
<1>10. ASSUME OneWriter
       PROVE  i \in DOMAIN kv /\ kv[i].email = old /\ IndexSound'
  <2>1. i \in DOMAIN kv /\ kv[i].email = old
    BY <1>1, <1>2, <1>10 DEF RedisInv, RedisSound, Guarded
  <2>2. IndexSound
    BY <1>10 DEF RedisInv, RedisSound
  <2>3. CASE old = u.email
    BY <1>1, <1>6, <2>1, <2>2, <2>3 DEF IndexSound
  <2>4. CASE old # u.email
    BY <1>6, <1>7, <2>1, <2>2, <2>4 DEF IndexSound
  <2> QED
    BY <2>1, <2>3, <2>4
<1>11. ASSUME OneWriter, Partitioned
       PROVE  /\ Complete(kv', idx')
              /\ \A e : e \notin emailsOf[c] => (e \in DOMAIN idx' <=> e \in DOMAIN idx)
              /\ old # u.email => \A j \in DOMAIN kv : kv[j].email # u.email
  <2>1. Complete(kv, idx) /\ (old # u.email => u.email \notin DOMAIN idx)
    BY <1>1, <1>2, <1>11 DEF RedisInv, RedisComplete, Informed
  <2>2. /\ old # u.email => \A j \in DOMAIN kv : kv[j].email # u.email
        /\ old \in emailsOf[c]
        /\ \A j \in DOMAIN kv : j # i => kv[j].email # old
    BY <1>2, <1>10, <1>11, <2>1, RedisOwns
  <2>3. \A j \in DOMAIN kv' : kv'[j].email \in DOMAIN idx' /\ idx'[kv'[j].email] = j
    <3>1. CASE old = u.email
      BY <1>1, <1>6, <1>10, <1>11, <2>1, <3>1 DEF Complete
    <3>2. CASE old # u.email
      BY <1>6, <1>7, <1>10, <1>11, <2>1, <2>2, <3>2 DEF Complete
    <3> QED
      BY <3>1, <3>2
  <2>4. \A j \in DOMAIN kv' : \E d \in Clients : j \in IdsOf[d] /\ kv'[j].email \in emailsOf[d]
    BY <1>2, <1>6, <2>1 DEF Complete
  <2>5. \A e : e \notin emailsOf[c] => (e \in DOMAIN idx' <=> e \in DOMAIN idx)
    BY <1>1, <1>2, <1>7, <2>2
  <2> QED
    BY <2>2, <2>3, <2>4, <2>5 DEF Complete
<1>12. RedisInv'
  BY <1>2, <1>6, <1>8, <1>9, <1>10, <1>11, RedisWrites
<1>13. ASSUME OneWriter, Partitioned
       PROVE  RedisPromised
  <2> DEFINE w == WithPassword(u)
  <2>1. /\ DOMAIN UserTable = DOMAIN kv
        /\ \A j \in DOMAIN kv : UserTable[j].email = kv[j].email
    BY UserTableIs
  <2>2. UserTable' = Put(UserTable, i, w)
    BY <1>1, UserTableWritten
  <2>3. w \in Abstract!User /\ w.id = i /\ w.email = u.email
    BY <1>2, WithPasswordIs
  <2>4. /\ i \in DOMAIN UserTable
        /\ UserTable[i].email # u.email => ~ \E j \in DOMAIN UserTable : UserTable[j].email = u.email
    BY <1>10, <1>11, <1>13, <2>1
  <2> HIDE DEF w
  <2>5. Abstract!Replace(w)
    BY <2>2, <2>3, <2>4, RedisMaps DEF Abstract!Replace, Abstract!EmailTaken, UserTable
  <2>6. UserReply' = Abstract!Reply("UpdateUser", w.id, err, {w})
    BY <1>8, <2>3 DEF w
  <2>7. Abstract!UpdateUser(w)
    BY <2>5, <2>6 DEF Abstract!UpdateUser, UserReply
  <2> QED
    BY <2>3, <2>7 DEF RedisPromised, Abstract!Next
<1> QED
  BY <1>12, <1>13 DEF RedisPromised

\* The index entry that goes is that of the user that goes.
LEMMA DeleteExecRedis ==
  ASSUME RedisInv, NEW c \in Clients, DeleteExec(c), UNCHANGED emailsOf
  PROVE  RedisInv' /\ (OneWriter => RedisPromised)
<1> DEFINE i == IdOf(c)
           old == Old(c)
<1>1. /\ call[c].at = "delete" /\ Given(c, call[c]) /\ call[c].op = "DeleteUser"
      /\ kv' = Without(kv, i) /\ idx' = Without(idx, old)
  BY RedisMaps DEF DeleteExec, At, RedisInv, RedisTyped, Given
<1>2. /\ call[c].key = i /\ call[c].id = {i} /\ i \in Ids /\ i \in IdsOf[c]
      /\ call[c].old = {old} /\ old \in Emails
  BY <1>1, RedisArguments DEF RedisInv
<1>3. PICK err \in {"nil", "fault"} : Return(c, err, {})
  BY DEF DeleteExec, Answer
<1> HIDE DEF i, old
<1>4. /\ DOMAIN kv' = DOMAIN kv \ {i}
      /\ \A j \in DOMAIN kv : j # i => kv'[j] = kv[j]
      /\ DOMAIN idx' = DOMAIN idx \ {old}
      /\ \A e \in DOMAIN idx : e # old => idx'[e] = idx[e]
  BY <1>1 DEF Without, Restrict
<1>5. /\ call' = [call EXCEPT ![c] = Idle] /\ reply' \in Replies
      /\ UserReply' = Abstract!Reply("DeleteUser", i, err, {})
  <2>1. {} \in SUBSET User /\ {WithPassword(w) : w \in {}} = {}
    OBVIOUS
  <2>2. /\ call' = [call EXCEPT ![c] = Idle] /\ reply' \in Replies
        /\ UserReply' = Abstract!Reply(call[c].op, call[c].key, err, {})
    BY <1>1, <1>3, <2>1, RedisReturn
  <2> QED
    BY <1>1, <1>2, <2>2
<1>6. kv' \in MapsOf(Ids, User) /\ idx' \in MapsOf(Emails, Ids)
  BY <1>1, WithoutType, RedisMaps DEF RedisInv, RedisTyped, TypeOK
<1>7. ASSUME OneWriter
      PROVE  i \in DOMAIN kv /\ kv[i].email = old /\ IndexSound'
  <2>1. i \in DOMAIN kv /\ kv[i].email = old
    BY <1>1, <1>2, <1>7 DEF RedisInv, RedisSound, Guarded
  <2>2. IndexSound
    BY <1>7 DEF RedisInv, RedisSound
  <2> QED
    BY <1>4, <2>1, <2>2 DEF IndexSound
<1>8. ASSUME OneWriter, Partitioned
      PROVE  /\ Complete(kv', idx')
             /\ \A e : e \notin emailsOf[c] => (e \in DOMAIN idx' <=> e \in DOMAIN idx)
  <2>1. Complete(kv, idx)
    BY <1>8 DEF RedisInv, RedisComplete
  <2>2. old \in emailsOf[c] /\ \A j \in DOMAIN kv : j # i => kv[j].email # old
    BY <1>2, <1>7, <1>8, RedisOwns
  <2> QED
    BY <1>4, <2>1, <2>2 DEF Complete
<1>9. RedisInv'
  BY <1>2, <1>4, <1>5, <1>6, <1>7, <1>8, RedisWrites
<1>10. ASSUME OneWriter
       PROVE  RedisPromised
  <2>1. DOMAIN UserTable = DOMAIN kv
    BY UserTableIs
  <2>2. UserTable' = Without(UserTable, i)
    BY <1>1, UserTableWritten
  <2>3. Abstract!Remove(i)
    BY <1>7, <1>10, <2>1, <2>2, RedisMaps DEF Abstract!Remove, UserTable
  <2>4. Abstract!DeleteUser(i)
    BY <1>5, <2>3 DEF Abstract!DeleteUser, UserReply
  <2> QED
    BY <1>2, <2>4 DEF RedisPromised, Abstract!Next
<1> QED
  BY <1>9, <1>10

\* Every command keeps the invariant; where each user has one writer it does
\* what it promises.
LEMMA RedisSteps ==
  ASSUME RedisInv, [Next]_vars
  PROVE  RedisInv' /\ (OneWriter => RedisPromised)
<1>1. ASSUME NEW c \in Clients, Step(c), UNCHANGED emailsOf
      PROVE  RedisInv' /\ (OneWriter => RedisPromised)
  BY <1>1, CreateCheckEmailRedis, CreateCheckIdRedis, CreateExecRedis, GetIndexRedis,
     GetFirstRedis, GetFullRedis, UpdateReadRedis, UpdateCheckEmailRedis, UpdateExecRedis,
     DeleteReadRedis, DeleteExecRedis, CommandFailsRedis DEF Step
<1>2. ASSUME UNCHANGED vars
      PROVE  RedisInv' /\ RedisPromised
  <2>1. kv' = kv /\ idx' = idx /\ call' = call /\ reply' = reply /\ emailsOf' = emailsOf
    BY <1>2 DEF vars
  <2>2. \A c \in Clients : Given(c, call[c])' <=> Given(c, call[c])
    BY <2>1 DEF Given, UsersOf
  <2>3. \A c \in Clients : /\ Guarded(kv, call[c])' <=> Guarded(kv, call[c])
                           /\ Informed(kv, idx, call[c])' <=> Informed(kv, idx, call[c])
    BY <2>1 DEF Guarded, Informed
  <2>4. /\ TypeOK' <=> TypeOK
        /\ IndexSound' <=> IndexSound
        /\ Partitioned' <=> Partitioned
        /\ Complete(kv, idx)' <=> Complete(kv, idx)
    BY <2>1 DEF TypeOK, IndexSound, Partitioned, Complete
  <2>5. RedisInv'
    BY <2>2, <2>3, <2>4 DEF RedisInv, RedisTyped, RedisSound, RedisComplete, OneWriter
  <2>6. RedisPromised
    BY <2>1 DEF RedisPromised, UserTable, UserReply
  <2> QED
    BY <2>5, <2>6
<1> QED
  BY <1>1, <1>2, RedisEnterKeeps DEF Next

\* At the start there is no user, no index entry and no call.
LEMMA RedisStart ==
  ASSUME Init
  PROVE  RedisInv /\ Abstract!Init
<1>1. kv = EmptyMap /\ idx = EmptyMap /\ DOMAIN kv = {} /\ DOMAIN idx = {}
  BY DEF Init, EmptyMap, EmptyMap
<1>2. /\ call = [c \in Clients |-> Idle] /\ emailsOf \in Sharings
      /\ reply = [op |-> "none", key |-> "", err |-> "nil", user |-> {}]
  BY DEF Init, NoReply
<1>3. TypeOK
  <2>1. kv \in MapsOf(Ids, User) /\ idx \in MapsOf(Emails, Ids)
    BY <1>1, EmptyMapIs
  <2>2. call \in [Clients -> Call]
    BY <1>2, RedisIdle
  <2>3. reply \in Replies
    BY <1>2 DEF Replies
  <2> QED
    BY <1>2, <2>1, <2>2, <2>3, RedisMaps DEF TypeOK
<1>4. \A c \in Clients : /\ Given(c, call[c]) /\ Guarded(kv, call[c])
                         /\ Informed(kv, idx, call[c])
  BY <1>2, RedisIdle
<1>5. IndexSound /\ Complete(kv, idx)
  BY <1>1 DEF IndexSound, Complete
<1>6. RedisInv
  BY <1>3, <1>4, <1>5 DEF RedisInv, RedisTyped, RedisSound, RedisComplete
<1>7. UserTable = [i \in {} |-> i]
  BY <1>1 DEF UserTable
<1>8. UserReply = [op |-> "none", key |-> "", err |-> "nil", user |-> {}]
  <2> DEFINE users == {WithPassword(u) : u \in reply.user}
  <2>1. UserReply = [reply EXCEPT !.user = users] /\ users = {}
    BY <1>2 DEF UserReply
  <2> HIDE DEF users
  <2> QED
    BY <1>2, <2>1
<1>9. Abstract!Init
  BY <1>7, <1>8 DEF Abstract!Init, Abstract!NoReply, Abstract!EmptyMap, UserTable, UserReply
<1> QED
  BY <1>6, <1>9

\* The keys, the index, the calls and the replies keep their types.
THEOREM RedisTypeCorrect == Spec => []TypeOK
<1>1. Init => RedisInv
  BY RedisStart
<1>2. RedisInv /\ [Next]_vars => RedisInv'
  BY RedisSteps
<1>3. RedisInv => TypeOK
  BY DEF RedisInv, RedisTyped
<1> QED
  BY <1>1, <1>2, <1>3, PTL DEF Spec

\* Where each user has one writer, every entry of the email index leads to a
\* user with that email, although no command looks at more than one of them.
THEOREM RedisIndexSound ==
  ASSUME OneWriter
  PROVE  Spec => []IndexSound
<1>1. Init => RedisInv
  BY RedisStart
<1>2. RedisInv /\ [Next]_vars => RedisInv'
  BY RedisSteps
<1>3. RedisInv => IndexSound
  BY DEF RedisInv, RedisSound
<1> QED
  BY <1>1, <1>2, <1>3, PTL DEF Spec

\* What the race of two clients over one email needs: an email two of them may
\* use.  Where each user and each email has one writer, no email is held twice.
THEOREM RedisEmailsUnique ==
  ASSUME OneWriter
  PROVE  Spec => [](Partitioned => EmailsUnique)
<1>1. Init => RedisInv
  BY RedisStart
<1>2. RedisInv /\ [Next]_vars => RedisInv'
  BY RedisSteps
<1>3. RedisInv => (Partitioned => EmailsUnique)
  BY DEF RedisInv, RedisComplete, Complete, EmailsUnique
<1> QED
  BY <1>1, <1>2, <1>3, PTL DEF Spec

\* Where emails have one writer too, the commands of other clients between
\* those of a call do not show: it is the table of UserStore, except that a
\* user is created without its password.
THEOREM RedisImplements ==
  ASSUME OneWriter
  PROVE  Spec => ImplementsUserStore
<1>1. Init => RedisInv /\ Abstract!Init
  BY RedisStart
<1>2. RedisInv /\ [Next]_vars => RedisInv' /\ RedisPromised
  BY RedisSteps
<1>3. RedisPromised =>
        [Partitioned => Abstract!Next \/ \E u \in User : LosesPassword(u)]_(Abstract!vars)
  BY DEF RedisPromised, Abstract!vars, UserTable, UserReply
<1> QED
  BY <1>1, <1>2, <1>3, PTL DEF Spec, ImplementsUserStore
=============================================================================
