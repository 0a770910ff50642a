------------------------ MODULE MemoryStorageProofs -------------------------
(***************************************************************************)
(* The memory adapter for any number of users, emails and objects, and     *)
(* what every adapter that implements UserStore inherits from it.          *)
(***************************************************************************)
EXTENDS MemoryStorage, GoMapsLemmas

VARIABLE store
Contract == INSTANCE UserStore

\* The adapter holds objects, and every object it holds has the type of one.
LEMMA StoredType ==
  ASSUME TypeOK, NEW i \in DOMAIN users
  PROVE  i \in Ids /\ users[i] \in Ptrs /\ Stored(i) \in User
BY MapsOfIs DEF TypeOK, Stored

\* Every action keeps the types of the heap, of the two maps and of replies.
THEOREM TypeCorrect == Spec => []TypeOK
<1>1. Init => TypeOK
  <2>1. EmptyMap \in MapsOf(Ids, Ptrs) /\ EmptyMap \in MapsOf(Emails, Ids)
    BY EmptyMapIs
  <2>2. NoReply.err = "nil" /\ NoReply.user = {}
    BY DEF NoReply, Reply
  <2> QED
    BY <2>1, <2>2 DEF Init, TypeOK
<1>2. TypeOK /\ [Next]_vars => TypeOK'
  <2> SUFFICES ASSUME TypeOK, [Next]_vars
               PROVE  TypeOK'
    OBVIOUS
  <2>1. ASSUME NEW p \in Ptrs, NEW u \in User, NewUser(p, u) \/ EditStored(p, u)
        PROVE  TypeOK'
    BY <2>1 DEF TypeOK, NewUser, EditStored
  <2>2. ASSUME NEW p \in Ptrs, CreateUser(p)
        PROVE  TypeOK'
    <3>1. heap[p] \in User /\ heap[p].id \in Ids /\ heap[p].email \in Emails
      BY DEF TypeOK, User
    <3>2. users' \in MapsOf(Ids, Ptrs) /\ email' \in MapsOf(Emails, Ids)
      BY <2>2, <3>1, PutType DEF TypeOK, CreateUser
    <3> QED
      BY <2>2, <3>1, <3>2 DEF TypeOK, CreateUser, Reply
  <2>3. ASSUME NEW p \in Ptrs, UpdateUser(p)
        PROVE  TypeOK'
    <3>1. heap[p] \in User /\ heap[p].id \in Ids /\ heap[p].email \in Emails
      BY DEF TypeOK, User
    <3>2. users' \in MapsOf(Ids, Ptrs)
      BY <2>3, <3>1, PutType DEF TypeOK, UpdateUser
    <3>3. MoveEmail(heap[p].id, heap[p].email) \in MapsOf(Emails, Ids)
      BY <3>1, PutType, WithoutType DEF TypeOK, MoveEmail
    <3> QED
      BY <2>3, <3>1, <3>2, <3>3 DEF TypeOK, UpdateUser, Reply
  <2>4. ASSUME NEW i \in Ids, GetUserById(i)
        PROVE  TypeOK'
    BY <2>4, StoredType DEF TypeOK, GetUserById, Reply
  <2>5. ASSUME NEW i \in Ids, DeleteUser(i)
        PROVE  TypeOK'
    BY <2>5, WithoutType DEF TypeOK, DeleteUser, Reply
  <2>6. ASSUME NEW e \in Emails, GetUserByEmail(e)
        PROVE  TypeOK'
    <3>1. e \in DOMAIN email /\ email[e] \in DOMAIN users => Stored(email[e]) \in User
      BY StoredType
    <3> QED
      BY <2>6, <3>1 DEF TypeOK, GetUserByEmail, Reply
  <2>7. CASE Clear
    BY <2>7, EmptyMapIs DEF TypeOK, Clear, NoReply, Reply
  <2>8. CASE UNCHANGED vars
    BY <2>8 DEF TypeOK, vars
  <2> QED
    BY <2>1, <2>2, <2>3, <2>4, <2>5, <2>6, <2>7, <2>8 DEF Next, Operation
<1> QED
  BY <1>1, <1>2, PTL DEF Spec

-----------------------------------------------------------------------------
\* As long as callers leave the email of stored objects alone, the index and
\* the users agree: whatever the calls, the user found by an email has that
\* email, and no other user has it.
THEOREM IndexConsistent ==
  ASSUME "email" \notin InPlace
  PROVE  Spec => []IndexAgrees
<1>1. Init => IndexAgrees
  BY EmptyMapIs DEF Init, IndexAgrees
<1>2. TypeOK /\ IndexAgrees /\ [Next]_vars => IndexAgrees'
  <2> SUFFICES ASSUME TypeOK, IndexAgrees, [Next]_vars
               PROVE  IndexAgrees'
    OBVIOUS
  <2>0. users \in MapsOf(Ids, Ptrs) /\ users \in [DOMAIN users -> Ptrs]
    BY MapsOfIs DEF TypeOK
  <2>1. ASSUME NEW p \in Ptrs, NEW u \in User, NewUser(p, u)
        PROVE  IndexAgrees'
    <3>1. \A i \in DOMAIN users : heap'[users[i]] = heap[users[i]]
      BY <2>1, <2>0 DEF TypeOK, NewUser, Held, Range
    <3> QED
      BY <2>1, <3>1 DEF NewUser, IndexAgrees, Stored
  <2>2. ASSUME NEW p \in Ptrs, NEW u \in User, EditStored(p, u)
        PROVE  IndexAgrees'
    <3>1. \A i \in DOMAIN users :
            /\ heap'[users[i]].id = heap[users[i]].id
            /\ heap'[users[i]].email = heap[users[i]].email
      BY <2>2, <2>0 DEF TypeOK, EditStored
    <3> QED
      BY <2>2, <3>1 DEF EditStored, IndexAgrees, Stored
  <2>3. ASSUME NEW p \in Ptrs, CreateUser(p)
        PROVE  IndexAgrees'
    <3> DEFINE u == heap[p]
    <3>1. CASE u.id \notin DOMAIN users /\ ~EmailTaken(u.email)
      <4>1. /\ users' = Put(users, u.id, p)
            /\ email' = Put(email, u.email, u.id)
            /\ heap' = heap
        BY <2>3, <3>1 DEF CreateUser
      <4>2. /\ DOMAIN users' = DOMAIN users \cup {u.id}
            /\ users'[u.id] = p
            /\ \A i \in DOMAIN users : users'[i] = users[i]
        BY <3>1, <4>1 DEF Put
      <4>3. /\ DOMAIN email' = DOMAIN email \cup {u.email}
            /\ email'[u.email] = u.id
            /\ \A e \in DOMAIN email : email'[e] = email[e]
        BY <3>1, <4>1 DEF EmailTaken, Put
      <4>4. ASSUME NEW i \in DOMAIN users'
            PROVE  /\ Stored(i)'.id = i
                   /\ Stored(i)'.email \in DOMAIN email'
                   /\ email'[Stored(i)'.email] = i
        <5>1. CASE i = u.id
          BY <4>1, <4>2, <4>3, <5>1 DEF Stored
        <5>2. CASE i # u.id
          BY <4>1, <4>2, <4>3, <5>2 DEF IndexAgrees, Stored
        <5> QED
          BY <5>1, <5>2
      <4>5. ASSUME NEW e \in DOMAIN email'
            PROVE  email'[e] \in DOMAIN users' /\ Stored(email[e])'.email = e
        <5>1. CASE e = u.email
          BY <4>1, <4>2, <4>3, <5>1 DEF Stored
        <5>2. CASE e # u.email
          BY <3>1, <4>1, <4>2, <4>3, <5>2 DEF IndexAgrees, Stored
        <5> QED
          BY <5>1, <5>2
      <4> QED
        BY <4>4, <4>5 DEF IndexAgrees
    <3>2. CASE ~(u.id \notin DOMAIN users /\ ~EmailTaken(u.email))
      BY <2>3, <3>2 DEF CreateUser, IndexAgrees, Stored
    <3> QED
      BY <3>1, <3>2
  <2>4. ASSUME NEW p \in Ptrs, UpdateUser(p)
        PROVE  IndexAgrees'
    <3> DEFINE u == heap[p]
               known == u.id \in DOMAIN users
               clash == known /\ Stored(u.id).email # u.email /\ EmailTaken(u.email)
    <3>1. CASE known /\ ~clash
      <4>1. /\ users' = Put(users, u.id, p)
            /\ email' = MoveEmail(u.id, u.email)
            /\ heap' = heap
        BY <2>4, <3>1 DEF UpdateUser
      <4>0. /\ DOMAIN users' = DOMAIN users
            /\ users'[u.id] = p
            /\ \A i \in DOMAIN users : i # u.id => users'[i] = users[i]
        BY <3>1, <4>1 DEF Put
      <4>2. CASE Stored(u.id).email = u.email
        <5>1. email' = email
          BY <4>1, <4>2 DEF MoveEmail
        <5> QED
          BY <3>1, <4>0, <4>1, <4>2, <5>1 DEF IndexAgrees, Stored
      <4>3. CASE Stored(u.id).email # u.email
        <5>1. email' = Put(Without(email, Stored(u.id).email), u.email, u.id)
          BY <4>1, <4>3 DEF MoveEmail
        <5>2. u.email \notin DOMAIN email
          BY <3>1, <4>3 DEF EmailTaken
        <5>3. /\ DOMAIN email' = (DOMAIN email \ {Stored(u.id).email}) \cup {u.email}
              /\ email'[u.email] = u.id
              /\ \A e \in DOMAIN email : e # Stored(u.id).email => email'[e] = email[e]
          <6> DEFINE m == Without(email, Stored(u.id).email)
          <6>1. /\ DOMAIN m = DOMAIN email \ {Stored(u.id).email}
                /\ \A e \in DOMAIN email : e # Stored(u.id).email => m[e] = email[e]
            BY WithoutIs
          <6>2. /\ DOMAIN email' = DOMAIN m \cup {u.email}
                /\ email'[u.email] = u.id
                /\ \A e \in DOMAIN m : e # u.email => email'[e] = m[e]
            BY <5>1 DEF Put
          <6> QED
            BY <5>2, <6>1, <6>2
        <5>4. ASSUME NEW i \in DOMAIN users'
              PROVE  /\ Stored(i)'.id = i
                     /\ Stored(i)'.email \in DOMAIN email'
                     /\ email'[Stored(i)'.email] = i
          <6>1. CASE i = u.id
            BY <4>0, <4>1, <5>3, <6>1 DEF Stored
          <6>2. CASE i # u.id
            <7>1. i \in DOMAIN users /\ Stored(i)' = Stored(i)
              BY <4>0, <4>1, <6>2 DEF Stored
            <7>2. /\ Stored(i).email # u.email
                  /\ Stored(i).email # Stored(u.id).email
              BY <3>1, <5>2, <6>2, <7>1 DEF IndexAgrees
            <7> QED
              BY <5>3, <7>1, <7>2 DEF IndexAgrees
          <6> QED
            BY <6>1, <6>2
        <5>5. ASSUME NEW e \in DOMAIN email'
              PROVE  email'[e] \in DOMAIN users' /\ Stored(email[e])'.email = e
          <6>1. CASE e = u.email
            BY <3>1, <4>0, <4>1, <5>3, <6>1 DEF Stored
          <6>2. CASE e # u.email
            <7>1. e \in DOMAIN email /\ email'[e] = email[e] /\ e # Stored(u.id).email
              BY <5>3, <6>2
            <7>2. email[e] \in DOMAIN users /\ email[e] # u.id
              BY <7>1 DEF IndexAgrees
            <7> QED
              BY <4>0, <4>1, <7>1, <7>2 DEF IndexAgrees, Stored
          <6> QED
            BY <6>1, <6>2
        <5> QED
          BY <5>4, <5>5 DEF IndexAgrees
      <4> QED
        BY <4>2, <4>3
    <3>2. CASE ~(known /\ ~clash)
      BY <2>4, <3>2 DEF UpdateUser, IndexAgrees, Stored
    <3> QED
      BY <3>1, <3>2
  <2>5. ASSUME NEW i \in Ids, DeleteUser(i)
        PROVE  IndexAgrees'
    <3>1. CASE i \in DOMAIN users
      <4>1. /\ DOMAIN users' = DOMAIN users \ {i}
            /\ \A j \in DOMAIN users : j # i => users'[j] = users[j]
            /\ heap' = heap
        BY <2>5, <3>1, WithoutIs DEF DeleteUser
      <4>2. /\ DOMAIN email' = DOMAIN email \ {Stored(i).email}
            /\ \A e \in DOMAIN email : e # Stored(i).email => email'[e] = email[e]
        BY <2>5, <3>1, WithoutIs DEF DeleteUser
      <4> QED
        BY <3>1, <4>1, <4>2 DEF IndexAgrees, Stored
    <3>2. CASE i \notin DOMAIN users
      BY <2>5, <3>2 DEF DeleteUser, IndexAgrees, Stored
    <3> QED
      BY <3>1, <3>2
  <2>6. CASE Clear
    BY <2>6, EmptyMapIs DEF Clear, IndexAgrees
  <2>7. CASE UNCHANGED <<heap, users, email>>
    BY <2>7 DEF IndexAgrees, Stored
  <2> QED
    BY <2>1, <2>2, <2>3, <2>4, <2>5, <2>6, <2>7
       DEF Next, Operation, vars, GetUserById, GetUserByEmail
<1> QED
  BY <1>1, <1>2, TypeCorrect, PTL DEF Spec

-----------------------------------------------------------------------------
(* The refinement: store is the table the two maps and the heap stand for. *)

Table == [i \in DOMAIN users |-> Stored(i)]

\* Looking an email up in the index answers what a scan of the table would.
LEMMA IndexIsScan ==
  ASSUME TypeOK, IndexAgrees, NEW e \in Emails
  PROVE  /\ Abstract!EmailTaken(e) <=> EmailTaken(e)
         /\ {Table[i] : i \in {j \in DOMAIN Table : Table[j].email = e}}
              = IF EmailTaken(e) THEN {Stored(email[e])} ELSE {}
<1>1. ASSUME NEW i \in DOMAIN users, Stored(i).email = e
      PROVE  EmailTaken(e) /\ email[e] = i
  BY <1>1 DEF IndexAgrees, EmailTaken
<1>2. ASSUME EmailTaken(e)
      PROVE  email[e] \in DOMAIN users /\ Stored(email[e]).email = e
  BY <1>2 DEF IndexAgrees, EmailTaken
<1> QED
  BY <1>1, <1>2 DEF Abstract!EmailTaken, Table

\* Every operation takes effect on the table, and answers, as UserStore says.
LEMMA OperationImplements ==
  ASSUME TypeOK, IndexAgrees, Operation
  PROVE  Abstract!Next
<1>1. ASSUME NEW p \in Ptrs, CreateUser(p)
      PROVE  Abstract!Next
  <2> DEFINE u == heap[p]
  <2>1. u \in Abstract!User /\ u.email \in Emails
    BY DEF TypeOK, User, Abstract!User
  <2>2. Abstract!EmailTaken(u.email) <=> EmailTaken(u.email)
    BY <2>1, IndexIsScan
  <2>3. CASE u.id \notin DOMAIN users /\ ~EmailTaken(u.email)
    <3>1. users' = Put(users, u.id, p) /\ heap' = heap
      BY <1>1, <2>3 DEF CreateUser
    <3>2. Table' = Abstract!Put(Table, u.id, u)
      BY <2>3, <3>1 DEF Put, Abstract!Put, Stored, Table
    <3>3. reply' = Abstract!Reply("CreateUser", u.id, "nil", {u})
      BY <1>1, <2>3 DEF CreateUser, Reply, Abstract!Reply
    <3> QED
      BY <2>1, <2>2, <2>3, <3>2, <3>3
         DEF Table, Abstract!Next, Abstract!CreateUser, Abstract!Insert
  <2>4. CASE ~(u.id \notin DOMAIN users /\ ~EmailTaken(u.email))
    <3>1. Table' = Table /\ reply' = Abstract!Reply("CreateUser", u.id, "exists", {u})
      BY <1>1, <2>4 DEF CreateUser, Reply, Abstract!Reply, Stored, Table
    <3> QED
      BY <2>1, <2>2, <2>4, <3>1 DEF Table, Abstract!Next, Abstract!CreateUser
  <2> QED
    BY <2>3, <2>4
<1>2. ASSUME NEW p \in Ptrs, UpdateUser(p)
      PROVE  Abstract!Next
  <2> DEFINE u == heap[p]
             known == u.id \in DOMAIN users
             clash == known /\ Stored(u.id).email # u.email /\ EmailTaken(u.email)
  <2>1. u \in Abstract!User /\ u.email \in Emails
    BY DEF TypeOK, User, Abstract!User
  <2>2. Abstract!EmailTaken(u.email) <=> EmailTaken(u.email)
    BY <2>1, IndexIsScan
  <2>3. CASE known /\ ~clash
    <3>1. users' = Put(users, u.id, p) /\ heap' = heap
      BY <1>2, <2>3 DEF UpdateUser
    <3>2. Table' = Abstract!Put(Table, u.id, u)
      BY <2>3, <3>1 DEF Put, Abstract!Put, Stored, Table
    <3>3. reply' = Abstract!Reply("UpdateUser", u.id, "nil", {u})
      BY <1>2, <2>3 DEF UpdateUser, Reply, Abstract!Reply
    <3> QED
      BY <2>1, <2>2, <2>3, <3>2, <3>3
         DEF Table, Abstract!Next, Abstract!UpdateUser, Abstract!Replace
  <2>4. CASE ~known
    <3>1. Table' = Table /\ reply' = Abstract!Reply("UpdateUser", u.id, "notfound", {u})
      BY <1>2, <2>4 DEF UpdateUser, Reply, Abstract!Reply, Stored, Table
    <3> QED
      BY <2>1, <2>4, <3>1 DEF Table, Abstract!Next, Abstract!UpdateUser
  <2>5. CASE clash
    <3>1. Table' = Table /\ reply' = Abstract!Reply("UpdateUser", u.id, "exists", {u})
      BY <1>2, <2>5 DEF UpdateUser, Reply, Abstract!Reply, Stored, Table
    <3> QED
      BY <2>1, <2>2, <2>5, <3>1 DEF Table, Abstract!Next, Abstract!UpdateUser
  <2> QED
    BY <2>3, <2>4, <2>5
<1>3. ASSUME NEW i \in Ids, GetUserById(i)
      PROVE  Abstract!Next
  <2>1. Table' = Table
    BY <1>3 DEF GetUserById, Stored, Table
  <2>2. {Table[j] : j \in DOMAIN Table \cap {i}}
          = IF i \in DOMAIN users THEN {Stored(i)} ELSE {}
    BY DEF Table
  <2>3. CASE i \in DOMAIN users
    BY <1>3, <2>1, <2>2, <2>3
       DEF GetUserById, Reply, Abstract!Reply, Abstract!Next, Abstract!GetUserById, Table
  <2>4. CASE i \notin DOMAIN users
    BY <1>3, <2>1, <2>2, <2>4
       DEF GetUserById, Reply, Abstract!Reply, Abstract!Next, Abstract!GetUserById, Table
  <2> QED
    BY <2>3, <2>4
<1>4. ASSUME NEW i \in Ids, DeleteUser(i)
      PROVE  Abstract!Next
  <2>1. CASE i \in DOMAIN users
    <3>1. users' = Without(users, i) /\ heap' = heap
      BY <1>4, <2>1 DEF DeleteUser
    <3>2. Table' = Abstract!Without(Table, i)
      BY <2>1, <3>1 DEF Without, Abstract!Without, Restrict, Abstract!Restrict, Stored, Table
    <3>3. reply' = Abstract!Reply("DeleteUser", i, "nil", {})
      BY <1>4, <2>1 DEF DeleteUser, Reply, Abstract!Reply
    <3> QED
      BY <2>1, <3>2, <3>3 DEF Table, Abstract!Next, Abstract!DeleteUser, Abstract!Remove
  <2>2. CASE i \notin DOMAIN users
    <3>1. Table' = Table /\ reply' = Abstract!Reply("DeleteUser", i, "notfound", {})
      BY <1>4, <2>2 DEF DeleteUser, Reply, Abstract!Reply, Stored, Table
    <3> QED
      BY <2>2, <3>1 DEF Table, Abstract!Next, Abstract!DeleteUser
  <2> QED
    BY <2>1, <2>2
<1>5. ASSUME NEW e \in Emails, GetUserByEmail(e)
      PROVE  Abstract!Next
  <2>1. Table' = Table
    BY <1>5 DEF GetUserByEmail, Stored, Table
  <2>2. {Table[i] : i \in {j \in DOMAIN Table : Table[j].email = e}}
          = IF EmailTaken(e) THEN {Stored(email[e])} ELSE {}
    BY IndexIsScan
  <2>3. CASE EmailTaken(e)
    <3>1. reply' = Abstract!Reply("GetUserByEmail", e, "nil", {Stored(email[e])})
      BY <1>5, <2>3 DEF GetUserByEmail, Reply, Abstract!Reply, EmailTaken, IndexAgrees
    <3> QED
      BY <2>1, <2>2, <2>3, <3>1 DEF Abstract!Next, Abstract!GetUserByEmail, Table
  <2>4. CASE ~EmailTaken(e)
    <3>1. reply' = Abstract!Reply("GetUserByEmail", e, "notfound", {})
      BY <1>5, <2>4 DEF GetUserByEmail, Reply, Abstract!Reply, EmailTaken
    <3> QED
      BY <2>1, <2>2, <2>4, <3>1 DEF Abstract!Next, Abstract!GetUserByEmail, Table
  <2> QED
    BY <2>3, <2>4
<1>6. CASE Clear
  <2>1. Table' = Abstract!EmptyMap /\ reply' = Abstract!NoReply
    BY <1>6 DEF Clear, EmptyMap, Abstract!EmptyMap, NoReply, Reply, Abstract!NoReply, Table
  <2> QED
    BY <2>1 DEF Abstract!Next, Abstract!Clear, Table
<1> QED
  BY <1>1, <1>2, <1>3, <1>4, <1>5, <1>6 DEF Operation

\* Objects the adapter does not hold do not show.
LEMMA NewUserHidden ==
  ASSUME TypeOK, NEW p \in Ptrs, NEW u \in User, NewUser(p, u)
  PROVE  UNCHANGED Abstract!vars
<1>1. users' = users /\ \A i \in DOMAIN users : Stored(i)' = Stored(i)
  BY MapsOfIs DEF TypeOK, NewUser, Held, Range, Stored
<1> QED
  BY <1>1 DEF NewUser, Abstract!vars

\* An edit of a shared object shows as one of the user it stands for.
LEMMA EditTouches ==
  ASSUME TypeOK, IndexAgrees, "email" \notin InPlace,
         NEW p \in Ptrs, NEW u \in User, EditStored(p, u)
  PROVE  \E v \in Abstract!User : Abstract!Touch(v)
<1>1. PICK i \in DOMAIN users : users[i] = p
  BY DEF EditStored, Held, Range
<1>2. users \in [DOMAIN users -> Ptrs]
  BY MapsOfIs DEF TypeOK
<1>3. \A j \in DOMAIN users : j # i => users[j] # p
  BY <1>1 DEF IndexAgrees, Stored
<1>4. u.id = i /\ u.email = Table[i].email
  BY <1>1 DEF EditStored, IndexAgrees, Stored, Table
<1>5. Table' = Abstract!Put(Table, u.id, u)
  BY <1>1, <1>2, <1>3, <1>4 DEF TypeOK, EditStored, Stored, Table, Abstract!Put
<1>6. u \in Abstract!User /\ reply' = reply
  BY DEF User, Abstract!User, EditStored
<1> QED
  BY <1>4, <1>5, <1>6 DEF Abstract!Touch, Table

\* While callers leave the email of shared objects alone the memory adapter
\* is a UserStore, but for what they do to the rest of those objects.
THEOREM MemoryImplementsUserStore ==
  ASSUME "email" \notin InPlace
  PROVE  Spec => ImplementsUserStore
<1>1. Init => Abstract!Init
  BY DEF Init, Abstract!Init, NoReply, Reply, Abstract!NoReply, EmptyMap, Abstract!EmptyMap
<1>2. TypeOK /\ IndexAgrees /\ [Next]_vars => [Abstract!SharedNext]_(Abstract!vars)
  <2> SUFFICES ASSUME TypeOK, IndexAgrees, [Next]_vars
               PROVE  [Abstract!SharedNext]_(Abstract!vars)
    OBVIOUS
  <2>1. ASSUME NEW p \in Ptrs, NEW u \in User, NewUser(p, u)
        PROVE  UNCHANGED Abstract!vars
    BY <2>1, NewUserHidden
  <2>2. ASSUME NEW p \in Ptrs, NEW u \in User, EditStored(p, u)
        PROVE  Abstract!SharedNext
    BY <2>2, EditTouches DEF Abstract!SharedNext
  <2>3. CASE Operation
    BY <2>3, OperationImplements DEF Abstract!SharedNext
  <2>4. CASE UNCHANGED vars
    BY <2>4 DEF vars, Abstract!vars, Stored
  <2> QED
    BY <2>1, <2>2, <2>3, <2>4 DEF Next
<1>3. Spec => []TypeOK /\ []IndexAgrees
  BY TypeCorrect, IndexConsistent
<1> QED
  BY <1>1, <1>2, <1>3, PTL DEF Spec, ImplementsUserStore, Abstract!SharedSpec

\* There what the contract promises of its table is true of the heap and the
\* two maps: every user is under its own ID and no two have the same email.
THEOREM MemoryEmailsUnique ==
  ASSUME "email" \notin InPlace
  PROVE  Spec => []Abstract!EmailsUnique
<1>1. TypeOK /\ IndexAgrees => Abstract!EmailsUnique
  <2> SUFFICES ASSUME TypeOK, IndexAgrees PROVE Abstract!EmailsUnique
    OBVIOUS
  <2>1. \A i \in DOMAIN Table : i \in DOMAIN users /\ Table[i] = Stored(i)
    BY DEF Table
  <2>2. DOMAIN Table = DOMAIN users
    BY DEF Table
  <2> QED
    BY <2>1, <2>2 DEF IndexAgrees, Abstract!EmailsUnique, Table
<1> QED
  BY <1>1, TypeCorrect, IndexConsistent, PTL

-----------------------------------------------------------------------------
(* The contract itself, whichever adapter it is that implements it.         *)

\* Each of the three ways a call changes the table keeps the emails unique.
LEMMA WritesKeepUnique ==
  ASSUME Contract!EmailsUnique
  PROVE  /\ \A u \in User : Contract!Insert(u) \/ Contract!Replace(u) => Contract!EmailsUnique'
         /\ \A i \in Ids : Contract!Remove(i) => Contract!EmailsUnique'
         /\ UNCHANGED store => Contract!EmailsUnique'
<1>1. ASSUME NEW u \in User, Contract!Insert(u) \/ Contract!Replace(u)
      PROVE  Contract!EmailsUnique'
  <2>1. store' = Contract!Put(store, u.id, u)
    BY <1>1 DEF Contract!Insert, Contract!Replace
  <2>2. \A i \in DOMAIN store : i # u.id => store[i].email # u.email
    BY <1>1 DEF Contract!Insert, Contract!Replace, Contract!EmailTaken, Contract!EmailsUnique
  <2> QED
    BY <2>1, <2>2 DEF Contract!EmailsUnique, Contract!Put
<1>2. ASSUME NEW i \in Ids, Contract!Remove(i)
      PROVE  Contract!EmailsUnique'
  BY <1>2 DEF Contract!Remove, Contract!Without, Contract!Restrict, Contract!EmailsUnique
<1>3. UNCHANGED store => Contract!EmailsUnique'
  BY DEF Contract!EmailsUnique
<1> QED
  BY <1>1, <1>2, <1>3

\* Whatever is called, in whatever order, whichever calls fail half way, and
\* whatever is done to shared objects: at most one user has a given email.
THEOREM UserStoreEmailsUnique ==
  /\ Contract!Spec => []Contract!EmailsUnique
  /\ Contract!SharedSpec => []Contract!EmailsUnique
<1>1. Contract!Init => Contract!EmailsUnique
  BY DEF Contract!Init, Contract!EmailsUnique, Contract!EmptyMap
<1>2. Contract!EmailsUnique /\ [Contract!SharedNext]_(Contract!vars) => Contract!EmailsUnique'
  <2> SUFFICES ASSUME Contract!EmailsUnique, [Contract!SharedNext]_(Contract!vars)
               PROVE  Contract!EmailsUnique'
    OBVIOUS
  <2>1. ASSUME NEW u \in User, Contract!CreateUser(u) \/ Contract!UpdateUser(u)
        PROVE  Contract!EmailsUnique'
    <3>1. Contract!Insert(u) \/ Contract!Replace(u) \/ UNCHANGED store
      BY <2>1 DEF Contract!CreateUser, Contract!UpdateUser
    <3> QED
      BY <3>1, WritesKeepUnique
  <2>2. ASSUME NEW i \in Ids, Contract!GetUserById(i) \/ Contract!DeleteUser(i)
        PROVE  Contract!EmailsUnique'
    <3>1. Contract!Remove(i) \/ UNCHANGED store
      BY <2>2 DEF Contract!GetUserById, Contract!DeleteUser
    <3> QED
      BY <3>1, WritesKeepUnique
  <2>3. ASSUME NEW e \in Emails, Contract!GetUserByEmail(e)
        PROVE  Contract!EmailsUnique'
    BY <2>3, WritesKeepUnique DEF Contract!GetUserByEmail
  <2>4. CASE Contract!Clear
    BY <2>4 DEF Contract!Clear, Contract!EmailsUnique, Contract!EmptyMap
  <2>5. CASE UNCHANGED Contract!vars
    BY <2>5, WritesKeepUnique DEF Contract!vars
  <2>6. ASSUME NEW u \in User, Contract!Touch(u)
        PROVE  Contract!EmailsUnique'
    <3>1. Contract!Replace(u)
      BY <2>6 DEF Contract!Touch, Contract!Replace
    <3> QED
      BY <3>1, WritesKeepUnique
  <2>7. Contract!User = User
    BY DEF User, Contract!User
  <2> QED
    BY <2>1, <2>2, <2>3, <2>4, <2>5, <2>6, <2>7 DEF Contract!Next, Contract!SharedNext
<1>3. [Contract!Next]_(Contract!vars) => [Contract!SharedNext]_(Contract!vars)
  BY DEF Contract!SharedNext
<1> QED
  BY <1>1, <1>2, <1>3, PTL DEF Contract!Spec, Contract!SharedSpec
=============================================================================
