------------------------ MODULE EmailPasswordProofs -------------------------
(***************************************************************************)
(* The email and password strategy for any number of clients, users and    *)
(* passwords, over every storage adapter that does what UserStore says.    *)
(***************************************************************************)
EXTENDS EmailPassword, GoMapsLemmas

\* What a call of the adapter can do to the table.
Write == \/ \E u \in Storage!User : Storage!Insert(u) \/ Storage!Replace(u)
         \/ \E i \in Ids : Storage!Remove(i)
         \/ UNCHANGED store

\* A call of the adapter keeps its types, and its emails unique.
LEMMA WriteKeeps ==
  ASSUME store \in MapsOf(Ids, Storage!User), Storage!EmailsUnique, Write
  PROVE  store' \in MapsOf(Ids, Storage!User) /\ Storage!EmailsUnique'
<1>1. UniqueUsers(store)
  BY DEF UniqueUsers, Storage!EmailsUnique
<1>2. ASSUME NEW u \in Storage!User, Storage!Insert(u) \/ Storage!Replace(u)
      PROVE  Written(store, store', Ids, Storage!User)
  <2>1. u.id \in Ids /\ store' = Put(store, u.id, u)
    BY <1>2 DEF Storage!User, Storage!Insert, Storage!Replace, Storage!Put, Put
  <2>2. \A i \in DOMAIN store : i # u.id => store[i].email # u.email
    BY <1>1, <1>2 DEF UniqueUsers, Storage!Insert, Storage!Replace, Storage!EmailTaken
  <2> QED
    BY <2>1, <2>2 DEF Written
<1>3. ASSUME NEW i \in Ids, Storage!Remove(i)
      PROVE  Written(store, store', Ids, Storage!User)
  BY <1>3 DEF Written, Storage!Remove, Storage!Without, Storage!Restrict, Without, Restrict
<1>4. Written(store, store', Ids, Storage!User)
  BY <1>2, <1>3 DEF Write, Written
<1>5. store' \in MapsOf(Ids, Storage!User) /\ UniqueUsers(store')
  BY <1>1, <1>4, WrittenKeeps
<1> QED
  BY <1>5 DEF UniqueUsers, Storage!EmailsUnique

-----------------------------------------------------------------------------
(* The invariant.  Besides types: what a client is in the middle of, and   *)
(* how what it recorded relates to the table and to the user it fetched.   *)

\* A request on its way knows which request it is and has both credentials;
\* Register has let no password pass that cannot be hashed.
Underway(r) ==
  r.at # "idle" => /\ r.op = IF r.at = "create" THEN "Register" ELSE "Authenticate"
                   /\ \E e \in Emails : r.email = {e}
                   /\ \E p \in Passwords : r.pw = {p}
                   /\ r.at = "create" => \A p \in r.pw : Key[p] \in Hashes

\* What the table says now lies between what it always and what it ever said,
\* and so does the hash of the user that was fetched.
Recorded(st, r) ==
  /\ r.at # "idle" => /\ PasswordOf(st, r.email) \subseteq r.had
                      /\ r.kept \subseteq PasswordOf(st, r.email)
  /\ r.at = "verify" => /\ r.user # {}
                        /\ \A u \in r.user : u.attrs \in r.had /\ r.kept \subseteq {u.attrs}

\* The answers the properties are about.
Answered == LoginProves /\ RegisteredLogsIn /\ LoginHook

Inv == /\ TypeOK
       /\ Storage!EmailsUnique
       /\ \A c \in Clients : Underway(call[c]) /\ Recorded(store, call[c])
       /\ Answered

\* The hashes of an email are what users of the table have.
LEMMA PasswordType ==
  ASSUME NEW st \in MapsOf(Ids, Storage!User), NEW email
  PROVE  PasswordOf(st, email) \subseteq Hashes
<1>1. ASSUME NEW i \in DOMAIN st
      PROVE  st[i].attrs \in Hashes
  <2>1. st[i] \in Storage!User
    BY MapsOfIs
  <2> QED
    BY <2>1 DEF Storage!User
<1> QED
  BY <1>1 DEF PasswordOf

\* A request that is told nothing of credentials satisfies the properties.
LEMMA TellIs ==
  ASSUME TypeOK, NEW r \in Call, NEW hooks \in SUBSET Hooks, NEW fault \in BOOLEAN,
         NEW err \in {"nil", "missing", "nostorage", "nostrategy", "hash", "exists", "invalid", "fault"},
         Tell(r, err, hooks, fault)
  PROVE  /\ answer' \in Answer
         /\ answer'.op = r.op /\ answer'.err = err /\ answer'.pw = r.pw
         /\ answer'.had = r.had /\ answer'.kept = r.kept
         /\ answer'.hooks = hooks /\ answer'.fault = fault
BY DEF Tell, Call, Answer

\* A step that answers nobody leaves no answer behind.
LEMMA SilentIs ==
  ASSUME Silent
  PROVE  answer' \in Answer /\ answer'.op = "none"
BY DEF Silent, NoAnswer, Answer, Optional, Ops

\* A change of the table reaches every request on its way.
LEMMA ObserveIs ==
  ASSUME TypeOK, store' \in MapsOf(Ids, Storage!User), NEW calls \in [Clients -> Call], Observe(calls)
  PROVE  /\ call' \in [Clients -> Call]
         /\ \A c \in Clients :
              LET q == calls[c]
                  now == PasswordOf(store', q.email)
                  p == call'[c]
              IN  IF q.at = "idle" THEN p = q
                  ELSE /\ p.op = q.op /\ p.at = q.at /\ p.email = q.email
                       /\ p.pw = q.pw /\ p.user = q.user
                       /\ p.had = q.had \cup now /\ p.kept = q.kept \cap now
<1> DEFINE now(q) == PasswordOf(store', q.email)
           seen(q) == [q EXCEPT !.had = @ \cup now(q), !.kept = @ \cap now(q)]
<1>1. ASSUME NEW q \in Call
      PROVE  /\ seen(q) \in Call
             /\ seen(q).op = q.op /\ seen(q).at = q.at /\ seen(q).email = q.email
             /\ seen(q).pw = q.pw /\ seen(q).user = q.user
             /\ seen(q).had = q.had \cup now(q) /\ seen(q).kept = q.kept \cap now(q)
  <2>1. now(q) \subseteq Hashes
    BY PasswordType
  <2> HIDE DEF now
  <2> QED
    BY <2>1 DEF Call
<1>2. call' = [c \in Clients |-> IF calls[c].at = "idle" THEN calls[c] ELSE seen(calls[c])]
  BY DEF Observe
<1> HIDE DEF seen
<1> QED
  BY <1>1, <1>2

\* An answer that neither lets anyone in nor refuses credentials calls no hook.
LEMMA OtherAnswer ==
  ASSUME Inv, NEW r \in Call, NEW fault \in BOOLEAN,
         NEW err \in {"nil", "missing", "nostorage", "nostrategy", "hash", "exists", "fault"},
         Tell(r, err, {}, fault), r.op = "Authenticate" => err # "nil"
  PROVE  answer' \in Answer /\ Answered'
<1>1. TypeOK
  BY DEF Inv
<1>2. answer' \in Answer /\ answer'.op = r.op /\ answer'.err = err /\ answer'.hooks = {}
  BY <1>1, TellIs
<1> QED
  BY <1>2 DEF Answered, LoginProves, RegisteredLogsIn, LoginHook

\* Neither does a step that answers nobody.
LEMMA NoAnswerIs ==
  ASSUME Silent
  PROVE  answer' \in Answer /\ Answered'
BY SilentIs DEF Answered, LoginProves, RegisteredLogsIn, LoginHook

\* Where the table stands still, so does all the invariant says of it.
LEMMA StoreStands ==
  ASSUME Inv, UNCHANGED store
  PROVE  store' \in MapsOf(Ids, Storage!User) /\ Storage!EmailsUnique'
BY WriteKeeps DEF Inv, TypeOK, Write

\* A request that begins has recorded what the table says.
LEMMA EnterKeeps ==
  ASSUME Inv, NEW c \in Clients, NEW email \in Optional(Emails), NEW pw \in Optional(Passwords),
         email # {}, pw # {},
         NEW op \in Ops, NEW step \in {"create", "fetch"},
         op = IF step = "create" THEN "Register" ELSE "Authenticate",
         step = "create" => ~(pw \subseteq TooLong),
         Enter(c, op, step, email, pw), UNCHANGED store
  PROVE  /\ call' \in [Clients -> Call]
         /\ \A d \in Clients : Underway(call'[d]) /\ Recorded(store', call'[d])
<1> DEFINE q == [op |-> op, at |-> step, email |-> email, pw |-> pw, user |-> {},
                 had |-> PasswordOf(store, email), kept |-> PasswordOf(store, email)]
<1>1. store \in MapsOf(Ids, Storage!User) /\ call \in [Clients -> Call]
  BY DEF Inv, TypeOK
<1>2. PasswordOf(store, email) \subseteq Hashes
  BY <1>1, PasswordType
<1>3. q \in Call
  BY <1>2 DEF Call
<1>4. call' = [call EXCEPT ![c] = q]
  BY DEF Enter
<1>5. \E e \in Emails : email = {e}
  BY DEF Optional
<1>6. PICK p \in Passwords : pw = {p}
  BY DEF Optional
<1>7. Underway(q)
  BY <1>5, <1>6 DEF Underway, Hashes
<1>8. Recorded(store, q)
  BY DEF Recorded
<1> HIDE DEF q
<1>9. \A d \in Clients : Underway(call[d]) /\ Recorded(store, call[d])
  BY DEF Inv
<1> QED
  BY <1>1, <1>3, <1>4, <1>7, <1>8, <1>9

\* A write, by whomever, keeps what every request recorded between its bounds.
LEMMA ObserveKeeps ==
  ASSUME Inv, Write, NEW calls \in [Clients -> Call], Observe(calls),
         \A d \in Clients : Underway(calls[d]) /\ Recorded(store, calls[d])
  PROVE  /\ call' \in [Clients -> Call]
         /\ \A d \in Clients : Underway(call'[d]) /\ Recorded(store', call'[d])
<1>1. store' \in MapsOf(Ids, Storage!User) /\ TypeOK
  BY WriteKeeps DEF Inv, TypeOK
<1>2. call' \in [Clients -> Call]
  BY <1>1, ObserveIs
<1>3. ASSUME NEW d \in Clients
      PROVE  Underway(call'[d]) /\ Recorded(store', call'[d])
  <2>1. CASE calls[d].at = "idle"
    <3>1. call'[d] = calls[d]
      BY <1>1, <2>1, ObserveIs
    <3> QED
      BY <2>1, <3>1 DEF Underway, Recorded
  <2>2. CASE calls[d].at # "idle"
    <3> DEFINE now == PasswordOf(store', calls[d].email)
    <3>1. /\ call'[d].op = calls[d].op /\ call'[d].at = calls[d].at
          /\ call'[d].email = calls[d].email
          /\ call'[d].pw = calls[d].pw /\ call'[d].user = calls[d].user
          /\ call'[d].had = calls[d].had \cup now /\ call'[d].kept = calls[d].kept \cap now
      BY <1>1, <2>2, ObserveIs
    <3>2. now = PasswordOf(store', call'[d].email)
      BY <3>1
    <3> HIDE DEF now
    <3>3. Underway(call'[d])
      BY <3>1 DEF Underway
    <3>4. Recorded(store', call'[d])
      BY <3>1, <3>2 DEF Recorded
    <3> QED
      BY <3>3, <3>4
  <2> QED
    BY <2>1, <2>2
<1> QED
  BY <1>2, <1>3

\* A request that has returned says nothing any more.
LEMMA IdleIs ==
  Idle \in Call /\ Underway(Idle) /\ \A st : Recorded(st, Idle)
BY DEF Idle, Call, Ops, Optional, Underway, Recorded

\* The parts of the invariant, put together again.
LEMMA Together ==
  ASSUME store' \in MapsOf(Ids, Storage!User), Storage!EmailsUnique',
         app' \in [strategy : BOOLEAN, storage : BOOLEAN, hooks : SUBSET Hooks],
         call' \in [Clients -> Call], answer' \in Answer, Answered',
         \A d \in Clients : Underway(call'[d]) /\ Recorded(store', call'[d])
  PROVE  Inv'
BY DEF Inv, TypeOK, Underway, Recorded, PasswordOf

-----------------------------------------------------------------------------
(* The actions, one by one. *)

\* Register lets nothing pass that lacks a credential or cannot be hashed.
LEMMA RegisterKeeps ==
  ASSUME Inv, NEW c \in Clients, NEW email \in Optional(Emails), NEW pw \in Optional(Passwords),
         Register(c, email, pw)
  PROVE  Inv'
<1> DEFINE r == [Idle EXCEPT !.op = "Register", !.email = email, !.pw = pw]
<1>1. /\ store' \in MapsOf(Ids, Storage!User) /\ Storage!EmailsUnique'
      /\ store' = store
  BY StoreStands DEF Register
<1>2. app' \in [strategy : BOOLEAN, storage : BOOLEAN, hooks : SUBSET Hooks]
  BY DEF Register, Inv, TypeOK
<1>3. r \in Call /\ r.op = "Register"
  BY IdleIs DEF Call, Idle, Ops
<1>4. \/ UNCHANGED call /\ \E err \in {"missing", "nostorage", "hash"} : Tell(r, err, {}, FALSE)
      \/ /\ email # {} /\ pw # {} /\ ~(pw \subseteq TooLong)
         /\ Enter(c, "Register", "create", email, pw) /\ Silent
  BY DEF Register
<1> HIDE DEF r
<1>5. ASSUME UNCHANGED call, NEW err \in {"missing", "nostorage", "hash"}, Tell(r, err, {}, FALSE)
      PROVE  Inv'
  <2>1. answer' \in Answer /\ Answered'
    BY <1>3, <1>5, OtherAnswer
  <2>2. /\ call' \in [Clients -> Call]
        /\ \A d \in Clients : Underway(call'[d]) /\ Recorded(store', call'[d])
    BY <1>1, <1>5 DEF Inv, TypeOK
  <2> QED
    BY <1>1, <1>2, <2>1, <2>2, Together
<1>6. ASSUME email # {}, pw # {}, ~(pw \subseteq TooLong),
             Enter(c, "Register", "create", email, pw), Silent
      PROVE  Inv'
  <2>1. "Register" \in Ops
    BY DEF Ops
  <2>2. /\ call' \in [Clients -> Call]
        /\ \A d \in Clients : Underway(call'[d]) /\ Recorded(store', call'[d])
    BY <1>1, <1>6, <2>1, EnterKeeps
  <2> QED
    BY <1>1, <1>2, <1>6, <2>2, NoAnswerIs, Together
<1> QED
  BY <1>4, <1>5, <1>6

\* A login is refused on the way in without a word about the credentials.
LEMMA AuthenticateKeeps ==
  ASSUME Inv, NEW c \in Clients, NEW email \in Optional(Emails), NEW pw \in Optional(Passwords),
         Authenticate(c, email, pw)
  PROVE  Inv'
<1> DEFINE r == [Idle EXCEPT !.op = "Authenticate", !.email = email, !.pw = pw]
<1>1. /\ store' \in MapsOf(Ids, Storage!User) /\ Storage!EmailsUnique'
      /\ store' = store
  BY StoreStands DEF Authenticate
<1>2. app' \in [strategy : BOOLEAN, storage : BOOLEAN, hooks : SUBSET Hooks]
  BY DEF Authenticate, Inv, TypeOK
<1>3. r \in Call
  BY IdleIs DEF Call, Idle, Ops
<1>4. \/ UNCHANGED call /\ \E err \in {"missing", "nostorage", "nostrategy"} : Tell(r, err, {}, FALSE)
      \/ email # {} /\ pw # {} /\ Enter(c, "Authenticate", "fetch", email, pw) /\ Silent
  BY DEF Authenticate
<1> HIDE DEF r
<1>5. ASSUME UNCHANGED call, NEW err \in {"missing", "nostorage", "nostrategy"}, Tell(r, err, {}, FALSE)
      PROVE  Inv'
  <2>1. answer' \in Answer /\ Answered'
    BY <1>3, <1>5, OtherAnswer
  <2>2. /\ call' \in [Clients -> Call]
        /\ \A d \in Clients : Underway(call'[d]) /\ Recorded(store', call'[d])
    BY <1>1, <1>5 DEF Inv, TypeOK
  <2> QED
    BY <1>1, <1>2, <2>1, <2>2, Together
<1>6. ASSUME email # {}, pw # {}, Enter(c, "Authenticate", "fetch", email, pw), Silent
      PROVE  Inv'
  <2>1. "Authenticate" \in Ops
    BY DEF Ops
  <2>2. /\ call' \in [Clients -> Call]
        /\ \A d \in Clients : Underway(call'[d]) /\ Recorded(store', call'[d])
    BY <1>1, <1>6, <2>1, EnterKeeps
  <2> QED
    BY <1>1, <1>2, <1>6, <2>2, NoAnswerIs, Together
<1> QED
  BY <1>4, <1>5, <1>6

\* The user Register creates carries a hash, never the password that was
\* refused: so the adapter's table keeps its type.
LEMMA RegisterCreateKeeps ==
  ASSUME Inv, NEW c \in Clients, RegisterCreate(c)
  PROVE  Inv'
<1> DEFINE calls == [call EXCEPT ![c] = Idle]
<1>1. /\ call \in [Clients -> Call] /\ call[c] \in Call /\ Underway(call[c])
      /\ call[c].at = "create"
  BY DEF Inv, TypeOK, RegisterCreate, At
<1>2. PICK id \in Ids, e \in call[c].email, p \in call[c].pw :
        Storage!CreateUser([id |-> id, email |-> e, attrs |-> Key[p]])
  BY DEF RegisterCreate
<1>3. [id |-> id, email |-> e, attrs |-> Key[p]] \in Storage!User
  BY <1>1, <1>2 DEF Underway, Storage!User
<1>4. Write /\ reply'.err \in {"nil", "exists", "fault"}
  BY <1>2, <1>3 DEF Storage!CreateUser, Write, Storage!Reply
<1>5. store' \in MapsOf(Ids, Storage!User) /\ Storage!EmailsUnique'
  BY <1>4, WriteKeeps DEF Inv, TypeOK
<1>6. calls \in [Clients -> Call] /\ \A d \in Clients : Underway(calls[d]) /\ Recorded(store, calls[d])
  BY <1>1, IdleIs DEF Inv
<1>7. Observe(calls)
  BY DEF RegisterCreate
<1> HIDE DEF calls
<1>8. /\ call' \in [Clients -> Call]
      /\ \A d \in Clients : Underway(call'[d]) /\ Recorded(store', call'[d])
  BY <1>4, <1>6, <1>7, ObserveKeeps
<1>9. answer' \in Answer /\ Answered'
  <2>1. call[c].op = "Register"
    BY <1>1 DEF Underway
  <2>2. Tell(call[c], reply'.err, {}, reply'.err = "fault")
    BY DEF RegisterCreate
  <2>3. (reply'.err = "fault") \in BOOLEAN
    OBVIOUS
  <2> QED
    BY <1>1, <1>4, <2>1, <2>2, <2>3, OtherAnswer
<1>10. app' \in [strategy : BOOLEAN, storage : BOOLEAN, hooks : SUBSET Hooks]
  BY DEF RegisterCreate, Inv, TypeOK
<1> QED
  BY <1>5, <1>8, <1>9, <1>10, Together

\* The adapter finds the one user with the email, so the password to compare
\* with is all the email had at that instant.  If it finds none, the email had
\* no password all along; if it fails, the answer says so.
LEMMA AuthenticateFetchKeeps ==
  ASSUME Inv, NEW c \in Clients, AuthenticateFetch(c)
  PROVE  Inv'
<1>1. /\ store \in MapsOf(Ids, Storage!User) /\ Storage!EmailsUnique
      /\ call \in [Clients -> Call] /\ call[c] \in Call /\ TypeOK
      /\ Underway(call[c]) /\ Recorded(store, call[c])
      /\ call[c].at = "fetch"
  BY DEF Inv, TypeOK, AuthenticateFetch, At
<1>2. PICK e \in call[c].email : Storage!GetUserByEmail(e)
  BY DEF AuthenticateFetch
<1>3. /\ store' \in MapsOf(Ids, Storage!User) /\ Storage!EmailsUnique'
      /\ store' = store
  BY <1>2, StoreStands DEF Storage!GetUserByEmail
<1>4. app' \in [strategy : BOOLEAN, storage : BOOLEAN, hooks : SUBSET Hooks]
  BY <1>1 DEF AuthenticateFetch, TypeOK
<1>5. call[c].email = {e} /\ call[c].pw # {} /\ call[c].op = "Authenticate"
  BY <1>1, <1>2 DEF Underway
<1>6. PasswordOf(store, call[c].email) = {store[i].attrs : i \in {j \in DOMAIN store : store[j].email = e}}
  BY <1>5 DEF PasswordOf
<1>7. \/ /\ reply'.err = "nil"
         /\ \E i \in DOMAIN store : store[i].email = e /\ reply'.user = {store[i]}
      \/ reply'.err = "notfound" /\ \A i \in DOMAIN store : store[i].email # e
      \/ reply'.err = "fault"
  BY <1>2 DEF Storage!GetUserByEmail, Storage!Reply
<1>8. ASSUME reply'.err # "nil"
      PROVE  Inv'
  <2>1. Tell(call[c], "invalid", {}, reply'.err = "fault") /\ call' = [call EXCEPT ![c] = Idle]
    BY <1>8 DEF AuthenticateFetch
  <2>2. /\ call' \in [Clients -> Call]
        /\ \A d \in Clients : Underway(call'[d]) /\ Recorded(store', call'[d])
    BY <1>1, <1>3, <2>1, IdleIs DEF Inv
  <2>3. reply'.err = "notfound" => call[c].kept = {}
    BY <1>1, <1>6, <1>7 DEF Recorded
  <2>4. (reply'.err = "fault") \in BOOLEAN
    OBVIOUS
  <2>5. /\ answer' \in Answer /\ answer'.err = "invalid"
        /\ answer'.pw = call[c].pw /\ answer'.kept = call[c].kept
        /\ answer'.hooks = {} /\ answer'.fault = (reply'.err = "fault")
    BY <1>1, <2>1, <2>4, TellIs, ZenonT(60)
  <2>6. Answered'
    BY <1>5, <1>7, <1>8, <2>3, <2>5 DEF Answered, LoginProves, RegisteredLogsIn, LoginHook
  <2> QED
    BY <1>3, <1>4, <2>2, <2>5, <2>6, Together
<1>9. ASSUME reply'.err = "nil"
      PROVE  Inv'
  <2> DEFINE q == [call[c] EXCEPT !.at = "verify", !.user = reply'.user]
  <2>1. call' = [call EXCEPT ![c] = q] /\ Silent
    BY <1>9 DEF AuthenticateFetch
  <2>2. PICK i \in DOMAIN store : store[i].email = e /\ reply'.user = {store[i]}
    BY <1>7, <1>9
  <2>3. store[i] \in Storage!User
    BY <1>1, MapsOfIs
  <2>4. PasswordOf(store, call[c].email) = {store[i].attrs}
    BY <1>1, <1>6, <2>2 DEF Storage!EmailsUnique
  <2>5. /\ q \in Call /\ q.op = call[c].op /\ q.at = "verify" /\ q.email = call[c].email
        /\ q.pw = call[c].pw /\ q.user = {store[i]}
        /\ q.had = call[c].had /\ q.kept = call[c].kept
    BY <1>1, <2>2, <2>3 DEF Call
  <2> HIDE DEF q
  <2>6. Underway(q)
    BY <1>1, <1>5, <2>5 DEF Underway
  <2>7. Recorded(store, q)
    BY <1>1, <2>4, <2>5 DEF Recorded
  <2>8. /\ call' \in [Clients -> Call]
        /\ \A d \in Clients : Underway(call'[d]) /\ Recorded(store', call'[d])
    BY <1>1, <1>3, <2>1, <2>5, <2>6, <2>7 DEF Inv
  <2> QED
    BY <1>3, <1>4, <2>1, <2>8, NoAnswerIs, Together
<1> QED
  BY <1>8, <1>9

\* The password is compared with the hash of the user that was fetched, whatever
\* became of the user since.
LEMMA AuthenticateVerifyKeeps ==
  ASSUME Inv, NEW c \in Clients, AuthenticateVerify(c)
  PROVE  Inv'
<1>1. /\ call \in [Clients -> Call] /\ call[c] \in Call /\ TypeOK
      /\ Underway(call[c]) /\ Recorded(store, call[c])
      /\ call[c].at = "verify"
  BY DEF Inv, TypeOK, AuthenticateVerify, At
<1>2. /\ store' \in MapsOf(Ids, Storage!User) /\ Storage!EmailsUnique'
      /\ store' = store /\ app' = app /\ call' = [call EXCEPT ![c] = Idle]
  BY StoreStands DEF AuthenticateVerify
<1>3. app' \in [strategy : BOOLEAN, storage : BOOLEAN, hooks : SUBSET Hooks]
  BY <1>1, <1>2 DEF TypeOK
<1>4. /\ call' \in [Clients -> Call]
      /\ \A d \in Clients : Underway(call'[d]) /\ Recorded(store', call'[d])
  BY <1>1, <1>2, IdleIs DEF Inv
<1>5. PICK p \in call[c].pw, u \in call[c].user :
        IF VerifyPassword(p, u.attrs) THEN Tell(call[c], "nil", app.hooks \cap {"OnLogin"}, FALSE)
                                      ELSE Tell(call[c], "invalid", {}, FALSE)
  BY DEF AuthenticateVerify
<1>6. call[c].pw = {p} /\ u.attrs \in call[c].had /\ call[c].kept \subseteq {u.attrs}
  BY <1>1, <1>5 DEF Underway, Recorded
<1>7. ASSUME Key[p] = u.attrs
      PROVE  answer' \in Answer /\ Answered'
  <2>1. Tell(call[c], "nil", app.hooks \cap {"OnLogin"}, FALSE)
    BY <1>5, <1>7 DEF VerifyPassword
  <2>2. app.hooks \cap {"OnLogin"} \in SUBSET Hooks
    BY DEF Hooks
  <2>3. /\ answer' \in Answer /\ answer'.err = "nil" /\ answer'.pw = call[c].pw
        /\ answer'.had = call[c].had /\ answer'.hooks = app.hooks \cap {"OnLogin"}
    BY <1>1, <2>1, <2>2, TellIs, ZenonT(60)
  <2> QED
    BY <1>2, <1>6, <1>7, <2>3 DEF Answered, LoginProves, RegisteredLogsIn, LoginHook
<1>8. ASSUME Key[p] # u.attrs
      PROVE  answer' \in Answer /\ Answered'
  <2>1. Tell(call[c], "invalid", {}, FALSE)
    BY <1>5, <1>8 DEF VerifyPassword
  <2>2. /\ answer' \in Answer /\ answer'.err = "invalid" /\ answer'.pw = call[c].pw
        /\ answer'.kept = call[c].kept /\ answer'.hooks = {}
    BY <1>1, <2>1, TellIs, ZenonT(60)
  <2> QED
    BY <1>6, <1>8, <2>2 DEF Answered, LoginProves, RegisteredLogsIn, LoginHook
<1> QED
  BY <1>2, <1>3, <1>4, <1>7, <1>8, Together

\* A setter runs when no request has just been answered.
LEMMA ConfigureKeeps ==
  ASSUME Inv, Configure
  PROVE  Inv'
<1>1. /\ store' \in MapsOf(Ids, Storage!User) /\ Storage!EmailsUnique'
      /\ store' = store /\ call' = call /\ Silent
  BY StoreStands DEF Configure
<1>2. app' \in [strategy : BOOLEAN, storage : BOOLEAN, hooks : SUBSET Hooks]
  BY DEF Configure, Use, SetStorage, SetHooks, Inv, TypeOK
<1>3. /\ call' \in [Clients -> Call]
      /\ \A d \in Clients : Underway(call'[d]) /\ Recorded(store', call'[d])
  BY <1>1 DEF Inv, TypeOK
<1> QED
  BY <1>1, <1>2, <1>3, NoAnswerIs, Together

\* What others do to the table reaches every request on its way.
LEMMA ManageKeeps ==
  ASSUME Inv, Manage
  PROVE  Inv'
<1>1. Write
  <2>1. ASSUME NEW u \in Storage!User, Storage!CreateUser(u) \/ Storage!UpdateUser(u)
        PROVE  Write
    BY <2>1 DEF Storage!CreateUser, Storage!UpdateUser, Write
  <2>2. ASSUME NEW i \in Ids, Storage!DeleteUser(i)
        PROVE  Write
    BY <2>2 DEF Storage!DeleteUser, Write
  <2> QED
    BY <2>1, <2>2 DEF Manage
<1>2. store' \in MapsOf(Ids, Storage!User) /\ Storage!EmailsUnique'
  BY <1>1, WriteKeeps DEF Inv, TypeOK
<1>3. /\ call' \in [Clients -> Call]
      /\ \A d \in Clients : Underway(call'[d]) /\ Recorded(store', call'[d])
  BY <1>1, ObserveKeeps DEF Inv, TypeOK, Manage
<1>4. app' \in [strategy : BOOLEAN, storage : BOOLEAN, hooks : SUBSET Hooks] /\ Silent
  BY DEF Manage, Inv, TypeOK
<1> QED
  BY <1>2, <1>3, <1>4, NoAnswerIs, Together

\* At the start nobody is registered and nobody has asked.
LEMMA StartIs ==
  ASSUME Init
  PROVE  Inv
<1>1. store \in MapsOf(Ids, Storage!User) /\ Storage!EmailsUnique
  BY EmptyMapIs DEF Init, Storage!Init, Storage!EmailsUnique, Storage!EmptyMap, EmptyMap
<1>2. /\ call \in [Clients -> Call]
      /\ \A d \in Clients : Underway(call[d]) /\ Recorded(store, call[d])
  BY IdleIs DEF Init
<1>3. answer \in Answer /\ Answered
  BY DEF Init, NoAnswer, Answer, Ops, Optional, Answered, LoginProves, RegisteredLogsIn, LoginHook
<1>4. app \in [strategy : BOOLEAN, storage : BOOLEAN, hooks : SUBSET Hooks]
  BY DEF Init
<1> QED
  BY <1>1, <1>2, <1>3, <1>4 DEF Inv, TypeOK

\* The invariant holds in every state the program can reach.
LEMMA InvHolds == Spec => []Inv
<1>1. Inv /\ [Next]_vars => Inv'
  <2> SUFFICES ASSUME Inv, [Next]_vars
               PROVE  Inv'
    OBVIOUS
  <2>1. ASSUME NEW c \in Clients, NEW email \in Optional(Emails), NEW pw \in Optional(Passwords),
               Register(c, email, pw) \/ Authenticate(c, email, pw)
        PROVE  Inv'
    BY <2>1, RegisterKeeps, AuthenticateKeeps
  <2>2. ASSUME NEW c \in Clients,
               RegisterCreate(c) \/ AuthenticateFetch(c) \/ AuthenticateVerify(c)
        PROVE  Inv'
    BY <2>2, RegisterCreateKeeps, AuthenticateFetchKeeps, AuthenticateVerifyKeeps
  <2>3. ASSUME UNCHANGED vars
        PROVE  Inv'
    <3>1. store' = store /\ app' = app /\ call' = call /\ answer' = answer
      BY <2>3 DEF vars
    <3>2. store' \in MapsOf(Ids, Storage!User) /\ Storage!EmailsUnique'
      BY <3>1, StoreStands
    <3>3. Answered' /\ answer' \in Answer
      BY <3>1 DEF Inv, TypeOK, Answered, LoginProves, RegisteredLogsIn, LoginHook
    <3> QED
      BY <3>1, <3>2, <3>3, Together DEF Inv, TypeOK
  <2> QED
    BY <2>1, <2>2, <2>3, ConfigureKeeps, ManageKeeps DEF Next
<1> QED
  BY <1>1, StartIs, PTL DEF Spec

-----------------------------------------------------------------------------
\* The table, the requests and the answers keep their types: in particular no
\* user is ever stored with a password that bcrypt refused.
THEOREM TypeCorrect == Spec => []TypeOK
BY InvHolds, PTL DEF Inv

\* Whatever other clients, providers and administrators do to the table while
\* a login is under way, who is let in named a password that bcrypt cannot
\* tell from the one the user with that email had during the request.
THEOREM LoginsProve == Spec => []LoginProves
BY InvHolds, PTL DEF Inv, Answered

\* And who is refused for the credentials did not name the password that the
\* email had all along, unless the adapter failed.
THEOREM TheRegisteredLogIn == Spec => []RegisteredLogsIn
BY InvHolds, PTL DEF Inv, Answered

\* OnLogin is called exactly when a login succeeds.
THEOREM HookOnLogin == Spec => []LoginHook
BY InvHolds, PTL DEF Inv, Answered
=============================================================================
