------------------------ MODULE OAuthCallbackProofs -------------------------
(***************************************************************************)
(* Logins through the OAuth providers, for any number of clients, users    *)
(* and emails, over every storage adapter that does what UserStore says.   *)
(***************************************************************************)
EXTENDS OAuthCallback, GoMapsLemmas

\* What a call of the adapter can do to the table.
Write == \/ \E u \in Storage!User : Storage!Insert(u) \/ Storage!Replace(u)
         \/ \E i \in Ids : Storage!Remove(i)
         \/ UNCHANGED store

\* A call of the adapter keeps its types, and its emails unique.
LEMMA WriteKeeps ==
  ASSUME store \in MapsOf(Ids, Storage!User), Storage!EmailsUnique, Write
  PROVE  store' \in MapsOf(Ids, Storage!User) /\ Storage!EmailsUnique'
<1>1. UniqueUsers(store)
  BY DEF UniqueUsers, Storage!EmailsUnique
<1>2. ASSUME NEW u \in Storage!User, Storage!Insert(u) \/ Storage!Replace(u)
      PROVE  Written(store, store', Ids, Storage!User)
  <2>1. u.id \in Ids /\ store' = Put(store, u.id, u)
    BY <1>2 DEF Storage!User, Storage!Insert, Storage!Replace, Storage!Put, Put
  <2>2. \A i \in DOMAIN store : i # u.id => store[i].email # u.email
    BY <1>1, <1>2 DEF UniqueUsers, Storage!Insert, Storage!Replace, Storage!EmailTaken
  <2> QED
    BY <2>1, <2>2 DEF Written
<1>3. ASSUME NEW i \in Ids, Storage!Remove(i)
      PROVE  Written(store, store', Ids, Storage!User)
  BY <1>3 DEF Written, Storage!Remove, Storage!Without, Storage!Restrict, Without, Restrict
<1>4. Written(store, store', Ids, Storage!User)
  BY <1>2, <1>3 DEF Write, Written
<1>5. store' \in MapsOf(Ids, Storage!User) /\ UniqueUsers(store')
  BY <1>1, <1>4, WrittenKeeps
<1> QED
  BY <1>5 DEF UniqueUsers, Storage!EmailsUnique

-----------------------------------------------------------------------------
(* The invariant.  Besides types: how what a login recorded relates to the *)
(* table and to the user it found, and how old a client secret can be.     *)

\* A login that has not reached the storage has recorded nothing.  From then
\* on the IDs of its email lie between those it always and those it ever had;
\* the user it found is one of these, and no other was there all along; only
\* its own update, or a disturbance, changes what that user owns.  A login
\* creates a user if it found none, could not look, or is Twitter's.
Recorded(st, r) ==
  /\ r.at \in {"idle", "secret", "exchange"} => r.kept = {}
  /\ r.at \in {"find", "save", "create"} => /\ IdsOf(r.email, st) \subseteq r.had
                                            /\ r.kept \subseteq IdsOf(r.email, st)
  /\ r.at = "save" => /\ r.user # {}
                      /\ \A u \in r.user : /\ u.id \in r.had
                                           /\ r.kept \subseteq {u.id}
                                           /\ ~r.disturbed => Owned(u.id, st) = {<<u.email, u.attrs.own>>}
  /\ r.at = "create" => r.kept = {} \/ r.fault \/ r.provider = "twitter"

\* The secret in use was signed by a login, perhaps by another one and earlier
\* than one's own, but assigned later: it is older by the time that login took.
SecretYoung ==
  \A c \in Clients : Signing(c) /\ At(c, "exchange") => \E age \in secret : age <= Patience + call[c].age

Inv == /\ TypeOK
       /\ Storage!EmailsUnique
       /\ \A c \in Clients : Recorded(store, call[c])
       /\ SecretYoung
       /\ LoginsExist
       /\ ReturningLogsIn

\* The secret is young enough: twice the patience is no more than a lifetime.
LEMMA YoungIsGood ==
  ASSUME TypeOK, SecretYoung
  PROVE  SecretGood
<1> SUFFICES ASSUME 2 * Patience <= Lifetime, NEW c \in Clients, Signing(c), At(c, "exchange")
             PROVE  \E age \in secret : age <= Lifetime
  BY DEF SecretGood
<1>1. call[c].age \in 0..Patience
  BY DEF TypeOK, Call
<1>2. PICK age \in secret : age <= Patience + call[c].age
  BY DEF SecretYoung
<1>3. age \in Nat
  BY LoginsAssumption DEF TypeOK
<1> QED
  BY <1>1, <1>2, <1>3, LoginsAssumption

\* What the callback of a client is told.
LEMMA TellIs ==
  ASSUME TypeOK, NEW c \in Clients, NEW id \in SUBSET Ids,
         NEW err \in {"none", "nil", "missing", "secret", "provider", "exists", "fault"},
         Tell(c, err, id)
  PROVE  /\ answer' \in Answer /\ answer'.err = err /\ answer'.id = id
         /\ answer'.email = call[c].email /\ answer'.fault = call[c].fault
         /\ answer'.sought = (call[c].provider # "twitter")
         /\ answer'.had = call[c].had /\ answer'.kept = call[c].kept
<1>1. call[c] \in Call
  BY DEF TypeOK
<1> QED
  BY <1>1 DEF Tell, Call, Answer

\* A step that answers nobody leaves no answer behind.
LEMMA SilentIs ==
  ASSUME Silent
  PROVE  answer' \in Answer /\ LoginsExist' /\ ReturningLogsIn'
BY DEF Silent, NoAnswer, Answer, MaybeEmail, LoginsExist, ReturningLogsIn

\* A login that is refused before it reached the storage proves nothing wrong.
LEMMA EarlyRefusal ==
  ASSUME Inv, NEW c \in Clients, NEW err \in {"missing", "secret", "provider"}, Tell(c, err, {}),
         call[c].at \in {"idle", "secret", "exchange"}
  PROVE  answer' \in Answer /\ LoginsExist' /\ ReturningLogsIn'
<1>1. answer' \in Answer /\ answer'.err = err /\ answer'.kept = call[c].kept
  BY TellIs DEF Inv
<1>2. call[c].kept = {}
  BY DEF Inv, Recorded
<1> QED
  BY <1>1, <1>2 DEF LoginsExist, ReturningLogsIn

\* Where the table stands still, so does all the invariant says of it.
LEMMA StoreStands ==
  ASSUME Inv, UNCHANGED store
  PROVE  store' \in MapsOf(Ids, Storage!User) /\ Storage!EmailsUnique'
BY WriteKeeps DEF Inv, TypeOK, Write

\* One login moves on, to a state that its record fits; the others stand still.
LEMMA OneMoves ==
  ASSUME Inv, UNCHANGED store, NEW c \in Clients, NEW q \in Call, Recorded(store, q),
         call' = [call EXCEPT ![c] = q]
  PROVE  /\ call' \in [Clients -> Call]
         /\ \A d \in Clients : Recorded(store', call'[d])
<1>1. call \in [Clients -> Call] /\ \A d \in Clients : Recorded(store, call[d])
  BY DEF Inv, TypeOK
<1> QED
  BY <1>1

\* A secret is as young as it was while time stands still, for every login
\* that was already waiting for the provider.
LEMMA SecretStands ==
  ASSUME SecretYoung, UNCHANGED secret,
         \A d \in Clients :
           call'[d].provider = "apple" /\ call'[d].at = "exchange" =>
             /\ call[d].provider = "apple" /\ call[d].at = "exchange"
             /\ call'[d].age = call[d].age
  PROVE  SecretYoung'
BY DEF SecretYoung, Signing, At

\* A login that has returned, or not yet begun, says nothing.
LEMMA IdleIs ==
  Idle \in Call /\ Idle.at = "idle" /\ \A st : Recorded(st, Idle)
BY LoginsAssumption DEF Idle, Call, MaybeEmail, Recorded

\* A change of the table reaches every login that has been told an email.
LEMMA ObserveIs ==
  ASSUME store' \in MapsOf(Ids, Storage!User), NEW calls \in [Clients -> Call], Observe(calls)
  PROVE  /\ call' \in [Clients -> Call]
         /\ \A d \in Clients :
              LET q == calls[d]
                  now == IdsOf(q.email, store')
                  p == call'[d]
              IN  IF q.at \notin {"find", "save", "create"} THEN p = q
                  ELSE /\ p.provider = q.provider /\ p.at = q.at /\ p.age = q.age
                       /\ p.email = q.email /\ p.user = q.user /\ p.fault = q.fault
                       /\ p.had = q.had \cup now /\ p.kept = q.kept \cap now
                       /\ p.disturbed = (q.disturbed \/ \E u \in q.user : Owned(u.id, store') # Owned(u.id, store))
<1> DEFINE now(q) == IdsOf(q.email, store')
           changed(q) == \E u \in q.user : Owned(u.id, store') # Owned(u.id, store)
           seen(q) == [q EXCEPT !.had = @ \cup now(q), !.kept = @ \cap now(q),
                                !.disturbed = @ \/ changed(q)]
<1>1. ASSUME NEW q \in Call
      PROVE  /\ seen(q) \in Call
             /\ seen(q).provider = q.provider /\ seen(q).at = q.at /\ seen(q).age = q.age
             /\ seen(q).email = q.email /\ seen(q).user = q.user /\ seen(q).fault = q.fault
             /\ seen(q).had = q.had \cup now(q) /\ seen(q).kept = q.kept \cap now(q)
             /\ seen(q).disturbed = (q.disturbed \/ changed(q))
  <2>1. now(q) \subseteq Ids
    BY MapsOfIs DEF IdsOf
  <2>2. changed(q) \in BOOLEAN
    OBVIOUS
  <2> HIDE DEF now, changed
  <2> QED
    BY <2>1, <2>2 DEF Call
<1>2. call' = [d \in Clients |-> IF calls[d].at \notin {"find", "save", "create"}
                                 THEN calls[d] ELSE seen(calls[d])]
  BY DEF Observe
<1> HIDE DEF seen
<1> QED
  BY <1>1, <1>2

\* It moves none of them on.
LEMMA ObserveSteady ==
  ASSUME NEW calls \in [Clients -> Call], Observe(calls), NEW d \in Clients
  PROVE  call'[d].at = calls[d].at
<1> DEFINE had(q) == q.had \cup IdsOf(q.email, store')
           kept(q) == q.kept \cap IdsOf(q.email, store')
           changed(q) == q.disturbed \/ \E u \in q.user : Owned(u.id, store') # Owned(u.id, store)
           seen(q) == [q EXCEPT !.had = had(q), !.kept = kept(q), !.disturbed = changed(q)]
<1>1. call' = [c \in Clients |-> IF calls[c].at \notin {"find", "save", "create"}
                                 THEN calls[c] ELSE seen(calls[c])]
  BY DEF Observe
<1> HIDE DEF had, kept, changed
<1>2. \A q \in Call : seen(q).at = q.at
  BY DEF Call
<1> HIDE DEF seen
<1> QED
  BY <1>1, <1>2, SMTT(60)

\* A write, by whomever, keeps what every login recorded between its bounds,
\* and cannot touch what a user found owns without the login taking note.
LEMMA ObserveKeeps ==
  ASSUME store' \in MapsOf(Ids, Storage!User), NEW calls \in [Clients -> Call], Observe(calls),
         \A d \in Clients : Recorded(store, calls[d])
  PROVE  /\ call' \in [Clients -> Call]
         /\ \A d \in Clients : Recorded(store', call'[d])
<1>1. call' \in [Clients -> Call]
  BY ObserveIs
<1>2. ASSUME NEW d \in Clients
      PROVE  Recorded(store', call'[d])
  <2>1. CASE calls[d].at \notin {"find", "save", "create"}
    <3>1. call'[d] = calls[d]
      BY <2>1, ObserveIs
    <3> QED
      BY <2>1, <3>1 DEF Recorded
  <2>2. CASE calls[d].at \in {"find", "save", "create"}
    <3> DEFINE now == IdsOf(calls[d].email, store')
    <3>1. /\ call'[d].provider = calls[d].provider /\ call'[d].at = calls[d].at
          /\ call'[d].email = calls[d].email
          /\ call'[d].user = calls[d].user /\ call'[d].fault = calls[d].fault
          /\ call'[d].had = calls[d].had \cup now /\ call'[d].kept = calls[d].kept \cap now
      BY <2>2, ObserveIs
    <3>2. ~call'[d].disturbed => /\ ~calls[d].disturbed
                                 /\ \A u \in calls[d].user : Owned(u.id, store') = Owned(u.id, store)
      BY <2>2, ObserveIs
    <3>3. now = IdsOf(call'[d].email, store')
      BY <3>1
    <3> HIDE DEF now
    <3> QED
      BY <2>2, <3>1, <3>2, <3>3 DEF Recorded
  <2> QED
    BY <2>1, <2>2
<1> QED
  BY <1>1, <1>2

\* The parts of the invariant, put together again.
LEMMA Together ==
  ASSUME store' \in MapsOf(Ids, Storage!User), Storage!EmailsUnique',
         app' \in [storage : BOOLEAN, key : BOOLEAN],
         secret' \subseteq 0..(Lifetime + 1) \cup 0..Patience,
         call' \in [Clients -> Call], \A d \in Clients : Recorded(store', call'[d]),
         SecretYoung',
         answer' \in Answer, LoginsExist', ReturningLogsIn'
  PROVE  Inv'
BY DEF Inv, TypeOK, Recorded, IdsOf, Owned

-----------------------------------------------------------------------------
(* The actions, one by one. *)

\* The providers but Apple: nothing is recorded yet, and no secret is used.
LEMMA CallbackKeeps ==
  ASSUME Inv, NEW c \in Clients, NEW p \in Providers, NEW code \in BOOLEAN, Callback(c, p, code)
  PROVE  Inv'
<1>1. /\ store' \in MapsOf(Ids, Storage!User) /\ Storage!EmailsUnique'
      /\ store' = store /\ app' = app /\ secret' = secret
  BY StoreStands DEF Callback
<1>2. /\ call \in [Clients -> Call] /\ call[c] \in Call /\ TypeOK
      /\ call[c].at = "idle" /\ call[c].kept = {} /\ p # "apple"
  BY DEF Callback, At, Inv, TypeOK, Recorded
<1>3. ASSUME Tell(c, "missing", {}), UNCHANGED call
      PROVE  Inv'
  <2>1. call' \in [Clients -> Call] /\ \A d \in Clients : Recorded(store', call'[d])
    BY <1>1, <1>2, <1>3 DEF Inv
  <2>2. SecretYoung'
    BY <1>1, <1>3, SecretStands DEF Inv
  <2> QED
    BY <1>1, <1>2, <1>3, <2>1, <2>2, EarlyRefusal, Together DEF TypeOK
<1>4. ASSUME call' = [call EXCEPT ![c].provider = p, ![c].at = "exchange"], Silent
      PROVE  Inv'
  <2> DEFINE q == [call[c] EXCEPT !.provider = p, !.at = "exchange"]
  <2>1. /\ q \in Call /\ q.provider = p /\ q.at = "exchange" /\ q.kept = call[c].kept
        /\ call' = [call EXCEPT ![c] = q]
    BY <1>2, <1>4 DEF Call
  <2> HIDE DEF q
  <2>2. Recorded(store, q)
    BY <1>2, <2>1 DEF Recorded
  <2>3. SecretYoung'
    BY <1>1, <1>2, <2>1, SecretStands DEF Inv
  <2>4. call' \in [Clients -> Call] /\ \A d \in Clients : Recorded(store', call'[d])
    BY <1>1, <2>1, <2>2, OneMoves
  <2> QED
    BY <1>1, <1>2, <1>4, <2>3, <2>4, SilentIs, Together DEF TypeOK
<1> QED
  BY <1>3, <1>4 DEF Callback

\* Apple's: the secret is signed, and not yet used.
LEMMA AppleCallbackKeeps ==
  ASSUME Inv, NEW c \in Clients, NEW code \in BOOLEAN, AppleCallback(c, code)
  PROVE  Inv'
<1>1. /\ store' \in MapsOf(Ids, Storage!User) /\ Storage!EmailsUnique'
      /\ store' = store /\ app' = app /\ secret' = secret
  BY StoreStands DEF AppleCallback
<1>2. /\ call \in [Clients -> Call] /\ call[c] \in Call /\ TypeOK
      /\ call[c].at = "idle" /\ call[c].kept = {}
  BY DEF AppleCallback, At, Inv, TypeOK, Recorded
<1>3. ASSUME NEW err \in {"missing", "secret"}, Tell(c, err, {}), UNCHANGED call
      PROVE  Inv'
  <2>1. call' \in [Clients -> Call] /\ \A d \in Clients : Recorded(store', call'[d])
    BY <1>1, <1>2, <1>3 DEF Inv
  <2>2. SecretYoung'
    BY <1>1, <1>3, SecretStands DEF Inv
  <2> QED
    BY <1>1, <1>2, <1>3, <2>1, <2>2, EarlyRefusal, Together DEF TypeOK
<1>4. ASSUME call' = [call EXCEPT ![c].provider = "apple", ![c].at = "secret", ![c].age = 0], Silent
      PROVE  Inv'
  <2> DEFINE q == [call[c] EXCEPT !.provider = "apple", !.at = "secret", !.age = 0]
  <2>1. /\ q \in Call /\ q.at = "secret" /\ q.kept = call[c].kept
        /\ call' = [call EXCEPT ![c] = q]
    BY <1>2, <1>4, LoginsAssumption DEF Call, Providers
  <2> HIDE DEF q
  <2>2. Recorded(store, q)
    BY <1>2, <2>1 DEF Recorded
  <2>3. SecretYoung'
    BY <1>1, <1>2, <2>1, SecretStands DEF Inv
  <2>4. call' \in [Clients -> Call] /\ \A d \in Clients : Recorded(store', call'[d])
    BY <1>1, <2>1, <2>2, OneMoves
  <2> QED
    BY <1>1, <1>2, <1>4, <2>3, <2>4, SilentIs, Together DEF TypeOK
<1> QED
  BY <1>3, <1>4 DEF AppleCallback, generateClientSecret

\* The secret assigned is as old as the login that signed it: no older than
\* the patience, whichever login uses it.
LEMMA SetSecretKeeps ==
  ASSUME Inv, NEW c \in Clients, SetSecret(c)
  PROVE  Inv'
<1>1. /\ store' \in MapsOf(Ids, Storage!User) /\ Storage!EmailsUnique'
      /\ store' = store /\ app' = app
  BY StoreStands DEF SetSecret
<1>2. /\ call \in [Clients -> Call] /\ call[c] \in Call /\ TypeOK
      /\ call[c].at = "secret" /\ call[c].kept = {} /\ call[c].age \in 0..Patience
  BY DEF SetSecret, At, Inv, TypeOK, Recorded, Call
<1>3. secret' = {call[c].age} /\ Silent
  BY DEF SetSecret
<1> DEFINE q == [call[c] EXCEPT !.at = "exchange"]
<1>4. /\ q \in Call /\ q.at = "exchange" /\ q.kept = call[c].kept
      /\ call' = [call EXCEPT ![c] = q]
  BY <1>2 DEF Call, SetSecret
<1> HIDE DEF q
<1>5. Recorded(store, q)
  BY <1>2, <1>4 DEF Recorded
<1>6. call' \in [Clients -> Call] /\ \A d \in Clients : Recorded(store', call'[d])
  BY <1>1, <1>4, <1>5, OneMoves
<1>7. SecretYoung'
  <2> SUFFICES ASSUME NEW d \in Clients
               PROVE  call[c].age <= Patience + call'[d].age
    BY <1>3 DEF SecretYoung
  <2>1. call'[d].age \in 0..Patience
    BY <1>6 DEF Call
  <2> QED
    BY <1>2, <2>1, LoginsAssumption
<1> QED
  BY <1>1, <1>2, <1>3, <1>6, <1>7, SilentIs, Together DEF TypeOK

LEMMA ProviderFailsKeeps ==
  ASSUME Inv, NEW c \in Clients, ProviderFails(c)
  PROVE  Inv'
<1>1. /\ store' \in MapsOf(Ids, Storage!User) /\ Storage!EmailsUnique'
      /\ store' = store /\ app' = app /\ secret' = secret
  BY StoreStands DEF ProviderFails
<1>2. call \in [Clients -> Call] /\ TypeOK /\ call[c].at = "exchange"
  BY DEF ProviderFails, At, Inv, TypeOK
<1>3. Tell(c, "provider", {}) /\ call' = [call EXCEPT ![c] = Idle]
  BY DEF ProviderFails, Refuse
<1>4. call' \in [Clients -> Call] /\ \A d \in Clients : Recorded(store', call'[d])
  BY <1>1, <1>3, IdleIs, OneMoves
<1>5. SecretYoung'
  BY <1>1, <1>2, <1>3, IdleIs, SecretStands DEF Inv
<1> QED
  BY <1>1, <1>2, <1>3, <1>4, <1>5, EarlyRefusal, Together DEF TypeOK

\* What the table says of the email is recorded as soon as it is known.
LEMMA IdentifiedKeeps ==
  ASSUME Inv, NEW c \in Clients, NEW email \in MaybeEmail, Identified(c, email)
  PROVE  Inv'
<1>1. /\ store' \in MapsOf(Ids, Storage!User) /\ Storage!EmailsUnique'
      /\ store' = store /\ app' = app /\ secret' = secret
  BY StoreStands DEF Identified
<1>2. /\ call \in [Clients -> Call] /\ call[c] \in Call /\ TypeOK
      /\ store \in MapsOf(Ids, Storage!User)
      /\ call[c].at = "exchange" /\ call[c].kept = {}
  BY DEF Identified, At, Inv, TypeOK, Recorded
<1>3. ASSUME ~app.storage
      PROVE  Inv'
  <2>1. Tell(c, "nil", {}) /\ call' = [call EXCEPT ![c] = Idle]
    BY <1>3 DEF Identified
  <2>2. call' \in [Clients -> Call] /\ \A d \in Clients : Recorded(store', call'[d])
    BY <1>1, <2>1, IdleIs, OneMoves
  <2>3. SecretYoung'
    BY <1>1, <1>2, <2>1, IdleIs, SecretStands DEF Inv
  <2>4. answer' \in Answer /\ answer'.kept = {}
    BY <1>2, <2>1, TellIs
  <2>5. LoginsExist' /\ ReturningLogsIn'
    BY <1>1, <1>3, <2>4 DEF LoginsExist, ReturningLogsIn
  <2> QED
    BY <1>1, <1>2, <2>2, <2>3, <2>4, <2>5, Together DEF TypeOK
<1>4. ASSUME app.storage
      PROVE  Inv'
  <2> DEFINE step == IF call[c].provider = "twitter" THEN "create" ELSE "find"
             now == IdsOf(email, store)
             p == [call[c] EXCEPT !.at = step, !.age = 0, !.email = email]
             q == [p EXCEPT !.had = now, !.kept = now]
  <2>1. call' = [call EXCEPT ![c] = q] /\ Silent
    BY <1>2, <1>4 DEF Identified
  <2>2. now \subseteq Ids
    BY <1>2, MapsOfIs DEF IdsOf
  <2>3. step \in {"find", "create"} /\ (step = "create" => call[c].provider = "twitter")
    OBVIOUS
  <2> HIDE DEF step
  <2>4. now = IdsOf(email, store)
    OBVIOUS
  <2> HIDE DEF now
  <2>5. /\ q \in Call /\ q.provider = call[c].provider /\ q.at = step /\ q.email = email
        /\ q.had = now /\ q.kept = now
    <3>1. p \in Call /\ p.provider = call[c].provider /\ p.at = step /\ p.email = email
      <4>1. 0 \in 0..Patience
        BY LoginsAssumption
      <4>2. step \in {"idle", "secret", "exchange", "find", "save", "create"}
        BY <2>3
      <4> QED
        BY <1>2, <4>1, <4>2 DEF Call
    <3> HIDE DEF p
    <3> QED
      BY <3>1, <2>2 DEF Call
  <2> HIDE DEF q
  <2>6. Recorded(store, q)
    BY <2>3, <2>4, <2>5 DEF Recorded
  <2>7. call' \in [Clients -> Call] /\ \A d \in Clients : Recorded(store', call'[d])
    BY <1>1, <2>1, <2>5, <2>6, OneMoves
  <2>8. SecretYoung'
    BY <1>1, <1>2, <2>1, <2>3, <2>5, SecretStands DEF Inv
  <2> QED
    BY <1>1, <1>2, <2>1, <2>7, <2>8, SilentIs, Together DEF TypeOK
<1> QED
  BY <1>3, <1>4

\* Emails are unique, so the user found is the only one that can have been
\* there all along; who finds none knows that nobody was.
LEMMA FindKeeps ==
  ASSUME Inv, NEW c \in Clients, Find(c)
  PROVE  Inv'
<1>1. /\ store \in MapsOf(Ids, Storage!User) /\ Storage!EmailsUnique
      /\ call \in [Clients -> Call] /\ call[c] \in Call /\ TypeOK
      /\ call[c].at = "find"
      /\ IdsOf(call[c].email, store) \subseteq call[c].had
      /\ call[c].kept \subseteq IdsOf(call[c].email, store)
  BY DEF Find, At, Inv, TypeOK, Recorded
<1> DEFINE e == call[c].email
<1>2. Storage!GetUserByEmail(e)
  BY DEF Find
<1>3. /\ store' \in MapsOf(Ids, Storage!User) /\ Storage!EmailsUnique'
      /\ store' = store /\ app' = app /\ secret' = secret /\ Silent
  BY <1>2, StoreStands DEF Find, Storage!GetUserByEmail
<1>4. \/ /\ reply'.err = "nil"
         /\ \E i \in DOMAIN store : store[i].email = e /\ reply'.user = {store[i]}
      \/ /\ reply'.err = "notfound" /\ reply'.user = {}
         /\ \A i \in DOMAIN store : store[i].email # e
      \/ reply'.err = "fault" /\ reply'.user = {}
  BY <1>2 DEF Storage!GetUserByEmail, Storage!Reply
<1>5. reply'.user \subseteq Storage!User
  BY <1>1, <1>4, MapsOfIs
<1> DEFINE step == IF reply'.err = "nil" THEN "save" ELSE "create"
           fault == reply'.err = "fault"
           q == [call[c] EXCEPT !.user = reply'.user, !.fault = fault, !.at = step]
<1>6. call' = [call EXCEPT ![c] = q]
  BY <1>1 DEF Find
<1>7. fault \in BOOLEAN /\ step \in {"idle", "secret", "exchange", "find", "save", "create"}
  OBVIOUS
<1>8. fault = (reply'.err = "fault") /\ step = IF reply'.err = "nil" THEN "save" ELSE "create"
  OBVIOUS
<1> HIDE DEF fault, step
<1>9. /\ q \in Call /\ q.at = step /\ q.email = call[c].email /\ q.user = reply'.user
      /\ q.fault = fault /\ q.had = call[c].had /\ q.kept = call[c].kept
  BY <1>1, <1>5, <1>7 DEF Call
<1> HIDE DEF q
<1>10. Recorded(store, q)
  <2>1. CASE reply'.err = "nil"
    <3>1. PICK i \in DOMAIN store : store[i].email = e /\ reply'.user = {store[i]}
      BY <1>4, <2>1
    <3>2. store[i].id = i /\ IdsOf(e, store) = {i}
      BY <1>1, <3>1 DEF Storage!EmailsUnique, IdsOf
    <3>3. Owned(i, store) = {<<store[i].email, store[i].attrs.own>>}
      BY <3>1 DEF Owned
    <3> QED
      BY <1>1, <1>8, <1>9, <2>1, <3>1, <3>2, <3>3 DEF Recorded
  <2>2. CASE reply'.err = "notfound"
    <3>1. IdsOf(e, store) = {}
      BY <1>4, <2>2 DEF IdsOf
    <3> QED
      BY <1>1, <1>8, <1>9, <2>2, <3>1 DEF Recorded
  <2>3. CASE reply'.err = "fault"
    BY <1>1, <1>8, <1>9, <2>3 DEF Recorded
  <2> QED
    BY <1>4, <2>1, <2>2, <2>3
<1>11. call' \in [Clients -> Call] /\ \A d \in Clients : Recorded(store', call'[d])
  BY <1>3, <1>6, <1>9, <1>10, OneMoves
<1>12. SecretYoung'
  BY <1>1, <1>3, <1>6, <1>7, <1>8, <1>9, SecretStands DEF Inv
<1> QED
  BY <1>1, <1>3, <1>11, <1>12, SilentIs, Together DEF TypeOK

\* What a login writes back is the user it found, with other metadata.
LEMMA SavedIs ==
  ASSUME NEW u \in Storage!User
  PROVE  LET w == [u EXCEPT !.attrs.meta = "provider"]
         IN  w \in Storage!User /\ w.id = u.id /\ w.email = u.email /\ w.attrs.own = u.attrs.own
BY DEF Storage!User, Metadata

\* The call of UpdateUser, which may do nothing.
LEMMA UpdateIs ==
  ASSUME NEW u \in Storage!User, Storage!UpdateUser(u)
  PROVE  Storage!Replace(u) \/ UNCHANGED store
BY DEF Storage!UpdateUser

\* The other logins see the storage change under them; the one that is done
\* is idle again.
LEMMA OneIsDone ==
  ASSUME Inv, Write, NEW c \in Clients, Observe([call EXCEPT ![c] = Idle]),
         call[c].at \in {"save", "create"}, UNCHANGED secret
  PROVE  /\ store' \in MapsOf(Ids, Storage!User) /\ Storage!EmailsUnique'
         /\ call' \in [Clients -> Call] /\ \A d \in Clients : Recorded(store', call'[d])
         /\ SecretYoung'
<1> DEFINE calls == [call EXCEPT ![c] = Idle]
<1>1. store' \in MapsOf(Ids, Storage!User) /\ Storage!EmailsUnique'
  BY WriteKeeps DEF Inv, TypeOK
<1>2. call \in [Clients -> Call] /\ \A d \in Clients : Recorded(store, call[d])
  BY DEF Inv, TypeOK
<1>3. /\ calls \in [Clients -> Call] /\ \A d \in Clients : Recorded(store, calls[d])
      /\ \A d \in Clients : calls[d] = IF d = c THEN Idle ELSE call[d]
  BY <1>2, IdleIs
<1> HIDE DEF calls
<1>4. Observe(calls)
  BY DEF calls
<1>5. call' \in [Clients -> Call] /\ \A d \in Clients : Recorded(store', call'[d])
  BY <1>1, <1>3, <1>4, ObserveKeeps
<1>6. \A d \in Clients : call'[d].at = "exchange" => call'[d] = calls[d] /\ d # c
  BY <1>1, <1>3, <1>4, ObserveIs, IdleIs
<1>7. SecretYoung'
  BY <1>3, <1>6, SecretStands DEF Inv
<1> QED
  BY <1>1, <1>5, <1>7

\* The user found had the email, and is the one to be told; that the update
\* may have failed shows nowhere.
LEMMA SaveKeeps ==
  ASSUME Inv, NEW c \in Clients, Save(c)
  PROVE  Inv'
<1>1. /\ call \in [Clients -> Call] /\ call[c] \in Call /\ TypeOK /\ Recorded(store, call[c])
      /\ call[c].at = "save"
  BY DEF Save, At, Inv, TypeOK
<1>2. PICK u \in call[c].user : /\ Storage!UpdateUser([u EXCEPT !.attrs.meta = "provider"])
                                /\ Tell(c, "nil", {u.id})
  BY DEF Save
<1>3. /\ u \in Storage!User /\ u.id \in Ids
      /\ u.id \in call[c].had /\ call[c].kept \subseteq {u.id}
  BY <1>1, <1>2 DEF Recorded, Call, Storage!User
<1>4. Write
  BY <1>2, <1>3, SavedIs, UpdateIs DEF Write
<1>5. Observe([call EXCEPT ![c] = Idle]) /\ app' = app /\ secret' = secret
  BY DEF Save
<1>6. /\ answer' \in Answer /\ answer'.err = "nil" /\ answer'.id = {u.id}
      /\ answer'.had = call[c].had /\ answer'.kept = call[c].kept
  BY <1>1, <1>2, <1>3, TellIs
<1>7. LoginsExist' /\ ReturningLogsIn'
  BY <1>3, <1>6 DEF LoginsExist, ReturningLogsIn
<1> QED
  BY <1>1, <1>4, <1>5, <1>6, <1>7, OneIsDone, Together DEF TypeOK

\* If the adapter says that it created the user, the user is in the table.
LEMMA CreateKeeps ==
  ASSUME Inv, NEW c \in Clients, Create(c)
  PROVE  Inv'
<1>1. /\ call \in [Clients -> Call] /\ call[c] \in Call /\ TypeOK /\ Recorded(store, call[c])
      /\ call[c].at = "create" /\ call[c].email \in MaybeEmail
  BY DEF Create, At, Inv, TypeOK, Call
<1> DEFINE new(id) == [id |-> id, email |-> call[c].email,
                       attrs |-> [own |-> FreshOwn, meta |-> "provider"]]
<1>2. PICK id \in Ids : /\ Storage!CreateUser(new(id))
                        /\ Tell(c, reply'.err, IF reply'.err = "nil" THEN {id} ELSE {})
  BY DEF Create
<1>3. new(id) \in Storage!User /\ new(id).id = id /\ new(id).email = call[c].email
  BY <1>1, LoginsAssumption DEF Storage!User, MaybeEmail, Metadata
<1> HIDE DEF new
<1>4. /\ Storage!Insert(new(id)) \/ UNCHANGED store
      /\ reply'.err \in {"nil", "exists", "fault"}
      /\ reply'.err = "nil" => Storage!Insert(new(id))
  BY <1>2 DEF Storage!CreateUser, Storage!Reply
<1>5. Write
  BY <1>3, <1>4 DEF Write
<1>6. Observe([call EXCEPT ![c] = Idle]) /\ app' = app /\ secret' = secret
  BY DEF Create
<1>7. /\ answer' \in Answer /\ answer'.err = reply'.err
      /\ answer'.id = IF reply'.err = "nil" THEN {id} ELSE {}
      /\ answer'.email = call[c].email /\ answer'.fault = call[c].fault
      /\ answer'.sought = (call[c].provider # "twitter") /\ answer'.kept = call[c].kept
  BY <1>1, <1>2, <1>4, TellIs
<1>8. LoginsExist'
  <2> SUFFICES ASSUME reply'.err = "nil"
               PROVE  id \in IdsOf(call[c].email, store')
    BY <1>7 DEF LoginsExist
  <2>1. store' = Storage!Put(store, id, new(id))
    BY <1>3, <1>4 DEF Storage!Insert
  <2> QED
    BY <1>3, <2>1 DEF Storage!Put, IdsOf
<1>9. ReturningLogsIn'
  BY <1>1, <1>7 DEF ReturningLogsIn, Recorded
<1> QED
  BY <1>1, <1>5, <1>6, <1>7, <1>8, <1>9, OneIsDone, Together DEF TypeOK

\* What others do to the table reaches every login on its way.
LEMMA ManageKeeps ==
  ASSUME Inv, Manage
  PROVE  Inv'
<1>1. /\ TypeOK /\ call \in [Clients -> Call] /\ \A d \in Clients : Recorded(store, call[d])
      /\ Observe(call) /\ Silent /\ app' = app /\ secret' = secret
  BY DEF Manage, Inv, TypeOK
<1>2. Write
  <2>1. ASSUME NEW u \in Storage!User, Storage!CreateUser(u) \/ Storage!UpdateUser(u)
        PROVE  Write
    BY <2>1 DEF Storage!CreateUser, Storage!UpdateUser, Write
  <2>2. ASSUME NEW i \in Ids, Storage!DeleteUser(i)
        PROVE  Write
    BY <2>2 DEF Storage!DeleteUser, Write
  <2> QED
    BY <2>1, <2>2 DEF Manage
<1>3. store' \in MapsOf(Ids, Storage!User) /\ Storage!EmailsUnique'
  BY <1>2, WriteKeeps DEF Inv, TypeOK
<1>4. call' \in [Clients -> Call] /\ \A d \in Clients : Recorded(store', call'[d])
  BY <1>1, <1>3, ObserveKeeps
<1>5. \A d \in Clients : call'[d].at = "exchange" => call'[d] = call[d]
  BY <1>1, <1>3, ObserveIs
<1>6. SecretYoung'
  BY <1>1, <1>5, SecretStands DEF Inv
<1> QED
  BY <1>1, <1>3, <1>4, <1>6, SilentIs, Together DEF TypeOK

\* A login that waits and the secret it will use grow old together, until the
\* secret is past its lifetime.
LEMMA TickKeeps ==
  ASSUME Inv, Tick
  PROVE  Inv'
<1>1. /\ store' \in MapsOf(Ids, Storage!User) /\ Storage!EmailsUnique'
      /\ store' = store /\ app' = app /\ Silent
  BY StoreStands DEF Tick
<1>2. /\ TypeOK /\ call \in [Clients -> Call] /\ \A d \in Clients : Recorded(store, call[d])
      /\ secret \subseteq 0..(Lifetime + 1) \cup 0..Patience
      /\ Lifetime \in Nat /\ Patience \in Nat
  BY LoginsAssumption DEF Inv, TypeOK
<1> DEFINE older(q) == [q EXCEPT !.age = @ + 1]
           grown(a) == IF a > Lifetime THEN a ELSE a + 1
<1>3. \A d \in Clients : Signing(d) => call[d].age < Patience
  BY DEF Tick
<1>4. \A d \in Clients : call'[d] = IF Signing(d) THEN older(call[d]) ELSE call[d]
  BY DEF Tick
<1>5. secret' = {grown(a) : a \in secret}
  BY DEF Tick
<1>6. ASSUME NEW q \in Call, q.age < Patience
      PROVE  /\ older(q) \in Call /\ older(q).age = q.age + 1 /\ older(q).provider = q.provider
             /\ older(q).at = q.at /\ older(q).kept = q.kept
  <2>1. q.age + 1 \in 0..Patience
    BY <1>2, <1>6 DEF Call
  <2> QED
    BY <2>1 DEF Call
<1> HIDE DEF older
<1>7. ASSUME NEW d \in Clients
      PROVE  /\ call'[d] \in Call /\ Recorded(store', call'[d])
             /\ call'[d].provider = call[d].provider /\ call'[d].at = call[d].at
  <2>1. CASE Signing(d)
    <3>1. /\ call'[d] \in Call /\ call'[d].provider = call[d].provider /\ call'[d].at = call[d].at
          /\ call'[d].kept = call[d].kept
      BY <1>2, <1>3, <1>4, <1>6, <2>1
    <3> QED
      BY <1>2, <2>1, <3>1 DEF Signing, Recorded
  <2>2. CASE ~Signing(d)
    BY <1>1, <1>2, <1>4, <2>2
  <2> QED
    BY <2>1, <2>2
<1>8. call' \in [Clients -> Call]
  BY <1>7 DEF Tick
<1>9. secret' \subseteq 0..(Lifetime + 1) \cup 0..Patience
  <2>1. ASSUME NEW a \in secret
        PROVE  grown(a) \in 0..(Lifetime + 1) \cup 0..Patience
    <3>1. a \in Nat /\ (a \in 0..(Lifetime + 1) \/ a \in 0..Patience)
      BY <1>2
    <3> QED
      BY <1>2, <3>1
  <2> HIDE DEF grown
  <2> QED
    BY <1>5, <2>1
<1>10. SecretYoung'
  <2> SUFFICES ASSUME NEW d \in Clients, call'[d].provider = "apple", call'[d].at = "exchange"
               PROVE  \E a \in secret' : a <= Patience + call'[d].age
    BY DEF SecretYoung, Signing, At
  <2>1. Signing(d) /\ At(d, "exchange")
    BY <1>7 DEF Signing, At
  <2>2. PICK a \in secret : a <= Patience + call[d].age
    BY <2>1 DEF Inv, SecretYoung
  <2>3. call'[d].age = call[d].age + 1 /\ call[d].age \in 0..Patience
    BY <1>2, <1>3, <1>4, <1>6, <2>1 DEF Call
  <2>4. a \in Nat
    BY <1>2, <2>2
  <2>5. grown(a) <= Patience + call'[d].age
    BY <1>2, <2>2, <2>3, <2>4
  <2> HIDE DEF grown
  <2> QED
    BY <1>5, <2>2, <2>5
<1> QED
  BY <1>1, <1>2, <1>7, <1>8, <1>9, <1>10, SilentIs, Together DEF TypeOK

\* At the start nobody is registered and nobody has asked.
LEMMA StartIs ==
  ASSUME Init
  PROVE  Inv
<1>1. store \in MapsOf(Ids, Storage!User) /\ Storage!EmailsUnique
  BY EmptyMapIs DEF Init, Storage!Init, Storage!EmailsUnique, Storage!EmptyMap, EmptyMap
<1>2. call \in [Clients -> Call] /\ \A d \in Clients : call[d].at = "idle" /\ Recorded(store, call[d])
  BY IdleIs DEF Init
<1>3. SecretYoung
  BY <1>2 DEF SecretYoung, At
<1>4. answer \in Answer /\ LoginsExist /\ ReturningLogsIn
  BY DEF Init, NoAnswer, Answer, MaybeEmail, LoginsExist, ReturningLogsIn
<1>5. app \in [storage : BOOLEAN, key : BOOLEAN] /\ secret = {}
  BY DEF Init
<1> QED
  BY <1>1, <1>2, <1>3, <1>4, <1>5 DEF Inv, TypeOK

\* The invariant holds in every state the program can reach.
LEMMA InvHolds == Spec => []Inv
<1>1. Inv /\ [Next]_vars => Inv'
  <2> SUFFICES ASSUME Inv, [Next]_vars
               PROVE  Inv'
    OBVIOUS
  <2>1. ASSUME NEW c \in Clients, NEW p \in Providers, NEW code \in BOOLEAN, Callback(c, p, code)
        PROVE  Inv'
    BY <2>1, CallbackKeeps
  <2>2. ASSUME NEW c \in Clients, NEW code \in BOOLEAN, AppleCallback(c, code)
        PROVE  Inv'
    BY <2>2, AppleCallbackKeeps
  <2>3. ASSUME NEW c \in Clients, NEW email \in MaybeEmail, Identified(c, email)
        PROVE  Inv'
    BY <2>3, IdentifiedKeeps
  <2>4. ASSUME NEW c \in Clients,
               SetSecret(c) \/ ProviderFails(c) \/ Find(c) \/ Save(c) \/ Create(c)
        PROVE  Inv'
    BY <2>4, SetSecretKeeps, ProviderFailsKeeps, FindKeeps, SaveKeeps, CreateKeeps
  <2>5. ASSUME UNCHANGED vars
        PROVE  Inv'
    <3>1. store' = store /\ app' = app /\ secret' = secret /\ call' = call /\ answer' = answer
      BY <2>5 DEF vars
    <3>2. store' \in MapsOf(Ids, Storage!User) /\ Storage!EmailsUnique'
      BY <3>1, StoreStands
    <3>3. SecretYoung' /\ LoginsExist' /\ ReturningLogsIn'
      BY <3>1 DEF Inv, SecretYoung, Signing, At, LoginsExist, ReturningLogsIn, IdsOf
    <3> QED
      BY <3>1, <3>2, <3>3, Together DEF Inv, TypeOK
  <2> QED
    BY <2>1, <2>2, <2>3, <2>4, <2>5, ManageKeeps, TickKeeps DEF Next
<1> QED
  BY <1>1, StartIs, PTL DEF Spec

-----------------------------------------------------------------------------
\* The table, the secret, the logins and their answers keep their types.
THEOREM TypeCorrect == Spec => []TypeOK
BY InvHolds, PTL DEF Inv

\* Whom a successful login returns was in the storage, however many others
\* create, change and delete users while it runs.
THEOREM LoggedInExist == Spec => []LoginsExist
BY InvHolds, PTL DEF Inv

\* Who was there all along gets in, as the user they were.
THEOREM TheReturningLogIn == Spec => []ReturningLogsIn
BY InvHolds, PTL DEF Inv

\* No login uses an expired client secret, whatever the others do to it, if
\* none takes longer than half a secret's lifetime.
THEOREM SecretsGood == Spec => []SecretGood
<1>1. Inv => SecretGood
  BY YoungIsGood DEF Inv
<1> QED
  BY <1>1, InvHolds, PTL

\* A login that is done saving has only updated the user it found.
LEMMA SaveKeepsOwned ==
  ASSUME Inv, NEW c \in Clients, Save(c), ~call[c].disturbed, NEW i \in Ids
  PROVE  Owned(i, store') = Owned(i, store)
<1>1. call[c] \in Call /\ Recorded(store, call[c]) /\ call[c].at = "save"
  BY DEF Save, At, Inv, TypeOK
<1>2. PICK u \in call[c].user : Storage!UpdateUser([u EXCEPT !.attrs.meta = "provider"])
  BY DEF Save
<1>3. u \in Storage!User /\ Owned(u.id, store) = {<<u.email, u.attrs.own>>}
  BY <1>1, <1>2 DEF Recorded, Call
<1> DEFINE w == [u EXCEPT !.attrs.meta = "provider"]
<1>4. /\ w \in Storage!User /\ w.id = u.id /\ w.email = u.email /\ w.attrs.own = u.attrs.own
      /\ Storage!Replace(w) \/ UNCHANGED store
  BY <1>2, <1>3, SavedIs, UpdateIs
<1> HIDE DEF w
<1>5. ASSUME Storage!Replace(w)
      PROVE  Owned(i, store') = Owned(i, store)
  <2>1. store' = Storage!Put(store, u.id, w) /\ u.id \in DOMAIN store
    BY <1>4, <1>5 DEF Storage!Replace
  <2>2. /\ DOMAIN store' = DOMAIN store /\ store'[u.id] = w
        /\ \A j \in DOMAIN store : j # u.id => store'[j] = store[j]
    BY <2>1 DEF Storage!Put
  <2>3. CASE i = u.id
    <3>1. Owned(u.id, store') = {<<w.email, w.attrs.own>>}
      BY <2>1, <2>2 DEF Owned
    <3> QED
      BY <1>3, <1>4, <2>3, <3>1
  <2>4. CASE i # u.id
    BY <2>2, <2>4 DEF Owned
  <2> QED
    BY <2>3, <2>4
<1> QED
  BY <1>4, <1>5 DEF Owned

\* Nobody but the login itself ends it.
LEMMA OnlySaveEnds ==
  ASSUME Inv, [Next]_vars, NEW c \in Clients, At(c, "save"), call'[c] = Idle
  PROVE  Save(c)
<1>1. call \in [Clients -> Call] /\ call[c].at = "save" /\ store \in MapsOf(Ids, Storage!User)
  BY DEF Inv, TypeOK, At
<1>2. call'[c].at = "idle"
  BY DEF Idle
<1> SUFFICES ASSUME ~Save(c)
             PROVE  call'[c].at = "save"
  BY <1>2
<1>3. ASSUME NEW d \in Clients, NEW p \in Providers, NEW code \in BOOLEAN, Callback(d, p, code)
      PROVE  call'[c].at = "save"
  BY <1>1, <1>3 DEF Callback, At
<1>4. ASSUME NEW d \in Clients, NEW code \in BOOLEAN, AppleCallback(d, code)
      PROVE  call'[c].at = "save"
  BY <1>1, <1>4 DEF AppleCallback, At
<1>5. ASSUME NEW d \in Clients, NEW email \in MaybeEmail, Identified(d, email)
      PROVE  call'[c].at = "save"
  <2>1. d # c
    BY <1>1, <1>5 DEF Identified, At
  <2> QED
    BY <1>1, <1>5, <2>1 DEF Identified
<1>6. ASSUME NEW d \in Clients, SetSecret(d) \/ ProviderFails(d) \/ Find(d)
      PROVE  call'[c].at = "save"
  BY <1>1, <1>6 DEF SetSecret, ProviderFails, Refuse, Find, At
<1>7. ASSUME NEW d \in Clients, Save(d) \/ Create(d)
      PROVE  call'[c].at = "save"
  <2> DEFINE calls == [call EXCEPT ![d] = Idle]
  <2>1. d # c
    BY <1>1, <1>7 DEF Create, At
  <2>2. calls \in [Clients -> Call] /\ calls[c] = call[c]
    BY <1>1, <2>1, IdleIs
  <2>3. Observe(calls)
    BY <1>7 DEF Save, Create
  <2> HIDE DEF calls
  <2> QED
    BY <1>1, <2>2, <2>3, ObserveSteady
<1>8. ASSUME Manage
      PROVE  call'[c].at = "save"
  BY <1>1, <1>8, ObserveSteady DEF Manage
<1>9. ASSUME Tick
      PROVE  call'[c].at = "save"
  BY <1>1, <1>9 DEF Tick, Signing
<1>10. ASSUME UNCHANGED vars
       PROVE  call'[c].at = "save"
  BY <1>1, <1>10 DEF vars
<1> QED
  BY <1>3, <1>4, <1>5, <1>6, <1>7, <1>8, <1>9, <1>10 DEF Next

\* A login leaves what a returning user owns alone, unless somebody changed
\* that user between its look-up and its update.
THEOREM LoginsKeepOwned == Spec => LoginKeepsOwned
<1>1. Inv /\ [Next]_vars =>
        [\A c \in Clients : At(c, "save") /\ call'[c] = Idle /\ ~call[c].disturbed =>
           \A i \in Ids : Owned(i, store') = Owned(i, store)]_vars
  BY OnlySaveEnds, SaveKeepsOwned
<1> QED
  BY <1>1, InvHolds, PTL DEF Spec, LoginKeepsOwned
=============================================================================
