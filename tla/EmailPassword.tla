--------------------------- MODULE EmailPassword ----------------------------
(***************************************************************************)
(* strategies/emailPassword and Loginfy.Authenticate, over a storage       *)
(* adapter that is everything UserStore says and no more.                  *)
(*                                                                         *)
(* Register hashes the password and calls CreateUser; Authenticate fetches *)
(* the user by email, then verifies the password against the object it     *)
(* got, while other clients register, change and delete users.             *)
(*                                                                         *)
(* A bcrypt hash is what VerifyPassword can tell from it: the key bcrypt   *)
(* made of the password, its first 72 bytes.  HashPassword refuses a       *)
(* longer password, VerifyPassword reads the key of any.  The IDs Register *)
(* draws are not known to be fresh: the error of GenerateToken is ignored. *)
(* The application may configure the framework late, between two steps of  *)
(* the requests: the code orders neither, and a torn read is not modelled. *)
(***************************************************************************)
EXTENDS GoMaps

CONSTANTS Clients, Ids, Emails, Passwords,
          TooLong,    \* the passwords HashPassword refuses
          Key,        \* what bcrypt reads of each password
          Faults      \* whether the adapter's calls can fail

\* An empty password is a missing one, and no hash.
ASSUME PasswordsAssumption == TooLong \subseteq Passwords /\ "" \notin Passwords
ASSUME KeyAssumption == DOMAIN Key = Passwords /\ "" \notin {Key[p] : p \in Passwords}
ASSUME FaultsAssumption == Faults \in BOOLEAN

VARIABLES store, reply,    \* the adapter, see UserStore
          app,             \* the Loginfy instance
          call,            \* the request each client is in
          answer           \* what the request that just returned was told

vars == <<store, reply, app, call, answer>>

\* What can be stored as a password: a hash, or for users the OAuth providers
\* create, which have none, the empty string.
NoPassword == ""
Hashes == {Key[p] : p \in Passwords \ TooLong} \cup {NoPassword}

Storage == INSTANCE UserStore WITH Attrs <- Hashes

\* email and pw are the context's: a set with the value, empty if none.  user
\* is what the strategy fetched.  had, for history, is every hash the email
\* had while the request ran, kept what it had all along.
Idle == [op |-> "none", at |-> "idle", email |-> {}, pw |-> {}, user |-> {},
         had |-> {}, kept |-> {}]

NoAnswer == [op |-> "none", err |-> "nil", email |-> {}, pw |-> {}, had |-> {}, kept |-> {},
             hooks |-> {}, fault |-> FALSE]

Init == /\ Storage!Init
        /\ app = [strategy |-> FALSE, storage |-> FALSE, hooks |-> {}]
        /\ call = [c \in Clients |-> Idle]
        /\ answer = NoAnswer

Optional(S) == {{}} \cup {{x} : x \in S}

\* The hash (or none) of the user with that email in st.
PasswordOf(st, email) == {st[i].attrs : i \in {j \in DOMAIN st : st[j].email \in email}}

At(c, step) == call[c].at = step

Enter(c, op, step, email, pw) ==
  call' = [call EXCEPT ![c] = [op |-> op, at |-> step, email |-> email, pw |-> pw, user |-> {},
                               had |-> PasswordOf(store, email), kept |-> PasswordOf(store, email)]]

\* The request r of client c returns err, having called the hooks.
Tell(r, err, hooks, fault) ==
  answer' = [op |-> r.op, err |-> err, email |-> r.email, pw |-> r.pw, had |-> r.had,
             kept |-> r.kept, hooks |-> hooks, fault |-> fault]

Silent == answer' = NoAnswer

\* Every request on its way sees the storage change from store to store'.
Observe(calls) ==
  call' = [d \in Clients |-> IF calls[d].at = "idle" THEN calls[d]
             ELSE [calls[d] EXCEPT !.had = @ \cup PasswordOf(store', calls[d].email),
                                   !.kept = @ \cap PasswordOf(store', calls[d].email)]]

\* One call of the adapter that may fail if Faults says so.
Works == Faults \/ reply'.err # "fault"

-----------------------------------------------------------------------------
(* Register *)

Register(c, email, pw) ==
  LET r == [Idle EXCEPT !.op = "Register", !.email = email, !.pw = pw]
      refuse(err) == Tell(r, err, {}, FALSE) /\ UNCHANGED call
  IN  /\ At(c, "idle")
      /\ IF email = {} \/ pw = {} THEN refuse("missing")
         ELSE IF ~app.storage THEN refuse("nostorage")
         ELSE IF pw \subseteq TooLong THEN refuse("hash")
         ELSE Enter(c, "Register", "create", email, pw) /\ Silent
      /\ UNCHANGED <<store, reply, app>>

RegisterCreate(c) ==
  /\ At(c, "create")
  /\ \E id \in Ids, e \in call[c].email, p \in call[c].pw :
       Storage!CreateUser([id |-> id, email |-> e, attrs |-> Key[p]])
  /\ Works
  /\ Observe([call EXCEPT ![c] = Idle])
  /\ Tell(call[c], reply'.err, {}, reply'.err = "fault")
  /\ UNCHANGED app

-----------------------------------------------------------------------------
(* Loginfy.Authenticate and the strategy's. *)

Authenticate(c, email, pw) ==
  LET r == [Idle EXCEPT !.op = "Authenticate", !.email = email, !.pw = pw]
      refuse(err) == Tell(r, err, {}, FALSE) /\ UNCHANGED call
  IN  /\ At(c, "idle")
      /\ IF ~app.strategy THEN refuse("nostrategy")
         ELSE IF email = {} \/ pw = {} THEN refuse("missing")
         ELSE IF ~app.storage THEN refuse("nostorage")
         ELSE Enter(c, "Authenticate", "fetch", email, pw) /\ Silent
      /\ UNCHANGED <<store, reply, app>>

AuthenticateFetch_tellsWhich(c) ==
  /\ At(c, "fetch")
  /\ \E e \in call[c].email : Storage!GetUserByEmail(e)
  /\ Works
  /\ IF reply'.err # "nil"
     THEN /\ Tell(call[c], reply'.err, {}, reply'.err = "fault")
          /\ call' = [call EXCEPT ![c] = Idle]
     ELSE /\ call' = [call EXCEPT ![c].at = "verify", ![c].user = reply'.user]
          /\ Silent
  /\ UNCHANGED app

\* Whatever error the adapter returns, the caller hears of invalid credentials.
AuthenticateFetch(c) ==
  /\ At(c, "fetch")
  /\ \E e \in call[c].email : Storage!GetUserByEmail(e)
  /\ Works
  /\ IF reply'.err # "nil"
     THEN /\ Tell(call[c], "invalid", {}, reply'.err = "fault")
          /\ call' = [call EXCEPT ![c] = Idle]
     ELSE /\ call' = [call EXCEPT ![c].at = "verify", ![c].user = reply'.user]
          /\ Silent
  /\ UNCHANGED app

VerifyPassword_always(pw, hash) == TRUE
VerifyPassword_hashesAgain(pw, hash) == FALSE    \* compares two hashes: the salts differ
VerifyPassword(pw, hash) == Key[pw] = hash

AuthenticateVerify_hookFirst(c) ==
  /\ At(c, "verify")
  /\ \E p \in call[c].pw, u \in call[c].user :
       Tell(call[c], IF VerifyPassword(p, u.attrs) THEN "nil" ELSE "invalid",
            app.hooks \cap {"OnLogin"}, FALSE)
  /\ call' = [call EXCEPT ![c] = Idle]
  /\ UNCHANGED <<store, reply, app>>
AuthenticateVerify(c) ==
  /\ At(c, "verify")
  /\ \E p \in call[c].pw, u \in call[c].user :
       IF VerifyPassword(p, u.attrs) THEN Tell(call[c], "nil", app.hooks \cap {"OnLogin"}, FALSE)
                                     ELSE Tell(call[c], "invalid", {}, FALSE)
  /\ call' = [call EXCEPT ![c] = Idle]
  /\ UNCHANGED <<store, reply, app>>

-----------------------------------------------------------------------------
(* The setters of Loginfy. *)

Hooks == {"OnLogin", "OnRegister"}

Use == app' = [app EXCEPT !.strategy = TRUE]
SetStorage == app' = [app EXCEPT !.storage = TRUE]
SetHooks(hooks) == app' = [app EXCEPT !.hooks = hooks]

Configure == /\ Use \/ SetStorage \/ \E hooks \in SUBSET Hooks : SetHooks(hooks)
             /\ Silent
             /\ UNCHANGED <<store, reply, call>>

\* Providers, the application and its administrators use the adapter too.
Manage == /\ app.storage
          /\ \/ \E u \in Storage!User : Storage!CreateUser(u) \/ Storage!UpdateUser(u)
             \/ \E i \in Ids : Storage!DeleteUser(i)
          /\ Works
          /\ Observe(call)
          /\ Silent
          /\ UNCHANGED app

Next == \/ \E c \in Clients, email \in Optional(Emails), pw \in Optional(Passwords) :
             Register(c, email, pw) \/ Authenticate(c, email, pw)
        \/ \E c \in Clients : RegisterCreate(c) \/ AuthenticateFetch(c) \/ AuthenticateVerify(c)
        \/ Configure
        \/ Manage

Spec == Init /\ [][Next]_vars

-----------------------------------------------------------------------------
Ops == {"none", "Register", "Authenticate"}

Call == [op : Ops, at : {"idle", "create", "fetch", "verify"},
         email : Optional(Emails), pw : Optional(Passwords), user : SUBSET Storage!User,
         had : SUBSET Hashes, kept : SUBSET Hashes]
Answer == [op : Ops, email : Optional(Emails), pw : Optional(Passwords),
           err : {"nil", "missing", "nostorage", "nostrategy", "hash", "exists", "invalid", "fault"},
           had : SUBSET Hashes, kept : SUBSET Hashes, hooks : SUBSET Hooks, fault : BOOLEAN]

TypeOK ==
  /\ store \in MapsOf(Ids, Storage!User)
  /\ app \in [strategy : BOOLEAN, storage : BOOLEAN, hooks : SUBSET Hooks]
  /\ call \in [Clients -> Call]
  /\ answer \in Answer

\* Nobody logs in with a password the email did not have: at some instant of
\* the request the storage had a user with that email and a hash that bcrypt
\* makes of the password, or of one it cannot tell from it, however the user
\* was changed, deleted or registered anew meanwhile.
LoginProves ==
  answer.op = "Authenticate" /\ answer.err = "nil" =>
    answer.pw # {} /\ {Key[p] : p \in answer.pw} \subseteq answer.had

\* Whoever registered can log in: a request that is told its credentials are
\* invalid named an email that, at some instant, had no user or another
\* password, unless the adapter failed, which is answered the same way.
RegisteredLogsIn ==
  answer.op = "Authenticate" /\ answer.err = "invalid" /\ ~answer.fault =>
    ~({Key[p] : p \in answer.pw} \subseteq answer.kept)

\* "OnLogin | Called after successful Authenticate()" (docs/api/core.md), and
\* after no other, if it is set when the login succeeds.
LoginHook ==
  answer.op = "Authenticate" =>
    ("OnLogin" \in answer.hooks <=> answer.err = "nil" /\ "OnLogin" \in app.hooks)

\* "OnRegister | Called after successful user registration" (docs/api/core.md).
\* The code calls it nowhere.
RegisterHook ==
  answer.op = "Register" /\ answer.err = "nil" =>
    ("OnRegister" \in answer.hooks <=> "OnRegister" \in app.hooks)
=============================================================================
