---------------------------- MODULE OAuthCallback ----------------------------
(***************************************************************************)
(* providers/*: what a login through an OAuth provider does to the users   *)
(* in the storage, which is everything UserStore says and no more.         *)
(*                                                                         *)
(* HandleCallback trades the code it was given for a token, asks the       *)
(* provider who that is, and then finds that email's user and updates its  *)
(* metadata, or creates a user.  The seven providers differ in where the   *)
(* email comes from; Twitter has none and always creates; Apple signs a    *)
(* client secret for each login and keeps it where all logins read it.     *)
(*                                                                         *)
(* A user carries what it owns (password, roles) and its metadata: from    *)
(* the provider or from the application.  Time passes in ticks, of which   *)
(* a client secret lives Lifetime; no login takes more than Patience of    *)
(* them from signing its secret to using it.                               *)
(***************************************************************************)
EXTENDS GoMaps, Naturals, Sequences, FiniteSets

CONSTANTS Clients, Ids, Emails, Own,
          FreshOwn,             \* no password, and the role "user"
          InUse,                \* the providers set up
          Lifetime, Patience,
          Crowd,                \* bound: with more logins on their way nobody else acts
          Faults                \* whether the adapter's calls can fail

Providers == {"google", "github", "facebook", "discord", "microsoft", "twitter", "apple"}

ASSUME LoginsAssumption ==
  /\ FreshOwn \in Own
  /\ InUse \subseteq Providers
  /\ Lifetime \in Nat /\ Patience \in Nat /\ Crowd \in Nat
  /\ Faults \in BOOLEAN

VARIABLES store, reply,    \* the adapter, see UserStore
          app,             \* whether there is a storage, whether Apple's key was parsed
          secret,          \* Apple's shared ClientSecret: its age, empty before the first
          call,            \* the callback each client is in
          answer           \* what the callback that just returned was told

vars == <<store, reply, app, secret, call, answer>>

NoEmail == ""
Metadata == {"provider", "application"}

Storage == INSTANCE UserStore WITH Emails <- Emails \cup {NoEmail},
                                   Attrs <- [own : Own, meta : Metadata]

\* user is what the look-up found, fault whether it failed.  had and kept, for
\* history, are the IDs the email had at some instant, and all along, since it
\* is known; disturbed is whether the user was changed since it was found.
Idle == [provider |-> "none", at |-> "idle", age |-> 0, email |-> NoEmail, user |-> {},
         fault |-> FALSE, had |-> {}, kept |-> {}, disturbed |-> FALSE]

NoAnswer == [err |-> "none", id |-> {}, email |-> NoEmail, sought |-> FALSE, fault |-> FALSE,
             had |-> {}, kept |-> {}]

Init == /\ Storage!Init
        /\ app \in [storage : BOOLEAN, key : BOOLEAN]
        /\ secret = {}
        /\ call = [c \in Clients |-> Idle]
        /\ answer = NoAnswer

At(c, step) == call[c].at = step

Tell(c, err, id) ==
  answer' = [err |-> err, id |-> id, email |-> call[c].email, fault |-> call[c].fault,
             sought |-> call[c].provider # "twitter", had |-> call[c].had, kept |-> call[c].kept]
Silent == answer' = NoAnswer

Refuse(c, err) == /\ Tell(c, err, {})
                  /\ call' = [call EXCEPT ![c] = Idle]

IdsOf(email, st) == {i \in DOMAIN st : st[i].email = email}

\* What of the user i in st no login should change.
Owned(i, st) == {<<st[j].email, st[j].attrs.own>> : j \in DOMAIN st \cap {i}}

\* Every callback on its way sees the storage change from store to store'.
Observe(calls) ==
  call' = [d \in Clients |->
    IF calls[d].at \notin {"find", "save", "create"} THEN calls[d]
    ELSE [calls[d] EXCEPT
            !.had = @ \cup IdsOf(calls[d].email, store'),
            !.kept = @ \cap IdsOf(calls[d].email, store'),
            !.disturbed = @ \/ \E u \in calls[d].user : Owned(u.id, store') # Owned(u.id, store)]]

Works == Faults \/ reply'.err # "fault"

-----------------------------------------------------------------------------
(* Who the provider says it is: the emails the handler may end up with. *)

MaybeEmail == Emails \cup {NoEmail}

\* The list of a GitHub account's emails; the error of fetching it is ignored.
Listed == [email : Emails, primary : BOOLEAN, verified : BOOLEAN]
EmailLists == UNION {[1..n -> Listed] : n \in 0..2}

FetchPrimaryEmail(list) ==
  LET good == {k \in DOMAIN list : list[k].primary /\ list[k].verified}
  IN  IF good # {} THEN list[CHOOSE k \in good : \A j \in good : k <= j].email
      ELSE IF list # <<>> THEN list[1].email
      ELSE NoEmail

MicrosoftEmail(mail, userPrincipalName) == IF mail # NoEmail THEN mail ELSE userPrincipalName
GitHubEmail(info, list) == IF info # NoEmail THEN info ELSE FetchPrimaryEmail(list)

EmailsFrom(p) ==
  CASE p = "microsoft" -> {MicrosoftEmail(m, u) : m \in MaybeEmail, u \in MaybeEmail}
    [] p = "github"    -> {GitHubEmail(e, l) : e \in MaybeEmail, l \in EmailLists}
    [] p = "twitter"   -> {NoEmail}
    [] OTHER           -> MaybeEmail

-----------------------------------------------------------------------------
(* HandleCallback *)

Callback(c, p, code) ==
  /\ At(c, "idle") /\ p \in InUse \ {"apple"}
  /\ \/ /\ ~code
        /\ Tell(c, "missing", {})
        /\ UNCHANGED call
     \/ /\ code
        /\ call' = [call EXCEPT ![c].provider = p, ![c].at = "exchange"]
        /\ Silent
  /\ UNCHANGED <<store, reply, app, secret>>

\* A new client secret, or none without a key: the age it has.
generateClientSecret == IF app.key THEN {0} ELSE {}

\* Apple's looks for the code in the form too, and signs a secret.
AppleCallback(c, code) ==
  /\ At(c, "idle") /\ "apple" \in InUse
  /\ \/ /\ ~code
        /\ Tell(c, "missing", {})
        /\ UNCHANGED call
     \/ /\ code /\ generateClientSecret = {}
        /\ Tell(c, "secret", {})
        /\ UNCHANGED call
     \/ /\ code
        /\ \E age \in generateClientSecret :
             call' = [call EXCEPT ![c].provider = "apple", ![c].at = "secret", ![c].age = age]
        /\ Silent
  /\ UNCHANGED <<store, reply, app, secret>>

\* The secret was signed when the callback began, and is assigned a moment later.
SetSecret_once(c) ==
  /\ At(c, "secret")
  /\ secret' = IF secret = {} THEN {call[c].age} ELSE secret
  /\ call' = [call EXCEPT ![c].at = "exchange"]
  /\ Silent
  /\ UNCHANGED <<store, reply, app>>
SetSecret(c) ==
  /\ At(c, "secret")
  /\ secret' = {call[c].age}
  /\ call' = [call EXCEPT ![c].at = "exchange"]
  /\ Silent
  /\ UNCHANGED <<store, reply, app>>

\* Any of the provider's answers may be an error, and no answer at all.
ProviderFails(c) ==
  /\ At(c, "exchange")
  /\ Refuse(c, "provider")
  /\ UNCHANGED <<store, reply, app, secret>>

\* Without a storage the user returned has no ID.
Identified(c, email) ==
  /\ At(c, "exchange")
  /\ email \in EmailsFrom(call[c].provider)
  /\ IF ~app.storage
     THEN /\ Tell(c, "nil", {})
          /\ call' = [call EXCEPT ![c] = Idle]
     ELSE /\ call' = [call EXCEPT ![c] =
               [@ EXCEPT !.at = IF call[c].provider = "twitter" THEN "create" ELSE "find",
                         !.age = 0, !.email = email,
                         !.had = IdsOf(email, store), !.kept = IdsOf(email, store)]]
          /\ Silent
  /\ UNCHANGED <<store, reply, app, secret>>

Find_refuses(c) ==
  /\ At(c, "find")
  /\ Storage!GetUserByEmail(call[c].email)
  /\ Works
  /\ IF reply'.err = "nil"
     THEN /\ call' = [call EXCEPT ![c].user = reply'.user, ![c].at = "save"]
          /\ Silent
     ELSE Refuse(c, reply'.err)
  /\ UNCHANGED <<app, secret>>
\* Whatever the error, the user is taken not to exist.
Find(c) ==
  /\ At(c, "find")
  /\ Storage!GetUserByEmail(call[c].email)
  /\ Works
  /\ call' = [call EXCEPT ![c].user = reply'.user, ![c].fault = reply'.err = "fault",
                          ![c].at = IF reply'.err = "nil" THEN "save" ELSE "create"]
  /\ Silent
  /\ UNCHANGED <<app, secret>>

\* UpdateUser's error is ignored.
Save_fresh(c) ==
  /\ At(c, "save")
  /\ \E u \in call[c].user :
       /\ Storage!UpdateUser([u EXCEPT !.attrs = [own |-> FreshOwn, meta |-> "provider"]])
       /\ Tell(c, "nil", {u.id})
  /\ Works
  /\ Observe([call EXCEPT ![c] = Idle])
  /\ UNCHANGED <<app, secret>>
Save_checked(c) ==
  /\ At(c, "save")
  /\ \E u \in call[c].user :
       /\ Storage!UpdateUser([u EXCEPT !.attrs.meta = "provider"])
       /\ Tell(c, reply'.err, IF reply'.err = "nil" THEN {u.id} ELSE {})
  /\ Works
  /\ Observe([call EXCEPT ![c] = Idle])
  /\ UNCHANGED <<app, secret>>
Save(c) ==
  /\ At(c, "save")
  /\ \E u \in call[c].user :
       /\ Storage!UpdateUser([u EXCEPT !.attrs.meta = "provider"])
       /\ Tell(c, "nil", {u.id})
  /\ Works
  /\ Observe([call EXCEPT ![c] = Idle])
  /\ UNCHANGED <<app, secret>>

\* GenerateToken's is too: the ID may be anything.
Create_ignored(c) ==
  /\ At(c, "create")
  /\ \E id \in Ids :
       /\ Storage!CreateUser([id |-> id, email |-> call[c].email,
                              attrs |-> [own |-> FreshOwn, meta |-> "provider"]])
       /\ Tell(c, "nil", {id})
  /\ Works
  /\ Observe([call EXCEPT ![c] = Idle])
  /\ UNCHANGED <<app, secret>>
Create(c) ==
  /\ At(c, "create")
  /\ \E id \in Ids :
       /\ Storage!CreateUser([id |-> id, email |-> call[c].email,
                              attrs |-> [own |-> FreshOwn, meta |-> "provider"]])
       /\ Tell(c, reply'.err, IF reply'.err = "nil" THEN {id} ELSE {})
  /\ Works
  /\ Observe([call EXCEPT ![c] = Idle])
  /\ UNCHANGED <<app, secret>>

-----------------------------------------------------------------------------
\* Other strategies, the application and its administrators use the adapter
\* too.  Calls that change nothing do not show; whether the others are told of
\* the success does not matter here.
Manage == /\ app.storage
          /\ Cardinality({c \in Clients : ~At(c, "idle")}) <= Crowd
          /\ \/ \E u \in Storage!User : Storage!CreateUser(u) \/ Storage!UpdateUser(u)
             \/ \E i \in Ids : Storage!DeleteUser(i)
          /\ reply'.err = "nil"
          /\ Observe(call)
          /\ Silent
          /\ UNCHANGED <<app, secret>>

Signing(c) == call[c].provider = "apple" /\ call[c].at \in {"secret", "exchange"}

\* Ages past the lifetime are not told apart.
Tick == /\ \A c \in Clients : Signing(c) => call[c].age < Patience
        /\ secret' = {IF a > Lifetime THEN a ELSE a + 1 : a \in secret}
        /\ call' = [c \in Clients |-> IF Signing(c) THEN [call[c] EXCEPT !.age = @ + 1] ELSE call[c]]
        /\ Silent
        /\ UNCHANGED <<store, reply, app>>

Next == \/ \E c \in Clients, p \in Providers, code \in BOOLEAN : Callback(c, p, code)
        \/ \E c \in Clients, code \in BOOLEAN : AppleCallback(c, code)
        \/ \E c \in Clients, email \in MaybeEmail : Identified(c, email)
        \/ \E c \in Clients : SetSecret(c) \/ ProviderFails(c) \/ Find(c) \/ Save(c) \/ Create(c)
        \/ Manage
        \/ Tick

Spec == Init /\ [][Next]_vars

-----------------------------------------------------------------------------
Call == [provider : Providers \cup {"none"},
         at : {"idle", "secret", "exchange", "find", "save", "create"},
         age : 0..Patience, email : MaybeEmail, user : SUBSET Storage!User, fault : BOOLEAN,
         had : SUBSET Ids, kept : SUBSET Ids, disturbed : BOOLEAN]
Answer == [err : {"none", "nil", "missing", "secret", "provider", "exists", "fault"},
           id : SUBSET Ids, email : MaybeEmail, sought : BOOLEAN, fault : BOOLEAN,
           had : SUBSET Ids, kept : SUBSET Ids]

TypeOK ==
  /\ store \in MapsOf(Ids, Storage!User)
  /\ app \in [storage : BOOLEAN, key : BOOLEAN]
  /\ secret \subseteq 0..(Lifetime + 1) \cup 0..Patience
  /\ call \in [Clients -> Call]
  /\ answer \in Answer

\* Whom a login returns the storage knows: at some instant since the provider
\* named the email, a user with that email had the ID returned, though others
\* create, change and delete users and the adapter fails meanwhile.
LoginsExist ==
  answer.err = "nil" /\ app.storage =>
    answer.id # {} /\ answer.id \subseteq answer.had \cup IdsOf(answer.email, store)

\* Who was there all along gets in and gets their own user, even if their
\* metadata cannot be updated, unless the look-up itself failed, which counts
\* as no such user.  Twitter looks nobody up.
ReturningLogsIn ==
  answer.kept # {} /\ answer.sought /\ ~answer.fault =>
    answer.err = "nil" /\ answer.id = answer.kept

\* A login changes nothing of a returning user but the metadata, unless the
\* user was changed while the login was between look-up and update: it then
\* puts back what it had read.
LoginKeepsOwned ==
  [][\A c \in Clients : At(c, "save") /\ call'[c] = Idle /\ ~call[c].disturbed =>
       \A i \in Ids : Owned(i, store') = Owned(i, store)]_vars

\* Logins overwrite each other's client secret, with one that may be older
\* than theirs; yet none uses an expired one if every login takes at most half
\* a secret's lifetime.
SecretGood ==
  2 * Patience <= Lifetime =>
    \A c \in Clients : Signing(c) /\ At(c, "exchange") => \E age \in secret : age <= Lifetime
=============================================================================
