# Loginfy in TLA+

A verification project for `loginfy-go`, an authentication framework for Go
services: TLA+ modules translated from the source, TLC configurations that check
them on small instances, and theorems TLAPS proves for every instance.
`PROJECT.json` lists the components, the runs, the theorems, the hazards of the
code and, for every definition that models code, the lines it models.

## 1. The system

| component | state | operations | interacts with |
|---|---|---|---|
| `core.Storage` contract (`core/storage.go`, `core/user.go`) | users by ID | Create, GetByEmail, GetById, Update, Delete | implemented by seven adapters, called by strategies, providers and middleware |
| `storage/memory` | two maps and one RWMutex; **the users are shared pointers** | the five, `Clear` | its callers keep and edit the objects it stores |
| `storage/redis` | a key per user, a hash as email index | the five, each two to four commands, writes in MULTI/EXEC | other goroutines and processes between the commands |
| `storage/cassandra` | one table, a non-unique index on email | the five, the writes a read and then a write | the same |
| `storage/{sqlite,mysql,postgres,sql,mongodb}` | one table or collection | the five, one statement each | the database makes a statement atomic |
| `sessions/jwt` | a secret; sessions live in the tokens | Create (with and without roles), Validate, Destroy | clock, process restarts |
| `middleware` | none; the request's `core.Context` | four guards | Mount's context, session manager, storage |
| `core.Loginfy` | strategies, storage, session manager, hooks | Use, setters, Authenticate, Mount, Login, Logout | all of the above |
| `strategies/emailPassword`, `pkg/crypto` | none | Register, Authenticate; hash, verify | storage, hooks |
| `pkg/logger` sessions | the registry, session objects, files; two levels of mutexes | StartSession, Log, End, CloseAllSessions, GetSession | child loggers share the registry |
| `pkg/logger` writers | a slice of writers, a level | New, ForService, AddWriter, SetLevel, entry | child loggers share the backing array |
| `authorization` | two maps, **no lock** | DefineRole, GrantPermission, RevokePermission, AllowPolicy, HasPermission, Can | handlers ask while the application writes |
| `providers/*` | configuration; **Apple's client secret is rewritten by every login** | redirect, callback | storage, the provider's HTTP API |

What is hard, and what correctness means there:

* **Storage.** Five operations are promised at one instant each. The memory
  adapter keeps that with a lock but lets its objects escape; Redis and Cassandra
  split an operation into commands with no lock; the SQL adapters have to read
  the outcome of a statement right. Correct: the email index and the users
  agree; an adapter refines the contract; no two users share an email.
* **Requests.** A guard validates a token, loads a user, and checks a role a
  moment later, while administrators edit and delete users and the process
  restarts with another secret; services wrap the guards in any order. Correct:
  nobody unentitled reaches the handler, nobody entitled is turned away but for
  a failure of the storage.
* **Login.** The password is verified against an object fetched a moment ago.
  Correct: success proves that the password was the email's, failure that it was
  not, and the hooks follow the outcome. The application may configure the
  framework while requests are served.
* **OAuth.** A callback looks a user up, then updates or creates one, while other
  callbacks and administrators do the same. Correct: whom it returns exists, a
  returning user gets in as themselves and keeps what is theirs, and the client
  secret in use has not expired.
* **Logger.** `Log` and `End` nest two mutexes, `CloseAllSessions` works on a
  snapshot, file names have a resolution of a second, child loggers share maps
  and arrays, and an entry is written after the lock was let go. Correct: registry,
  files and writers stay exact and nobody deadlocks.

`PROJECT.json` "hazards" has these one by one, each at its line, with the
properties that watch over it. Where a property permits the very failure a hazard
is about, or where none covers it, a note says so.

## 2. Modules and how they correspond to the code

| module | models | a step is |
|---|---|---|
| `GoMaps` | Go maps as partial functions | - |
| `UserStore` | the contract of `core.Storage` | one call, at one instant; it may fail having taken effect or not |
| `MemoryStorage` | `storage/memory` | one method (all of it is under the lock), or a caller's assignment to an object |
| `RedisStorage` | `storage/redis` | one Redis command or MULTI/EXEC of one client |
| `CassandraStorage` | `storage/cassandra` | one CQL statement of one client |
| `TableStorage` | the SQL adapters and MongoDB | one statement, which is one method |
| `JWTSession` | `sessions/jwt` | one method; it is state and helpers, composed below |
| `Authorizer` | `authorization` | one method; state and operations, composed below |
| `Middleware` | `middleware`, Mount, Login, Logout, **composed of `JWTSession`, `Authorizer`** and a storage | one guard of one request; token validation and user loading are two |
| `EmailPassword` | `strategies/emailPassword`, `Loginfy.Authenticate` and the setters, `pkg/crypto`, **composed with `UserStore`** | up to the next storage call |
| `OAuthCallback` | `HandleCallback` of the seven `providers/*`, **composed with `UserStore`** | up to the next call of the provider or the storage |
| `LoggerCallers` | the loggers and goroutines both modules on `pkg/logger` are about | - |
| `LoggerSessions` | `pkg/logger/session.go` | one section between two lock operations |
| `LoggerWriters` | `pkg/logger/logger.go` | one method (one section under its lock); for `entry` the section, then one writer at a time |
| `GoMapsLemmas` | lemmas about Go maps and tables of users | - |
| `MemoryStorageProofs` | theorems about `MemoryStorage` and `UserStore` | - |
| `RemoteStorageProofs` | theorems about `TableStorage` and `CassandraStorage` | - |
| `RedisStorageProofs`, `MiddlewareProofs`, `EmailPasswordProofs`, `OAuthCallbackProofs` | theorems about the module of that name | - |
| `LoggerProofs` | theorems about `LoggerWriters` and `LoggerSessions` | - |
| `MC*` | instances for TLC | - |

Shared conventions. `reply` is the latest call of an adapter that returned: the
operation, its key, its error, and the user it returned or was given. The errors
are `nil`, `exists` (`ErrUserAlreadyExists`), `notfound` (`ErrUserNotFound`) and
`fault` (any other). A set with at most one element stands for a pointer that
may be nil or a value that may be absent. An operation named `X_something` before
`X` is `X` with a plausible bug, kept to show that the properties see it; no
specification uses it.

Some details worth knowing:

* *MemoryStorage.* `heap` holds the objects behind the `*core.User` pointers,
  `users` and `email` are `m.users` and `m.email`. `NewUser` is a caller filling
  an object nobody stored; `EditStored` a caller assigning to fields of a stored
  one, as `providers/google/google.go:98-104` does with the result of a look-up.
  `InPlace` says which fields callers assign to.
* *RedisStorage.* `IdsOf` says which users a client writes, `emailsOf`, chosen at
  the start among `Sharings`, which emails it uses. `Partitioned` says that no
  two clients share any.
* *RedisStorage, CassandraStorage.* `call[c]` is where client `c` is in its
  call and what it has read so far. With `Faults` a command may fail, or take
  effect and lose its answer. In Redis `pw` tells a hash from the empty string,
  since `CreateUser` and `UpdateUser` marshal the password differently.
* *TableStorage.* `adapter` is chosen at the start and never changes;
  `UniqueEmail`, `ChangedRows` and `OnlyExists` are what tells the adapters
  apart. `New` makes a table or an index that keeps emails unique; `NewFromDB`
  and `NewFromClient` take what they find, and here they find nothing that does.
  `storage/sql` is like `New` of the database behind its driver once
  `AutoMigrate` has run, and like `NewFromDB` before.
* *Middleware.* `chain` is the wrapping of the handler, outermost guard first.
  `began`, `ever` and `always` are history: what the storage said of the token's
  user at some instant, and at all instants, of the request. The properties
  compare the guards' decisions, which rest on reads at different instants, with
  these. A fact about the authorizer is kept apart from one about the user,
  since the code reads them apart. `LoadUser` may meet any failure of the
  storage, which `auth.go:101-111` answers with 401 like a user that is not there;
  `fault` records that it did. A loaded user is a copy, or with `SharedObjects`
  the adapter's own object: `EditUser` then changes it under the request, until
  the adapter lets go of it (`LetGo`: the user is deleted, or saved as another
  object) and the request keeps the old one. `Logout` changes nothing, as in the
  code.
* *Authorizer.* A policy is the set of permissions it checks, as in the combined
  example of `docs/api/authorization.md`. The guards `HasPermission` and `Can` in
  a chain are the handler's own calls. Each call is one step, in any order: the
  code has no lock, so whoever shares an Authorizer has to bring one.
* *EmailPassword.* A hash is the `Key` of the password it was made from: what
  bcrypt reads of it, its first 72 bytes, which is what `VerifyPassword` can tell.
  The passwords of `TooLong` are those `HashPassword` refuses; `VerifyPassword`
  refuses none, and takes a long one for any that begins with the same bytes. The
  instance has such a pair.
  `had` and `kept` are history like `ever` and `always`. `Configure` calls the
  setters at any time, between any two steps of a request.
* *OAuthCallback.* `EmailsFrom` is the emails a callback may end up with, per
  provider: GitHub's list of emails and Microsoft's fallback included. A user's
  `own` is what a login must not touch (password, roles), `meta` what it
  replaces. An age of a secret counts ticks since it was signed, and a login
  takes at most `Patience` of them until it has exchanged its code. The ID a
  creation draws may be any, since the error of `GenerateToken` is ignored. The
  user looked up is a copy; with the memory adapter the assignment to its
  Metadata is `EditStored` there and `Touch` in `UserStore`.
* *LoggerSessions.* Critical sections under `RLock` are one step that waits for
  a writer. `sess` are session objects, `active` the registry; a file is a
  sequence of lines, under a name made of the logger's `Service`, the ID and the
  second. A session is registered in one step and its header written in another,
  which also lets the mutex go: with one logger nobody can get at it between the
  two, with a child logger somebody can (`Reachable`), and the header then comes
  after the footer, or not at all (`Header`). `MkdirAll` and `Create` may fail.
  Lines after `MaxLines` are not logged: a bound.
* *LoggerWriters.* A slice is a backing array and a length, and `append` writes
  in place while there is room, which is all that the aliasing needs. `clashed`
  is history: who shared an array with a logger given another writer in the same
  place. `entries` holds the private copy of each entry being written.

### Refinement

`UserStore` is the abstract specification of a storage adapter. Every adapter
module instantiates it with `store` as its table (a refinement mapping) and
states `ImplementsUserStore`. Where an adapter is known to differ, the property
is `[][Abstract!Next \/ Deviation]_(Abstract!vars)`: each way it differs is an
action with a name, defined only by the abstract table and the reply, so that
what is checked is that **nothing else** differs. `EmailPassword` and
`OAuthCallback` are built on `UserStore` itself and so hold over any adapter that
implements it.

* memory: `UserStore!SharedSpec`, whose only extra is `Touch`, a change without
  a call to a stored user's fields other than the keys;
* redis: `LosesPassword`;
* cassandra: `SharedEmail`, `Revive`, `DeleteNothing`;
* tables: `MissedUpdate` (mysql), `MaskedFault` (sqlite, mysql, postgres, sql),
  `SharedEmail` (adapters made by `NewFromDB` or `NewFromClient`).

## 3. The runs

| run | question | bounds | states |
|---|---|---|---|
| `MCMemoryStorage` | do index and users agree, and is the adapter the contract, when callers edit shared objects but not their emails? | 2 IDs, 2 emails, 2 attributes, 3 objects | 2 400 |
| `MCRedisStorage` | does the index stay sound when each user has one writer, emails are contended, and commands fail; with emails partitioned too, is Redis the contract? | 2 clients, 3 IDs, 3 emails; two ways to share emails | 417 000 |
| `MCRedisRace` | (violation) are emails unique when clients share them? | 2 clients creating | 600 to the error |
| `MCCassandraStorage` | is Cassandra the contract, but for the three deviations, with everything shared and faults? | 2 clients, 2 IDs, 2 emails, 2 attributes | 33 900 |
| `MCTableStorage` | are the other five the contract but for theirs; do those that made their table or index keep emails unique? | 8 adapters (4 databases, each made in two ways), 3 IDs, 2 emails, 2 attributes, times 0..2 | 13 800 |
| `MCMiddleware` | can any order of the guards, or a handler that asks the authorizer, be got around; does the documented order let the entitled in unless the storage fails? | every chain of up to 4 of 5 guards, 2 that ask; 1 request, user and token; for 2 documented chains expiry, restarts, 2 secrets, times 0..2, shared objects | 1 638 000 |
| `MCEmailPassword` | do logins prove passwords, do registered users get in, do hooks follow, though configured late? | 1 client and the environment, 2 IDs, 2 emails, 3 passwords, one of them too long and beginning like another | 52 900 |
| `MCRegisterHook` | (violation) is OnRegister called? | the same | 1 300 to the error |
| `MCOAuthCallback` | whom do logins return, what do they leave alone, is the client secret good? | 2 callbacks and an administrator, 3 providers, 2 IDs, 1 email and none | 535 000 |
| `MCLoggerSessions` | registry, files, closing exact; do threads wait in a circle, and does every call return? | 2 threads, 2 IDs, 2 sessions, 2 lines, seconds 0..1 | 299 000 |
| `MCLoggerWriters` | does every logger keep its writers, and does an entry reach those it was logged to? | 2 loggers, 2 writers, 5 per logger, 2 levels, 1 thread that logs | 383 000 |
| `MCLoggerChildren` | (violation) is the registry written by one thread at a time? | parent and child, 2 threads | 110 to the error |

The three runs named *violation* find what a document of the repository says
violated by what the code does; see section 6.

**Why the bounds are enough.** The races are between two parties: two clients
around one user or email, a request and an administrator, two threads and a
session. A third email in `MCRedisStorage` lets a writer move within emails of
its own while another writes; the other sharing gives both the same two. Three
IDs in `MCTableStorage` and two emails let
adapters whose table nobody made for them hold two and three users of one email. Three objects in
`MCMemoryStorage` are one more than two users need, so there is always one to
replace a stored object by. Four guards are enough to have Mount, the loader,
a check, and something out of place. In `MCMiddleware` the many orders run with
a standing clock, and the documented ones (`Eventful`) with one that has three
instants, where a token lives for one: it is tried before, at and after its
expiry and a second unit passes within a request. Two required roles, of which
the instance's users can have one, tell *any* from *all*. In `MCOAuthCallback`
the three providers are those that differ: one that looks up, with every way to
an email (the others' emails are among GitHub's), Twitter and Apple; with two
callbacks on their way the environment rests (`Crowd`), since it does to one what
the other callback and itself could do to it in turn. A secret lives for two
ticks and a login takes one: half, the most `SecretGood` allows. Five writers
in `MCLoggerWriters` make two doublings, so that a slice is full and roomy
twice; one thread that logs is enough, since entries do not meet except in the
writers. A session ID is reused within a second and across seconds in
`MCLoggerSessions`. Counters that would grow for ever have a named bound:
`MaxTime`, `MaxIssued`, `MaxSessions`, `MaxLines`, `MaxSecond`, `MaxWriters`.
`Crowd` and `Eventful` bound who acts when, and say so where they are declared.
`Patience` is no bound but an assumption: the code sets no limit to how long a
login takes, and `SecretGood` holds of those that take at most half a lifetime.

**Views.** Runs of the adapters, of `EmailPassword` and `OAuthCallback` take states
that differ only in the latest reply of the adapter as one. No action reads it, so no
behaviour is lost; the action properties, which are about it, are evaluated on
every step. An invariant's conjuncts about `reply` are checked on the first state
of each view only: the theorems of section 4 on `TypeOK` cover what is left, and
`ImplementsUserStore` pins `reply` on every step. `MCEmailPassword`
and `MCOAuthCallback` keep `answer`, which their invariants are about, in the view.

**Mutants.** For every property of every passing run `PROJECT.json` names a
plausible bug in a mapped definition that violates it: an index that keeps the
old email, a comparison that hashes again, a lock taken too long, a child logger
without its parent's writers, an action allowed for want of a
policy, a creation whose error is ignored, a client secret signed once for all.

**Fairness.** Only `LoggerSessions` has liveness. `Spec` assumes `SF` of each
thread's `Step`: a goroutine that is in a call is scheduled, and one that waits
for a mutex that becomes free again and again gets it, because Go's mutexes hand
over to a waiter starved for a millisecond (and an RWMutex blocks new readers
once a writer waits). Nothing assumes that anybody calls anything. Under it
`CallsReturn` says that the two levels of locks cannot deadlock or starve a call;
`NoCircularWait`, the half of it that is safety, and the rest need no fairness. All other modules are
safety only: their callers and the network may stop.

## 4. The proofs

All hold for every value of the constants; `tlapm` checks each to the last leaf.
Every property of a passing run is stated by a theorem, except `CallsReturn`. TLC
checked each property before it was proved. A proof has the same shape everywhere:
an inductive invariant, a lemma per action that says the action keeps it, a lemma
that collects the actions of `Next`, and theorems that conclude. `GoMapsLemmas`
states once what writing to and deleting from a map do, and that a call that
writes no email twice keeps a table of users in order (`WrittenKeeps`).

### Assumptions

The named `ASSUME`s say what kind of value a constant is: sizes are naturals,
flags Booleans, chains sequences of guards, `InUse` some of `Providers`. The only
ones that say more are `PasswordsAssumption` and `KeyAssumption`: no password, and
no hash, is the empty string, which is what a missing password is and what a user
without one has. Nothing is assumed of which passwords share a key. Sets of users, emails, clients, loggers and
requests need not be finite; `BoundsAssumption` wants finitely many threads of the
session logger, since `Space` counts them. The bounds of the runs (`MaxTime`,
`MaxSessions`, `Crowd`, ...) are constants too, and so arbitrary. Some theorems on
storage and on the logger have a hypothesis besides, which is what the code needs
for them to be true:

* `"email" \notin InPlace` (`IndexConsistent`, `MemoryImplementsUserStore`,
  `MemoryEmailsUnique`): callers do not edit the email of an object the memory
  adapter holds.
* `Faithful` (`FaithfulImplements`): the adapter is MongoDB's with its index, or
  SQLite's or PostgreSQL's with nothing lost. The others deviate; `MCTableStorage`
  has them.
* `OneClient` (`CassandraAlone`): there is one client. With two,
  `Revive` and `DeleteNothing` happen in `MCCassandraStorage`.
* `OneWriter` (`RedisIndexSound`, `RedisImplements`, `RedisEmailsUnique`): no two
  clients write one user. `MCRedisStorage` has it; with two writers what one read
  of a user need not be so when its transaction runs.
* `OneLogger` (`TheFileComplete`, `TheRegistryExact`, `TheCloseAllEnds`,
  `TheMapGuarded`): the registry is reached through one mutex, so nobody has
  called `ForService`. Without it `MCLoggerChildren` violates `MapGuarded`, and a
  session may be ended before its header is written (section 6).
  `MCLoggerSessions` has it. Types and locks need no such hypothesis:
  `SessionsTypeCorrect` and `TheNoCircularWait` hold with any number of loggers.

A few properties have a premise of their own, in their definition: `SecretGood`
(`2 * Patience <= Lifetime`), `EntitledPasses` (`Ordered`: Mount first and nowhere
else, the loader before any check; and `~fault`: the storage did not fail when
asked for the user), Redis's `ImplementsUserStore` (`Partitioned`,
which `RedisEmailsUnique` has too), `EmailsUnique` of the tables (`UniqueEmail`).

### Storage

* *Memory.* `TypeCorrect`: the heap, maps and replies keep their types.
  `IndexConsistent`: the email index and the users agree for ever. `IndexAgrees`
  is inductive relative to `TypeOK`: the two directions, and that a user is filed
  under its own ID, need each other. That a stored user's email leads back to it
  is why removing the old email in `UpdateUser` and `DeleteUser` removes this
  user's entry; that every entry's user has that email is why "not in the index"
  proves that no user has it. The assumption is needed at one step, `EditStored`,
  and without it the theorem is false (section 6). `MemoryImplementsUserStore`:
  `IndexIsScan` shows that a look-up in the index answers as a scan of the table;
  `OperationImplements` maps the six operations to their namesakes;
  `NewUserHidden` shows that filling an object nobody stored is a stutter,
  `EditTouches` that an edit is `Touch`, which is where it matters that no two IDs
  share an object.
* *The contract.* `UserStoreEmailsUnique`: in every behaviour, faults and `Touch`
  included, every user is filed under its ID and no two share an email. With the
  refinement, so it is with the memory adapter: `MemoryEmailsUnique` says it of the
  heap and the two maps.
* *Tables.* The invariant is `TypeOK`, the emails, and that every row is filed
  under its user's ID (`Filed`), which is what makes the database's refusal of a
  clashing write enough. `TableImplements` maps each statement to an operation or
  to the deviation of that adapter; `FaithfulImplements` says which adapters have
  none.
* *Cassandra.* A call acts on its arguments only, so the invariant adds what each
  statement was given (`Underway`); that what a call read may be out of date is
  why `SharedEmail`, `Revive` and `DeleteNothing` are there, and the theorem says
  that nothing else is. `Strays` ties each of them to the statement that causes
  it. `CassandraAlone` says what remains with one client, where what a call found
  with its first statement is still so at its second (`Fresh`): an UPDATE, before
  which nothing looks at emails, and an INSERT whose SELECT failed may make two
  users share one. So the other two deviations are races, and this one is not.
* *Redis.* The invariant is in three layers. `RedisTyped`: types, and what each
  command was given (`Given`). `RedisSound`, with one writer to a user: every
  index entry leads to a user with that email, and what a call has read of the
  user it writes is still so (`Guarded`); the transaction may therefore remove the
  email it read. `RedisComplete`, with emails partitioned: every stored user is
  behind its email, that email is its writer's, and what a call has read of the
  index is still so (`Informed`). The last layer makes each writing command, and
  the read at which a look-up or a refusal takes effect, an operation of
  `UserStore`. It also gives `RedisEmailsUnique`, what `MCRedisRace` violates
  where clients share an email.

### Requests and logins

* *Middleware.* `OnlyTheEntitled` rests on `Reached`: for each guard a request has
  passed, what that guard demands is among the facts that were true at some
  instant of the request (`ever`), and the token was good if the guard looked at
  it. The user in the context was loaded within the request (`Known`), which is
  why an earlier read is enough. `TheEntitledPass` rests on `Served`, the converse
  for the facts true all along (`always`), in `Ordered` chains; a refusal for a
  failure of the storage sets `fault`, which the property excepts. Both are for all
  chains, of any length, where TLC has those of up to four guards.
* *EmailPassword.* `Recorded`: what the table says of the request's email now lies
  between what it always and what it ever said, and so does the password of the
  user that was fetched, all as keys: what a login proves is a password that
  bcrypt cannot tell from the email's. That its lower bound is only about one user needs the
  emails to be unique, which `WriteKeeps` gets from the contract. `LoginsProve`,
  `TheRegisteredLogIn` and `HookOnLogin` follow at the answer.
* *OAuthCallback.* `Recorded` is the same of the users behind the provider's
  email; that a login creates only a user it did not find is part of it.
  `SecretYoung` is the strengthening for `SecretsGood`: the secret in use is at
  most as old as the login plus `Patience`, since whoever wrote it last signed it
  no more than `Patience` before. `LoginsKeepOwned` is an action property.

### Logger

* *Writers.* `OutputInv`: a logger that has not clashed finds in its part of the
  array what it was given (`Kept`), and whoever shares an array with one given
  another writer in the same place is known to have clashed (`ClashesKnown`). An
  `append` in place preserves `Kept` of the others because their parts are
  shorter, or they clash. `EntryDelivered` is inductive by itself with types: the
  entry is a copy.
* *Sessions.* `SessionsInv`: which thread holds which session's mutex and what it
  knows of that session (`Stage`) and that a session being registered is its
  thread's alone (`Private`); `Space` and `Numbered` keep the bound. `FilesInv`,
  for one logger, says of a file one session was given that it is empty until the
  header is written, that nobody else comes at the session till then (`Untouched`),
  and that it tells its story from the start ever after (`Headed`, `Told`): what
  keeps others away before the header is the logger's mutex, hence `OneLogger`.
  `RegistryInv` is what
  each thread knows of the registry while it has the mutex, or between (`Watch`):
  that the ID it registers is free, that the session it ends is still under its
  ID, that the sessions `CloseAllSessions` saw are gone, still to be looked up, or
  being ended; and `Listed`, that a closed session in the registry has a thread
  busy ending it. `RegistryExact`, `CloseAllEnds` and `MapGuarded` follow.
* *Locks.* `NoCircularWait` compares threads by who has the mutex that the other's
  next step takes (`WaitsFor`). `SessionsInv` says what the holder of a mutex is
  doing; `Holders` is the converse, that whoever is recorded as holding one is at
  a step that has it: a session's between finding the session open and the end of
  the call, a logger's while at work on the registry. No step that has a logger's
  mutex takes another, and no step takes a session's while it has one, so a chain
  of waiting threads ends after two. That it also moves on is `CallsReturn`.

Theorems about `CassandraStorage` are stated through an instance
(`Cassandra!TypeOK`) in the module that extends its sibling, whose names its own
are, with the same constants and variables.

### Only model-checked

* `CallsReturn`: liveness under fairness, out of the prover's reach. Its safety
  core, `NoCircularWait`, is proved.
* That the hypotheses above are needed, and that the properties of the
  violation runs fail: counterexamples are TLC's.

No module has a `RECURSIVE` operator, and no property needs induction over data.

## 5. What is not modelled, or only partly

* `Use` and the setters may run at any time in `EmailPassword`, each at one
  instant. Replacing a storage or a session manager by another one while requests
  run is not modelled: no caller in the repository does. Nor is a setter that
  comes between a hook's nil check and its call (`core/loginfy.go:98-99`): the two
  are one step with the outcome.
* `providers/*`: `AuthURL` keeps no state. The providers' servers are any answer.
  The encoding of Apple's signature is left out, and with it the hazard
  `apple.go:212`.
* `GetRolePermissions` only reads; `Granted` is what it reads.
* base64, JSON and HMAC of tokens, password encodings, log formatting and
  colours, schemas, connection set-up and `Close`/`Ping`: no state that a
  property is about. A token verifies under the secret it was signed with only.
* Replication and clock skew in Cassandra (one coordinator's clock is assumed),
  Redis Cluster and failover: outside `src/`.
* `GetSession` is the look-up inside `CloseAllSessions`; `ActiveSessions` only
  counts.
* `pkg/logger/service.go`: it forwards. Its HTTP middleware keeps a status code that
  one request's goroutine writes and reads; nothing two steps could share.
* `pkg/constants`, `pkg/status`, `lognify.go`, the
  examples: no state of their own.
* A data race on a Go map, a string or an interface (authorizer, child loggers,
  setters, Apple's secret) is undefined behaviour. `MapGuarded` shows that one can
  be reached; no module models what follows it.

## 6. Where documents and code disagree

Found while modelling. The first three are runs; the models contain the behaviour
of the others as deviations, premises or plain actions, as named.

* **`storage/redis/redis.go:71`**, `MCRedisRace`: two clients registering one email
  both succeed. "`CreateUser` should reject duplicate emails"
  (`docs/guides/storage-adapters.md:188`).
* **`pkg/logger/logger.go:108`**, `MCLoggerChildren`: a child logger writes its
  parent's registry under its own mutex. "Concurrency-Safe: Mutex-protected, safe
  for goroutines" (`pkg/logger/README.md:30`).
* **`strategies/emailPassword/emailPassword.go:131`**, `MCRegisterHook`: nobody calls
  `OnRegister`. "Called after successful user registration"
  (`docs/api/core.md:265`).
* `storage/memory/memory.go:128`: the caller edits the email of an object it
  looked up and saves it. The stored object is the same object, so "If email
  changed, update the email index" (line 127) sees no change, and the index keeps
  the old email. After a deletion the old entry makes `GetUserByEmail`
  dereference nil (lines 85-88). `InPlace = {"email", "attrs"}` shows both
  (`IndexAgrees` fails), which is why the theorems assume otherwise.
* `storage/redis/redis.go:95`: `CreateUser` marshals without the password, whose
  tag is `json:"-"`; only `UpdateUser` uses `marshalUser`. "Store the hashed
  password as-is" (`docs/guides/storage-adapters.md:190`). `LosesPassword`.
* `storage/redis/redis.go:131`: a look-up by email is two reads, and returns a
  user with another email when an update falls between. Where emails are
  partitioned nobody else moves the email looked up.
* `storage/cassandra/cassandra.go:132`: as for Redis; `SharedEmail`. Line 233:
  an UPDATE after another client's DELETE makes the user again; `Revive`.
* `storage/mysql/mysql.go:159`: the driver counts changed rows, and the column of
  `updated_at` keeps whole seconds, so an update repeated within one is answered
  with `ErrUserNotFound`; `MissedUpdate`.
* `storage/sqlite/sqlite.go:116`, and its SQL siblings: any failure of the INSERT is
  `ErrUserAlreadyExists`. "Return meaningful errors"
  (`docs/guides/storage-adapters.md:187`). `MaskedFault`.
* `storage/mongodb/mongodb.go:53`: `NewFromClient` creates no unique index, and
  `NewFromDB` of the SQL adapters (`sqlite.go:51`, `mysql.go:45`,
  `postgres.go:45`) and `New` of `storage/sql` (`sql.go:27`) no table, so a
  registration of a taken email is refused only if somebody else saw to it;
  `SharedEmail`.
* `sessions/jwt/jwt.go:176`: `DestroySession` records nothing; the token stays good.
  "Invalidates a session" (`docs/api/core.md:249`). `Logout` in `Middleware`.
* `middleware/auth.go:101`: any error of `GetUserById`, a timeout for one, is
  answered with 401, as if the user did not exist. `EntitledPasses` excepts it by
  name (`fault`).
* `middleware/auth.go:230-241`: the MongoDB driver decodes a list in Metadata as
  `bson.A`, which neither type assertion matches, so the permission is refused.
  `EntitledPasses` excepts it by name (`"readable"`).
* `strategies/emailPassword/emailPassword.go:62`: an adapter's failure is answered as
  invalid credentials; `RegisteredLogsIn` excepts it.
* `pkg/crypto/crypto.go:33`: bcrypt compares the first 72 bytes of a password and
  says nothing of the rest (`golang.org/x/crypto` refuses a longer one in
  `GenerateFromPassword` only). A password of more than 72 bytes, which
  `HashPassword` refuses, therefore logs in as the one of 72 bytes it begins with.
  `LoginProves` speaks of keys for that reason.
* `providers/twitter/twitter.go:111-118`: a user is created at every login and none
  looked up, so where emails are unique anybody's second login is refused, for
  the empty email is taken. `ReturningLogsIn` excepts Twitter (`sought`). A login
  through another provider that gives no email finds that same user.
* `pkg/logger/session.go:50`: a session started again under its ID within a second
  truncates its predecessor's file. "its own temporary log file" (line 11).
  `FileComplete` speaks of files no other session was given (`Alone`).
* `pkg/logger/session.go:65-73`: a session is in the registry before its header is
  in the file. The mutex held meanwhile is not a child logger's, so
  `child.CloseAllSessions()` may end it first: the file then has the footer before
  the header, or only the footer. `TheFileComplete` is for one mutex.
* `pkg/logger/logger.go:126`: once the shared array has room, `AddWriter` on a logger
  and on its child write the same element. "adds an additional output writer"
  (line 122). `WritersKept` excepts those who shared an array with one given
  another writer in the same place (`clashed`), for good: the wrong writer goes
  along when the slice later moves to an array of its own.

## 7. Plan

Done, in this order: `UserStore`, `MemoryStorage` and its refinement and
proofs; the remote adapters; `JWTSession` with `Middleware`; `EmailPassword` over
`UserStore`; the logger; `OAuthCallback` over `UserStore`; `Authorizer` within
`Middleware`; late configuration in `EmailPassword`; then the proofs of section 4.

What is left:

1. Compose `Middleware` with `EmailPassword`, a token being issued by a login that
   proved a password; `Login` of `Middleware` stands for it.
2. What `OneLogger` leaves open: which parts of `RegistryExact` and `FileComplete`
   survive a child logger, when calls on parent and child do not overlap.
3. The two hazards without a property: tokens that outlive `DestroySession`
   (`jwt.go:176`) and the halves of a P-521 signature (`apple.go:212`).
