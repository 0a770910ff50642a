----------------------------- MODULE Middleware -----------------------------
(***************************************************************************)
(* One HTTP service built with the framework: Loginfy.Mount and the guards *)
(* of middleware/auth.go around a handler, Login and Logout, the JWT       *)
(* session manager, and a storage adapter other requests and               *)
(* administrators change while a request is on its way.                    *)
(*                                                                         *)
(* chain is the order in which the service wrapped its handler, outermost  *)
(* first.  A guard runs in one step, except RequireAuthWithLoginfy, which  *)
(* first validates the token and then loads the user: the clock and the    *)
(* storage move between the two, and the storage may fail.  A request      *)
(* whose user is loaded holds an object: a copy, or with SharedObjects the *)
(* adapter's own (memory), which an edit in place changes under it until   *)
(* the user is deleted or saved anew.  The guards HasPermission and Can    *)
(* are the handler's own questions to the service's Authorizer, which      *)
(* administrators reconfigure meanwhile.                                   *)
(*                                                                         *)
(* began, ever and always are history: when the request began, and what    *)
(* the storage at some instant and at every instant since then said for    *)
(* the token's user.  So is fault, whether the storage failed it.          *)
(***************************************************************************)
EXTENDS JWTSession, GoMaps, Sequences

CONSTANTS Requests,
          Chains,          \* the wrappings considered
          Required,        \* the roles RequireRole was given
          Shapes,          \* the types a list of permissions can have
          Permissions, Actions,    \* what the service asks the authorizer about
          Eventful,        \* bound: the wrappings under which time passes and processes
                           \* restart, and objects are shared if SharedObjects says so
          SharedObjects    \* whether the adapter hands out its own objects

Checkers == {"RequireRole", "RequirePermission", "HasPermission", "Can"}
Guards == {"Mount", "RequireAuth", "RequireAuthWithLoginfy"} \cup Checkers

\* bson.A stands for every type the guards do not understand.
ASSUME ChainsAssumption == Chains \subseteq Seq(Guards)
ASSUME ShapesAssumption == Shapes \subseteq {"[]string", "[]interface{}", "bson.A"}

VARIABLES rolePermissions, policies,        \* the service's Authorizer
          store,      \* the adapter: ID -> account
          chain, hasSession, hasStorage,    \* how the service was set up
          req         \* the requests

vars == <<now, secret, issued, rolePermissions, policies, store, chain, hasSession, hasStorage, req>>
authz == <<rolePermissions, policies>>
setup == <<chain, hasSession, hasStorage>>

INSTANCE Authorizer

\* perm is the type of the metadata list that holds the permission the
\* service requires, "absent" when no list does.
Account == [roles : SUBSET Roles, perm : Shapes \cup {"absent"}]

None == [at |-> 0, token |-> {}, mounted |-> FALSE, uid |-> {}, user |-> {},
         shared |-> FALSE, status |-> "none", fault |-> FALSE,
         began |-> 0, ever |-> {}, always |-> {}]

\* Whether the adapter hands out its own objects in this service.
Shares == SharedObjects /\ chain \in Eventful

\* What the storage has for the user of token, if anything.
Stored(st, token) == {st[i] : i \in {t.claims.uid : t \in token} \cap DOMAIN st}

Wraps(guard) == \E k \in DOMAIN chain : chain[k] = guard
Authorizes == Wraps("HasPermission") \/ Wraps("Can")

\* What storage and authorizer say of a user: that it exists, has a required
\* role, has the permission, and not in a list of the MongoDB driver's own
\* type, which no guard reads; and, if the service asks the authorizer, which
\* roles it has, what each role grants, and what the policies are.
FactsAbout(a) ==
  {<<"user">>} \cup (IF a.roles \cap Required # {} THEN {<<"role">>} ELSE {})
               \cup (IF a.perm # "absent" THEN {<<"perm">>} ELSE {})
               \cup (IF a.perm # "bson.A" THEN {<<"readable">>} ELSE {})
               \cup {<<"has", role>> : role \in IF Authorizes THEN a.roles ELSE {}}
FactsOf(grants, pols) ==
  (UNION {{<<"grants", role, p>> : p \in grants[role]} : role \in DOMAIN grants})
    \cup {<<"policy", action, pols[action]>> : action \in DOMAIN pols}
Facts(found, grants, pols) == (UNION {FactsAbout(a) : a \in found}) \cup FactsOf(grants, pols)

Init == /\ JWTInit /\ AuthzInit
        /\ store = EmptyMap
        /\ chain \in Chains
        /\ hasSession \in BOOLEAN /\ hasStorage \in BOOLEAN
        /\ req = [r \in Requests |-> None]

InProgress(r) == req[r].at > 0
Here(r) == chain[req[r].at]
Serving(r, guard) == InProgress(r) /\ req[r].at <= Len(chain) /\ Here(r) = guard

Set(r, record) == req' = [req EXCEPT ![r] = record]
Answer(r, status) == Set(r, [req[r] EXCEPT !.at = 0, !.status = status])
Forward(r, record) == Set(r, [record EXCEPT !.at = @ + 1])
\* The storage fails, which is answered like a user it does not have.
Fail(r) == Set(r, [req[r] EXCEPT !.at = 0, !.status = "401", !.fault = TRUE])

-----------------------------------------------------------------------------
(* A request passes through the chain. *)

Begin(r, token) ==
  /\ ~InProgress(r)
  /\ Set(r, [None EXCEPT !.at = 1, !.token = token, !.began = now,
                         !.ever = Facts(Stored(store, token), rolePermissions, policies),
                         !.always = Facts(Stored(store, token), rolePermissions, policies)])
  /\ UNCHANGED <<jwtVars, authz, setup, store>>

Mount(r) ==
  /\ Serving(r, "Mount")
  /\ Forward(r, [req[r] EXCEPT !.mounted = TRUE, !.user = {}, !.shared = FALSE])

RequireAuth(r) ==
  /\ Serving(r, "RequireAuth")
  /\ IF req[r].token = {} THEN Answer(r, "401") ELSE Forward(r, req[r])

ValidateToken(r) ==
  /\ Serving(r, "RequireAuthWithLoginfy") /\ req[r].uid = {}
  /\ LET valid == UNION {ValidateSession(t) : t \in req[r].token}
     IN  IF ~req[r].mounted THEN Answer(r, "500")
         ELSE IF req[r].token = {} THEN Answer(r, "401")
         ELSE IF ~hasSession THEN Answer(r, "500")
         ELSE IF valid = {} THEN Answer(r, "401")
         ELSE Set(r, [req[r] EXCEPT !.uid = valid])

LoadUser_userID(r) ==
  /\ Serving(r, "RequireAuthWithLoginfy") /\ req[r].uid # {}
  /\ Forward(r, [req[r] EXCEPT !.uid = {}, !.user = req[r].uid])
\* Whatever error the storage returns, the answer is the same.
LoadUser(r) ==
  /\ Serving(r, "RequireAuthWithLoginfy") /\ req[r].uid # {}
  /\ LET found == {store[i] : i \in req[r].uid \cap DOMAIN store}
     IN  \/ ~hasStorage /\ Answer(r, "500")
         \/ hasStorage /\ found = {} /\ Answer(r, "401")
         \/ hasStorage /\ found # {} /\ Forward(r, [req[r] EXCEPT !.uid = {}, !.user = found, !.shared = Shares])
         \/ hasStorage /\ Fail(r)

\* Both remaining guards need the context and its user before they check.
Check(r, allowed) ==
  IF ~req[r].mounted THEN Answer(r, "500")
  ELSE IF req[r].user = {} \/ ~allowed THEN Answer(r, "403")
  ELSE Forward(r, req[r])

HasAnyRole(a) == a.roles \cap Required # {}

RequireRole(r) ==
  /\ Serving(r, "RequireRole")
  /\ Check(r, \A a \in req[r].user : HasAnyRole(a))

\* []string and []interface{} are understood; any other type is no list.
Lists_stringsOnly(a) == a.perm = "[]string"
Lists(a) == a.perm \in {"[]string", "[]interface{}"}

RequirePermission(r) ==
  /\ Serving(r, "RequirePermission")
  /\ Check(r, \A a \in req[r].user : Lists(a))

\* A handler that asks the authorizer about the user the guards loaded.
AskPermission(r) ==
  /\ Serving(r, "HasPermission")
  /\ Check(r, \A a \in req[r].user, p \in Permissions : HasPermission(a.roles, p))

AskPolicy(r) ==
  /\ Serving(r, "Can")
  /\ Check(r, \A a \in req[r].user, action \in Actions : Can(a.roles, action))

Handler(r) ==
  /\ req[r].at > Len(chain)
  /\ Answer(r, "200")

Guard(r) == /\ \/ Mount(r) \/ RequireAuth(r) \/ ValidateToken(r) \/ LoadUser(r)
               \/ RequireRole(r) \/ RequirePermission(r)
               \/ AskPermission(r) \/ AskPolicy(r) \/ Handler(r)
            /\ UNCHANGED <<jwtVars, authz, setup, store>>

-----------------------------------------------------------------------------
(* Meanwhile. *)

Login(uid, roles) ==
  /\ hasSession
  /\ Issue(uid, roles)
  /\ UNCHANGED <<authz, setup, store, req>>

\* Answered with success, and nothing is recorded: the token stays good.
Logout(t) ==
  /\ hasSession /\ DestroySession(t)
  /\ UNCHANGED vars

\* History: requests on their way record what storage and authorizer now say
\* of their user.
Observe(calls) ==
  req' = [r \in Requests |->
    LET facts == Facts(Stored(store', req[r].token), rolePermissions', policies')
    IN  IF InProgress(r) THEN [calls[r] EXCEPT !.ever = @ \cup facts, !.always = @ \cap facts]
                         ELSE req[r]]

\* Whether request r holds the object the adapter has for i.
Holds(r, i) == req[r].shared /\ \E t \in req[r].token : t.claims.uid = i

\* The adapter lets go of its object for i, if it has one: who holds it keeps it.
LetGo(i) == [r \in Requests |-> IF Holds(r, i) THEN [req[r] EXCEPT !.shared = FALSE] ELSE req[r]]

\* A user is created, or saved as another object.
SaveUser(i, a) ==
  /\ store' = Put(store, i, a)
  /\ UNCHANGED <<jwtVars, authz, setup>>
  /\ Observe(LetGo(i))

\* Somebody who looked the user up edits the object, saved afterwards or not.
EditUser(i, a) ==
  /\ Shares /\ i \in DOMAIN store
  /\ store' = Put(store, i, a)
  /\ UNCHANGED <<jwtVars, authz, setup>>
  /\ Observe([r \in Requests |-> IF Holds(r, i) THEN [req[r] EXCEPT !.user = {a}] ELSE req[r]])

DeleteUser(i) ==
  /\ i \in DOMAIN store
  /\ store' = Without(store, i)
  /\ UNCHANGED <<jwtVars, authz, setup>>
  /\ Observe(LetGo(i))

\* Administrators use the authorizer of a service that asks it.
Authorize ==
  /\ Authorizes
  /\ \/ \E role \in Roles, ps \in SUBSET Permissions : DefineRole(role, ps)
     \/ \E role \in Roles, p \in Permissions : GrantPermission(role, p) \/ RevokePermission(role, p)
     \/ \E action \in Actions, fn \in SUBSET Permissions : AllowPolicy(action, fn)
  /\ UNCHANGED <<jwtVars, setup, store>>
  /\ Observe(req)

Clock == chain \in Eventful /\ Tick /\ UNCHANGED <<authz, setup, store, req>>

\* The process stops, with the requests it was serving and, if the adapter
\* keeps them in memory, its users, and starts with some secret.
Restart(s, kept) ==
  /\ chain \in Eventful
  /\ New(s)
  /\ store' = IF kept THEN store ELSE EmptyMap
  /\ rolePermissions' = EmptyMap /\ policies' = EmptyMap
  /\ req' = [r \in Requests |-> None]
  /\ UNCHANGED setup

Next == \/ \E r \in Requests : Begin(r, {}) \/ Guard(r)
        \/ \E r \in Requests, t \in issued : Begin(r, {t})
        \/ \E i \in Ids : \E roles \in {{}} \cup {store[j].roles : j \in DOMAIN store \cap {i}} :
             Login(i, roles)
        \/ \E t \in issued : Logout(t)
        \/ \E i \in Ids, a \in Account : SaveUser(i, a) \/ EditUser(i, a)
        \/ \E i \in Ids : DeleteUser(i)
        \/ Authorize
        \/ \E s \in Secrets, kept \in BOOLEAN : Restart(s, kept)
        \/ Clock

Spec == Init /\ [][Next]_vars

-----------------------------------------------------------------------------
Fact == {<<"user">>, <<"role">>, <<"perm">>, <<"readable">>}
          \cup {<<"has", role>> : role \in Roles}
          \cup {<<"grants", role, p>> : role \in Roles, p \in Permissions}
          \cup {<<"policy", action, fn>> : action \in Actions, fn \in SUBSET Permissions}

Request == [at : 0..(Len(chain) + 1), token : SUBSET issued, mounted : BOOLEAN, uid : SUBSET Ids,
            user : SUBSET Account, shared : BOOLEAN,
            status : {"none", "200", "401", "403", "500"}, fault : BOOLEAN,
            began : 0..now, ever : SUBSET Fact, always : SUBSET Fact]

TypeOK ==
  /\ now \in 0..MaxTime /\ secret \in Secrets /\ issued \subseteq Token
  /\ rolePermissions \in MapsOf(Roles, SUBSET Permissions)
  /\ policies \in MapsOf(Actions, SUBSET Permissions)
  /\ store \in MapsOf(Ids, Account)
  /\ req \in [Requests -> Request]

Checked == \E guard \in Checkers \cup {"RequireAuthWithLoginfy"} : Wraps(guard)

\* Whether facts are what the guards demand.
Permits(facts, p) == \E role \in Roles : {<<"has", role>>, <<"grants", role, p>>} \subseteq facts
Entitled(facts) ==
  /\ Wraps("RequireAuthWithLoginfy") => <<"user">> \in facts
  /\ Wraps("RequireRole") => {<<"user">>, <<"role">>} \subseteq facts
  /\ Wraps("RequirePermission") => {<<"user">>, <<"perm">>} \subseteq facts
  /\ Wraps("HasPermission") => \A p \in Permissions : Permits(facts, p)
  /\ Wraps("Can") => \A action \in Actions : \E fn \in SUBSET Permissions :
       <<"policy", action, fn>> \in facts /\ \A p \in fn : Permits(facts, p)

\* Nobody reaches the handler without being entitled to, however the guards
\* were ordered and whatever was edited, deleted or restarted meanwhile: the
\* token was signed by this process's secret and had not expired when the
\* request began, and at some instant of the request the storage had the
\* user, with a required role, with the permission, as the guards demand.
\* Where the authorizer is asked, the user had at some instant a role that
\* granted the permission at some instant, though perhaps not the same one.
\* What the token's own claims say about roles plays no part.
OnlyEntitled ==
  \A r \in Requests : req[r].status = "200" =>
    /\ Checked => \E t \in req[r].token : t.key = secret /\ t.claims.exp >= req[r].began
    /\ Entitled(req[r].ever)

\* The order docs/api/middleware.md requires, around the whole service once.
Ordered ==
  \A k \in DOMAIN chain :
    /\ chain[k] = "Mount" <=> k = 1
    /\ chain[k] \in Checkers =>
         \E j \in 1..(k - 1) : chain[j] = "RequireAuthWithLoginfy"

\* A service set up as documented turns nobody away who was entitled all the
\* way: the token is valid to this moment, and at every instant of the
\* request the storage had the user, with what the guards demand, and with
\* its permissions in a type they understand; unless the storage failed when
\* it was asked for the user, which is answered like a user it does not have.
EntitledPasses ==
  \A r \in Requests : req[r].status \in {"401", "403", "500"} /\ ~req[r].fault =>
    ~ /\ Ordered /\ hasSession /\ hasStorage
      /\ \E t \in req[r].token : t.key = secret /\ now <= t.claims.exp
      /\ Entitled(req[r].always)
      /\ Wraps("RequirePermission") => <<"readable">> \in req[r].always
=============================================================================
