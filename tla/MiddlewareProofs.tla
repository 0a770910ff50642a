-------------------------- MODULE MiddlewareProofs --------------------------
(***************************************************************************)
(* The middleware for every wrapping of the handler, any number of users   *)
(* and requests, and every bound of the clock and of the tokens.           *)
(***************************************************************************)
EXTENDS Middleware, GoMapsLemmas

\* A request carries at most one token, is only about to load its user, and
\* shares no user before it has loaded one.
TokenOK(q) == /\ q.token = {} \/ \E t \in issued : q.token = {t}
              /\ q.uid \subseteq {t.claims.uid : t \in q.token}
              /\ q.shared => q.user # {}

Typed == /\ TypeOK
         /\ chain \in Seq(Guards)
         /\ \A r \in Requests : TokenOK(req[r])

-----------------------------------------------------------------------------
(* What the helpers of the guards do to a request. *)

\* p and q are the same request, wherever it is and whatever was answered.
Same(p, q) == /\ p.token = q.token /\ p.mounted = q.mounted
              /\ p.uid = q.uid /\ p.user = q.user
              /\ p.shared = q.shared /\ p.fault = q.fault
              /\ p.began = q.began /\ p.ever = q.ever /\ p.always = q.always

\* Facts has the type of a set of facts.
LEMMA FactsType ==
  ASSUME NEW found \in SUBSET Account,
         NEW grants \in MapsOf(Roles, SUBSET Permissions),
         NEW pols \in MapsOf(Actions, SUBSET Permissions)
  PROVE  Facts(found, grants, pols) \subseteq Fact
<1>1. \A a \in found : FactsAbout(a) \subseteq Fact
  <2> SUFFICES ASSUME NEW a \in found
               PROVE  FactsAbout(a) \subseteq Fact
    OBVIOUS
  <2>1. a.roles \subseteq Roles
    BY DEF Account
  <2> QED
    BY <2>1 DEF FactsAbout, Fact
<1>2. FactsOf(grants, pols) \subseteq Fact
  <2>1. \A role \in DOMAIN grants : role \in Roles /\ grants[role] \subseteq Permissions
    BY MapsOfIs
  <2>2. \A action \in DOMAIN pols : action \in Actions /\ pols[action] \in SUBSET Permissions
    BY MapsOfIs
  <2>3. ASSUME NEW role \in DOMAIN grants, NEW p \in grants[role]
        PROVE  <<"grants", role, p>> \in Fact
    BY <2>1 DEF Fact
  <2>4. ASSUME NEW action \in DOMAIN pols
        PROVE  <<"policy", action, pols[action]>> \in Fact
    BY <2>2 DEF Fact
  <2> QED
    BY <2>3, <2>4 DEF FactsOf
<1> QED
  <2> SUFFICES ASSUME NEW x \in Facts(found, grants, pols)
               PROVE  x \in Fact
    OBVIOUS
  <2>1. x \in FactsOf(grants, pols) \/ \E a \in found : x \in FactsAbout(a)
    BY DEF Facts
  <2> QED
    BY <1>1, <1>2, <2>1

\* A request that is answered keeps all but its place and its status.
LEMMA AnswerIs ==
  ASSUME TypeOK, chain \in Seq(Guards), NEW r \in Requests,
         NEW status \in {"200", "401", "403", "500"}, Answer(r, status)
  PROVE  /\ req' = [req EXCEPT ![r] = req'[r]]
         /\ req'[r] \in Request
         /\ req'[r].at = 0 /\ req'[r].status = status
         /\ Same(req[r], req'[r])
<1>1. req[r] \in Request /\ 0 \in 0..(Len(chain) + 1)
  BY DEF TypeOK
<1> DEFINE q == [req[r] EXCEPT !.at = 0, !.status = status]
<1>2. q \in Request /\ q.at = 0 /\ q.status = status /\ Same(req[r], q)
  BY <1>1 DEF Request, Same
<1>3. req' = [req EXCEPT ![r] = q]
  BY DEF Answer, Set
<1> HIDE DEF q
<1> QED
  BY <1>2, <1>3 DEF TypeOK

\* A request that is passed on as q is q, one place further.
LEMMA ForwardIs ==
  ASSUME TypeOK, chain \in Seq(Guards), NEW r \in Requests,
         NEW q \in Request, q.at <= Len(chain), Forward(r, q)
  PROVE  /\ req' = [req EXCEPT ![r] = req'[r]]
         /\ req'[r] \in Request
         /\ req'[r].at = q.at + 1 /\ req'[r].status = q.status
         /\ Same(q, req'[r])
<1> DEFINE p == [q EXCEPT !.at = @ + 1]
<1>0. q.at + 1 \in 0..(Len(chain) + 1)
  BY DEF Request
<1>1. p \in Request /\ p.at = q.at + 1 /\ p.status = q.status /\ Same(q, p)
  BY <1>0 DEF Request, Same
<1>2. req' = [req EXCEPT ![r] = p]
  BY DEF Forward, Set
<1> HIDE DEF p
<1> QED
  BY <1>1, <1>2 DEF TypeOK

\* A request the storage fails keeps all but its place, its status and that.
LEMMA FailIs ==
  ASSUME TypeOK, chain \in Seq(Guards), NEW r \in Requests, Fail(r)
  PROVE  /\ req' = [req EXCEPT ![r] = req'[r]]
         /\ req'[r] \in Request
         /\ req'[r].at = 0 /\ req'[r].status = "401" /\ req'[r].fault
         /\ req'[r].token = req[r].token /\ req'[r].uid = req[r].uid
         /\ req'[r].user = req[r].user /\ req'[r].shared = req[r].shared
<1>1. req[r] \in Request /\ 0 \in 0..(Len(chain) + 1)
  BY DEF TypeOK
<1> DEFINE q == [req[r] EXCEPT !.at = 0, !.status = "401", !.fault = TRUE]
<1>2. /\ q \in Request /\ q.at = 0 /\ q.status = "401" /\ q.fault
      /\ q.token = req[r].token /\ q.uid = req[r].uid
      /\ q.user = req[r].user /\ q.shared = req[r].shared
  BY <1>1 DEF Request
<1>3. req' = [req EXCEPT ![r] = q]
  BY DEF Fail, Set
<1> HIDE DEF q
<1> QED
  BY <1>2, <1>3 DEF TypeOK

\* Whatever a guard makes of a request, types are kept if it has the type of one.
LEMMA RequestTyped ==
  ASSUME Typed, NEW r \in Requests, req' = [req EXCEPT ![r] = req'[r]],
         req'[r] \in Request, TokenOK(req'[r]),
         UNCHANGED <<jwtVars, authz, setup, store>>
  PROVE  Typed'
<1>1. req' \in [Requests -> Request] /\ \A x \in Requests : TokenOK(req'[x])
  BY DEF Typed, TypeOK
<1>2. Request' = Request /\ chain' = chain /\ issued' = issued
  BY DEF Request, Account, Fact, jwtVars, setup
<1> QED
  BY <1>1, <1>2 DEF Typed, TypeOK, TokenOK, Account, Token, Claims, jwtVars, authz

\* A guard changes the request it handles and nothing else.
LEMMA GuardIs ==
  ASSUME TypeOK, NEW r \in Requests, Guard(r)
  PROVE  /\ UNCHANGED <<jwtVars, authz, setup, store>>
         /\ \A x \in Requests : x # r => req'[x] = req[x]
<1>1. ASSUME NEW q, Set(r, q)
      PROVE  \A x \in Requests : x # r => req'[x] = req[x]
  BY <1>1 DEF Set, TypeOK
<1>2. \E q : Set(r, q)
  BY DEF Guard, Mount, RequireAuth, ValidateToken, LoadUser, RequireRole, RequirePermission,
         AskPermission, AskPolicy, Handler, Check, Answer, Forward, Fail
<1> QED
  BY <1>1, <1>2 DEF Guard

\* Whether objects are shared is decided.
LEMMA SharesType == Shares \in BOOLEAN
BY DEF Shares

\* Every guard answers, or passes the request on, or is about to load the user.
LEMMA GuardTyped ==
  ASSUME Typed, NEW r \in Requests, Guard(r)
  PROVE  Typed'
<1> DEFINE q == req[r]
<1>0. UNCHANGED <<jwtVars, authz, setup, store>>
  BY DEF Guard
<1>a. q \in Request /\ TokenOK(q) /\ TypeOK /\ chain \in Seq(Guards)
  BY DEF Typed, TypeOK
<1>b. ASSUME NEW status \in {"200", "401", "403", "500"}, Answer(r, status)
      PROVE  Typed'
  <2>1. /\ req'[r].token = q.token /\ req'[r].uid = q.uid
        /\ req'[r].user = q.user /\ req'[r].shared = q.shared
    BY <1>a, <1>b, AnswerIs DEF Same
  <2>2. TokenOK(req'[r])
    BY <1>a, <2>1 DEF TokenOK
  <2> QED
    BY <1>0, <1>a, <1>b, <2>2, AnswerIs, RequestTyped
<1>c. ASSUME NEW p \in Request, TokenOK(p), p.at <= Len(chain), Forward(r, p)
      PROVE  Typed'
  <2>1. /\ req'[r].token = p.token /\ req'[r].uid = p.uid
        /\ req'[r].user = p.user /\ req'[r].shared = p.shared
    BY <1>a, <1>c, ForwardIs DEF Same
  <2>2. TokenOK(req'[r])
    BY <1>c, <2>1 DEF TokenOK
  <2> QED
    BY <1>0, <1>a, <1>c, <2>2, ForwardIs, RequestTyped
<1>1. ASSUME NEW allowed, Check(r, allowed), q.at <= Len(chain)
      PROVE  Typed'
  BY <1>1, <1>a, <1>b, <1>c DEF Check
<1>2. CASE Mount(r)
  <2>1. [q EXCEPT !.mounted = TRUE, !.user = {}, !.shared = FALSE] \in Request
    BY <1>a DEF Request
  <2>2. TokenOK([q EXCEPT !.mounted = TRUE, !.user = {}, !.shared = FALSE])
    BY <1>a DEF TokenOK, Request
  <2>3. [q EXCEPT !.mounted = TRUE, !.user = {}, !.shared = FALSE].at = q.at
    BY <1>a DEF Request
  <2> QED
    BY <1>2, <1>c, <2>1, <2>2, <2>3 DEF Mount, Serving
<1>3. CASE RequireAuth(r)
  BY <1>3, <1>a, <1>b, <1>c DEF RequireAuth, Serving
<1>4. CASE ValidateToken(r)
  <2> DEFINE valid == UNION {ValidateSession(t) : t \in q.token}
  <2>1. CASE Set(r, [q EXCEPT !.uid = valid])
    <3>1. valid \subseteq {t.claims.uid : t \in q.token} /\ valid \subseteq Ids
      BY <1>a DEF ValidateSession, TypeOK, Token, Claims, Request
    <3> HIDE DEF valid
    <3>2. [q EXCEPT !.uid = valid] \in Request /\ TokenOK([q EXCEPT !.uid = valid])
      BY <1>a, <3>1 DEF Request, TokenOK
    <3>3. req' = [req EXCEPT ![r] = req'[r]] /\ req'[r] = [q EXCEPT !.uid = valid]
      BY <1>a, <2>1 DEF Set, TypeOK
    <3> QED
      BY <1>0, <3>2, <3>3, RequestTyped
  <2> QED
    BY <1>4, <1>b, <2>1 DEF ValidateToken
<1>5. CASE LoadUser(r)
  <2> DEFINE found == {store[i] : i \in q.uid \cap DOMAIN store}
             p == [q EXCEPT !.uid = {}, !.user = found, !.shared = Shares]
  <2>1. found \subseteq Account
    BY <1>a, MapsOfIs DEF TypeOK
  <2>2. CASE found # {} /\ Forward(r, p)
    <3>1. p \in Request /\ TokenOK(p) /\ p.at = q.at
      <4>1. found # {}
        BY <2>2
      <4> HIDE DEF found
      <4> QED
        BY <1>a, <2>1, <4>1, SharesType DEF Request, TokenOK
    <3> HIDE DEF p, found
    <3> QED
      BY <1>5, <1>c, <2>2, <3>1 DEF LoadUser, Serving
  <2>3. CASE Fail(r)
    <3>1. TokenOK(req'[r])
      BY <1>a, <2>3, FailIs DEF TokenOK
    <3> QED
      BY <1>0, <1>a, <2>3, <3>1, FailIs, RequestTyped
  <2> QED
    BY <1>5, <1>b, <2>2, <2>3 DEF LoadUser
<1>6. CASE RequireRole(r)
  BY <1>1, <1>6 DEF RequireRole, Serving
<1>7. CASE RequirePermission(r)
  BY <1>1, <1>7 DEF RequirePermission, Serving
<1>8. CASE AskPermission(r)
  BY <1>1, <1>8 DEF AskPermission, Serving
<1>9. CASE AskPolicy(r)
  BY <1>1, <1>9 DEF AskPolicy, Serving
<1>10. CASE Handler(r)
  BY <1>10, <1>b DEF Handler
<1> QED
  BY <1>2, <1>3, <1>4, <1>5, <1>6, <1>7, <1>8, <1>9, <1>10 DEF Guard

-----------------------------------------------------------------------------
(* What happens meanwhile. *)

\* The accounts found for a token are accounts.
LEMMA StoredType ==
  ASSUME NEW st \in MapsOf(Ids, Account), NEW token
  PROVE  Stored(st, token) \subseteq Account
BY MapsOfIs DEF Stored

\* A change of the storage or of the authorizer reaches the requests on their
\* way, and only them, through what they record of it.
LEMMA ObserveIs ==
  ASSUME TypeOK,
         store' \in MapsOf(Ids, Account),
         rolePermissions' \in MapsOf(Roles, SUBSET Permissions),
         policies' \in MapsOf(Actions, SUBSET Permissions),
         NEW calls \in [Requests -> Request],
         Observe(calls)
  PROVE  /\ req' \in [Requests -> Request]
         /\ \A r \in Requests :
              LET facts == Facts(Stored(store', req[r].token), rolePermissions', policies')
              IN  IF InProgress(r)
                  THEN /\ req'[r].at = calls[r].at /\ req'[r].status = calls[r].status
                       /\ req'[r].token = calls[r].token /\ req'[r].mounted = calls[r].mounted
                       /\ req'[r].uid = calls[r].uid /\ req'[r].user = calls[r].user
                       /\ req'[r].shared = calls[r].shared /\ req'[r].fault = calls[r].fault
                       /\ req'[r].began = calls[r].began
                       /\ req'[r].ever = calls[r].ever \cup facts
                       /\ req'[r].always = calls[r].always \cap facts
                  ELSE req'[r] = req[r]
<1> DEFINE facts(r) == Facts(Stored(store', req[r].token), rolePermissions', policies')
           seen(r) == [calls[r] EXCEPT !.ever = @ \cup facts(r), !.always = @ \cap facts(r)]
<1>1. \A r \in Requests : facts(r) \subseteq Fact
  BY FactsType, StoredType
<1>2. ASSUME NEW r \in Requests
      PROVE  /\ seen(r) \in Request
             /\ seen(r).at = calls[r].at /\ seen(r).status = calls[r].status
             /\ seen(r).token = calls[r].token /\ seen(r).mounted = calls[r].mounted
             /\ seen(r).uid = calls[r].uid /\ seen(r).user = calls[r].user
             /\ seen(r).shared = calls[r].shared /\ seen(r).fault = calls[r].fault
             /\ seen(r).began = calls[r].began
             /\ seen(r).ever = calls[r].ever \cup facts(r)
             /\ seen(r).always = calls[r].always \cap facts(r)
  <2> HIDE DEF facts
  <2>1. calls[r] \in Request /\ facts(r) \subseteq Fact
    BY <1>1
  <2> QED
    BY <2>1 DEF Request
<1>3. req' = [r \in Requests |-> IF InProgress(r) THEN seen(r) ELSE req[r]]
  BY DEF Observe
<1> HIDE DEF seen
<1> QED
  BY <1>2, <1>3 DEF TypeOK

\* A request that begins knows what storage and authorizer say at that moment.
LEMMA BeginIs ==
  ASSUME TypeOK, chain \in Seq(Guards), NEW r \in Requests,
         NEW token \in SUBSET issued, Begin(r, token)
  PROVE  LET facts == Facts(Stored(store, token), rolePermissions, policies)
         IN  /\ req' = [req EXCEPT ![r] = req'[r]]
             /\ req'[r] \in Request
             /\ req'[r].at = 1 /\ req'[r].token = token /\ ~req'[r].mounted
             /\ req'[r].uid = {} /\ req'[r].user = {} /\ req'[r].status = "none"
             /\ ~req'[r].shared /\ ~req'[r].fault
             /\ req'[r].began = now /\ req'[r].ever = facts /\ req'[r].always = facts
<1> DEFINE facts == Facts(Stored(store, token), rolePermissions, policies)
           q == [None EXCEPT !.at = 1, !.token = token, !.began = now, !.ever = facts, !.always = facts]
<1>1. facts \subseteq Fact
  BY FactsType, StoredType DEF TypeOK
<1>2. 0 \in 0..(Len(chain) + 1) /\ 1 \in 0..(Len(chain) + 1) /\ 0 \in 0..now /\ now \in 0..now
  BY DurationsAssumption DEF TypeOK
<1>3. req' = [req EXCEPT ![r] = q]
  BY DEF Begin, Set
<1> HIDE DEF facts
<1>4. None \in Request
  BY <1>2 DEF None, Request
<1>5. /\ None.uid = {} /\ None.user = {} /\ None.status = "none"
      /\ ~None.mounted /\ ~None.shared /\ ~None.fault
  BY DEF None
<1>6. /\ q \in Request
      /\ q.at = 1 /\ q.token = token /\ ~q.mounted
      /\ q.uid = {} /\ q.user = {} /\ q.status = "none"
      /\ ~q.shared /\ ~q.fault
      /\ q.began = now /\ q.ever = facts /\ q.always = facts
  BY <1>1, <1>2, <1>4, <1>5 DEF Request
<1> HIDE DEF q
<1> QED
  BY <1>3, <1>6 DEF TypeOK, facts

\* Reconfiguring the authorizer keeps its types.
LEMMA AuthorizeTyped ==
  ASSUME TypeOK, Authorize
  PROVE  /\ rolePermissions' \in MapsOf(Roles, SUBSET Permissions)
         /\ policies' \in MapsOf(Actions, SUBSET Permissions)
<1>0. /\ rolePermissions \in MapsOf(Roles, SUBSET Permissions)
      /\ policies \in MapsOf(Actions, SUBSET Permissions)
  BY DEF TypeOK
<1>1. \A role \in Roles : Granted(role) \subseteq Permissions
  BY <1>0, MapsOfIs DEF Granted
<1>2. ASSUME NEW role \in Roles, NEW ps \in SUBSET Permissions, DefineRole(role, ps)
      PROVE  /\ rolePermissions' \in MapsOf(Roles, SUBSET Permissions)
             /\ policies' = policies
  BY <1>0, <1>1, <1>2, PutType DEF DefineRole
<1>3. ASSUME NEW role \in Roles, NEW p \in Permissions, GrantPermission(role, p)
      PROVE  /\ rolePermissions' \in MapsOf(Roles, SUBSET Permissions)
             /\ policies' = policies
  BY <1>0, <1>1, <1>3, PutType DEF GrantPermission
<1>4. ASSUME NEW role \in Roles, NEW p \in Permissions, RevokePermission(role, p)
      PROVE  /\ rolePermissions' \in MapsOf(Roles, SUBSET Permissions)
             /\ policies' = policies
  <2>1. /\ DOMAIN rolePermissions \subseteq Roles
        /\ rolePermissions \in [DOMAIN rolePermissions -> SUBSET Permissions]
    BY <1>0, MapsOfIs
  <2>2. rolePermissions' \in [DOMAIN rolePermissions -> SUBSET Permissions]
    BY <1>4, <2>1 DEF RevokePermission
  <2> QED
    BY <1>4, <2>1, <2>2, MapsOfIs, ZenonT(60) DEF RevokePermission
<1>5. ASSUME NEW action \in Actions, NEW fn \in SUBSET Permissions, AllowPolicy(action, fn)
      PROVE  /\ policies' \in MapsOf(Actions, SUBSET Permissions)
             /\ rolePermissions' = rolePermissions
  BY <1>0, <1>5, PutType DEF AllowPolicy
<1> QED
  BY <1>0, <1>2, <1>3, <1>4, <1>5 DEF Authorize

\* Types are kept by whatever only grows the tokens and changes what
\* requests record.
LEMMA ServiceTyped ==
  ASSUME Typed, now' = now, secret' = secret, issued' = issued, setup' = setup,
         rolePermissions' \in MapsOf(Roles, SUBSET Permissions),
         policies' \in MapsOf(Actions, SUBSET Permissions),
         store' \in MapsOf(Ids, Account),
         NEW calls \in [Requests -> Request],
         \A r \in Requests : /\ calls[r].token = req[r].token /\ calls[r].uid = req[r].uid
                             /\ calls[r].shared => calls[r].user # {},
         Observe(calls)
  PROVE  Typed'
<1>1. req' \in [Requests -> Request]
  BY ObserveIs DEF Typed
<1>2. \A r \in Requests : /\ req'[r].token = req[r].token /\ req'[r].uid = req[r].uid
                          /\ req'[r].shared => req'[r].user # {}
  BY ObserveIs DEF Typed, TokenOK
<1>3. \A r \in Requests : TokenOK(req'[r])
  BY <1>2 DEF Typed, TokenOK
<1>4. Request' = Request /\ chain' = chain
  BY DEF Request, Account, Fact, setup
<1> QED
  BY <1>1, <1>3, <1>4 DEF Typed, TypeOK, TokenOK, Account, Token, Claims

\* What EditUser makes of the requests it reaches.
Edited(i, a) ==
  [r \in Requests |-> IF Holds(r, i) THEN [req[r] EXCEPT !.user = {a}] ELSE req[r]]

\* A request it reaches holds the new account, and is otherwise as it was.
LEMMA EditedIs ==
  ASSUME TypeOK, NEW i \in Ids, NEW a \in Account
  PROVE  /\ Edited(i, a) \in [Requests -> Request]
         /\ \A r \in Requests :
              LET q == Edited(i, a)[r]
              IN  /\ q.at = req[r].at /\ q.status = req[r].status /\ q.fault = req[r].fault
                  /\ q.token = req[r].token /\ q.mounted = req[r].mounted /\ q.uid = req[r].uid
                  /\ q.began = req[r].began /\ q.ever = req[r].ever /\ q.always = req[r].always
                  /\ q.shared = req[r].shared
                  /\ \/ q.user = req[r].user
                     \/ /\ q.user = {a} /\ req[r].shared
                        /\ \E t \in req[r].token : t.claims.uid = i
<1>1. ASSUME NEW q \in Request
      PROVE  LET p == [q EXCEPT !.user = {a}]
             IN  /\ p \in Request
                 /\ p.at = q.at /\ p.status = q.status /\ p.fault = q.fault
                 /\ p.token = q.token /\ p.mounted = q.mounted /\ p.uid = q.uid
                 /\ p.began = q.began /\ p.ever = q.ever /\ p.always = q.always
                 /\ p.shared = q.shared /\ p.user = {a}
  BY DEF Request
<1>2. \A r \in Requests : req[r] \in Request
  BY DEF TypeOK
<1> QED
  BY <1>1, <1>2 DEF Edited, Holds

\* A request whose object is let go of is otherwise as it was.
LEMMA LetGoIs ==
  ASSUME TypeOK, NEW i \in Ids
  PROVE  /\ LetGo(i) \in [Requests -> Request]
         /\ \A r \in Requests :
              LET q == LetGo(i)[r]
              IN  /\ q.at = req[r].at /\ q.status = req[r].status /\ q.fault = req[r].fault
                  /\ q.token = req[r].token /\ q.mounted = req[r].mounted /\ q.uid = req[r].uid
                  /\ q.began = req[r].began /\ q.ever = req[r].ever /\ q.always = req[r].always
                  /\ q.user = req[r].user
                  /\ q.shared => req[r].shared
<1>1. ASSUME NEW q \in Request
      PROVE  LET p == [q EXCEPT !.shared = FALSE]
             IN  /\ p \in Request
                 /\ p.at = q.at /\ p.status = q.status /\ p.fault = q.fault
                 /\ p.token = q.token /\ p.mounted = q.mounted /\ p.uid = q.uid
                 /\ p.began = q.began /\ p.ever = q.ever /\ p.always = q.always
                 /\ p.user = q.user /\ ~p.shared
  BY DEF Request
<1>2. \A r \in Requests : req[r] \in Request
  BY DEF TypeOK
<1> QED
  BY <1>1, <1>2 DEF LetGo

-----------------------------------------------------------------------------
\* Every action keeps the types of the service's state and of its requests.
LEMMA TypedInvariant == Spec => []Typed
<1>1. Init => Typed
  <2> SUFFICES ASSUME Init
               PROVE  Typed
    OBVIOUS
  <2>1. chain \in Seq(Guards)
    BY ChainsAssumption DEF Init
  <2>2. 0 \in 0..(Len(chain) + 1) /\ 0 \in 0..now /\ 0 \in 0..MaxTime
    BY <2>1, DurationsAssumption DEF Init, JWTInit
  <2>3. None \in Request /\ TokenOK(None)
    BY <2>2 DEF None, Request, TokenOK
  <2>4. /\ rolePermissions \in MapsOf(Roles, SUBSET Permissions)
        /\ policies \in MapsOf(Actions, SUBSET Permissions)
        /\ store \in MapsOf(Ids, Account)
    BY EmptyMapIs DEF Init, AuthzInit
  <2> QED
    BY <2>1, <2>2, <2>3, <2>4 DEF Init, JWTInit, Typed, TypeOK
<1>2. Typed /\ [Next]_vars => Typed'
  <2> SUFFICES ASSUME Typed, [Next]_vars
               PROVE  Typed'
    OBVIOUS
  <2>0. TypeOK /\ req \in [Requests -> Request] /\ chain \in Seq(Guards)
    BY DEF Typed, TypeOK
  <2>b. \A r \in Requests : req[r].shared => req[r].user # {}
    BY DEF Typed, TokenOK
  <2>a. ASSUME UNCHANGED vars
        PROVE  Typed'
    <3>1. Request' = Request
      BY <2>a DEF vars, Request, Account, Fact
    <3> QED
      BY <2>0, <2>a, <3>1 DEF vars, Typed, TypeOK, TokenOK, Account, Token, Claims
  <2>1. ASSUME NEW r \in Requests, NEW token, token = {} \/ \E t \in issued : token = {t},
               Begin(r, token)
        PROVE  Typed'
    <3>1. token \in SUBSET issued
      BY <2>1
    <3>2. TokenOK(req'[r])
      BY <2>0, <2>1, <3>1, BeginIs DEF TokenOK
    <3>3. UNCHANGED <<jwtVars, authz, setup, store>>
      BY <2>1 DEF Begin
    <3> QED
      BY <2>0, <2>1, <3>1, <3>2, <3>3, BeginIs, RequestTyped
  <2>2. ASSUME NEW r \in Requests, Guard(r)
        PROVE  Typed'
    BY <2>2, GuardTyped
  <2>3. ASSUME NEW i \in Ids, NEW roles \in SUBSET Roles, Login(i, roles)
        PROVE  Typed'
    <3> DEFINE token == [claims |-> [uid |-> i, roles |-> roles, exp |-> now + Lifetime], key |-> secret]
    <3>1. token \in Token
      <4>1. now + Lifetime \in Nat
        BY <2>0, DurationsAssumption DEF TypeOK, Lifetime
      <4> QED
        BY <2>0, <4>1 DEF TypeOK, Token, Claims
    <3>2. /\ issued' = issued \cup {token}
          /\ UNCHANGED <<now, secret, authz, setup, store, req>>
      BY <2>3 DEF Login, Issue
    <3> HIDE DEF token
    <3>3. \A r \in Requests : req[r] \in Request'
      BY <2>0, <3>2 DEF Request, Account, Fact, setup
    <3> QED
      BY <2>0, <3>1, <3>2, <3>3
         DEF Typed, TypeOK, TokenOK, Account, Token, Claims, authz, setup
  <2>4. ASSUME NEW t \in issued, Logout(t)
        PROVE  Typed'
    BY <2>a, <2>4 DEF Logout
  <2>5. ASSUME NEW i \in Ids, NEW a \in Account, SaveUser(i, a)
        PROVE  Typed'
    <3>1. store' \in MapsOf(Ids, Account) /\ UNCHANGED <<jwtVars, authz, setup>>
      BY <2>0, <2>5, PutType DEF SaveUser, TypeOK
    <3>2. Observe(LetGo(i))
      BY <2>5 DEF SaveUser
    <3> QED
      BY <2>0, <3>1, <3>2, <2>b, LetGoIs, ServiceTyped DEF TypeOK, jwtVars, authz
  <2>12. ASSUME NEW i \in Ids, NEW a \in Account, EditUser(i, a)
        PROVE  Typed'
    <3>1. store' \in MapsOf(Ids, Account) /\ UNCHANGED <<jwtVars, authz, setup>>
      BY <2>0, <2>12, PutType DEF EditUser, TypeOK
    <3>2. Observe(Edited(i, a))
      BY <2>12 DEF EditUser, Edited
    <3> DEFINE calls == Edited(i, a)
    <3>3. calls \in [Requests -> Request]
      BY <2>0, EditedIs
    <3>4. ASSUME NEW r \in Requests
          PROVE  /\ calls[r].token = req[r].token /\ calls[r].uid = req[r].uid
                 /\ calls[r].shared => calls[r].user # {}
      <4>1. /\ calls[r].token = req[r].token /\ calls[r].uid = req[r].uid
            /\ calls[r].shared = req[r].shared
            /\ calls[r].user = req[r].user \/ calls[r].user = {a}
        BY <2>0, EditedIs
      <4> HIDE DEF calls
      <4> QED
        BY <2>b, <4>1
    <3> HIDE DEF calls
    <3>5. Observe(calls)
      BY <3>2 DEF calls
    <3> QED
      BY <2>0, <3>1, <3>3, <3>4, <3>5, ServiceTyped DEF TypeOK, jwtVars, authz
  <2>6. ASSUME NEW i \in Ids, DeleteUser(i)
        PROVE  Typed'
    <3>1. store' \in MapsOf(Ids, Account) /\ UNCHANGED <<jwtVars, authz, setup>> /\ Observe(LetGo(i))
      BY <2>0, <2>6, WithoutType DEF DeleteUser, TypeOK
    <3> QED
      BY <2>0, <3>1, <2>b, LetGoIs, ServiceTyped DEF TypeOK, jwtVars, authz
  <2>7. CASE Authorize
    <3>1. UNCHANGED <<jwtVars, setup, store>> /\ Observe(req)
      BY <2>7 DEF Authorize
    <3> QED
      BY <2>0, <2>7, <2>b, <3>1, AuthorizeTyped, ServiceTyped DEF TypeOK, jwtVars
  <2>8. ASSUME NEW s \in Secrets, NEW kept \in BOOLEAN, Restart(s, kept)
        PROVE  Typed'
    <3>1. /\ now' = now /\ secret' = s /\ issued' = issued /\ UNCHANGED setup
          /\ rolePermissions' = EmptyMap /\ policies' = EmptyMap
          /\ store' = IF kept THEN store ELSE EmptyMap
          /\ req' = [r \in Requests |-> None]
      BY <2>8 DEF Restart, New
    <3>2. store' \in MapsOf(Ids, Account)
      BY <2>0, <3>1, EmptyMapIs DEF TypeOK
    <3>3. /\ rolePermissions' \in MapsOf(Roles, SUBSET Permissions)
          /\ policies' \in MapsOf(Actions, SUBSET Permissions)
      BY <3>1, EmptyMapIs
    <3>4. None \in Request /\ TokenOK(None)
      <4>1. 0 \in 0..(Len(chain) + 1) /\ 0 \in 0..now
        BY <2>0, DurationsAssumption DEF TypeOK
      <4> QED
        BY <4>1 DEF None, Request, TokenOK
    <3>5. req' \in [Requests -> Request] /\ \A r \in Requests : TokenOK(req'[r])
      BY <3>1, <3>4
    <3> QED
      BY <2>0, <3>1, <3>2, <3>3, <3>5, SMTT(60)
         DEF Typed, TypeOK, TokenOK, Request, Account, Fact, Token, Claims, setup
  <2>9. CASE Clock
    <3>1. /\ now < MaxTime /\ now' = now + 1
          /\ UNCHANGED <<secret, issued, authz, setup, store, req>>
      BY <2>9 DEF Clock, Tick
    <3>2. now' \in 0..MaxTime /\ 0..now \subseteq 0..now'
      BY <2>0, <3>1, DurationsAssumption DEF TypeOK
    <3>3. \A r \in Requests : req[r] \in Request'
      BY <2>0, <3>1, <3>2 DEF Request, Account, Fact, setup
    <3> QED
      BY <2>0, <3>1, <3>2, <3>3
         DEF Typed, TypeOK, TokenOK, Account, Token, Claims, authz, setup
  <2>10. CASE UNCHANGED vars
    BY <2>a, <2>10
  <2>11. \A i \in Ids : \A j \in DOMAIN store \cap {i} : store[j].roles \in SUBSET Roles
    <3>1. \A j \in DOMAIN store : store[j] \in Account
      BY <2>0, MapsOfIs DEF TypeOK
    <3> QED
      BY <3>1 DEF Account
  <2> QED
    BY <2>1, <2>2, <2>3, <2>4, <2>5, <2>6, <2>7, <2>8, <2>9, <2>10, <2>11, <2>12 DEF Next
<1> QED
  BY <1>1, <1>2, PTL DEF Spec

\* The state of the service and of its requests has the declared types.
THEOREM TypeCorrect == Spec => []TypeOK
<1>1. Typed => TypeOK
  BY DEF Typed
<1> QED
  BY <1>1, TypedInvariant, PTL

-----------------------------------------------------------------------------
(* Only the entitled get in.  The invariant says where a request is: what  *)
(* the guards it has passed demanded was so at some instant, and a user it *)
(* holds, or is about to load, is that of a token that was good.           *)

Valid(q) == \E t \in q.token : t.key = secret /\ t.claims.exp >= q.began

\* What passing one guard takes.
Demand(guard, facts) ==
  /\ guard = "RequireAuthWithLoginfy" => <<"user">> \in facts
  /\ guard = "RequireRole" => {<<"user">>, <<"role">>} \subseteq facts
  /\ guard = "RequirePermission" => {<<"user">>, <<"perm">>} \subseteq facts
  /\ guard = "HasPermission" => \A p \in Permissions : Permits(facts, p)
  /\ guard = "Can" => \A action \in Actions : \E fn \in SUBSET Permissions :
       <<"policy", action, fn>> \in facts /\ \A p \in fn : Permits(facts, p)

Authenticating == Checkers \cup {"RequireAuthWithLoginfy"}

Known(q) == /\ Facts(Stored(store, q.token), rolePermissions, policies) \subseteq q.ever
            /\ \A a \in q.user : FactsAbout(a) \subseteq q.ever
            /\ q.uid # {} \/ q.user # {} => Valid(q)

Reached(q) ==
  /\ q.at > 0 =>
       /\ q.status = "none"
       /\ Known(q)
       /\ \A k \in 1..(q.at - 1) :
            Demand(chain[k], q.ever) /\ (chain[k] \in Authenticating => Valid(q))
  /\ q.status = "200" => Entitled(q.ever) /\ (Checked => Valid(q))

\* The guards of a chain demand together what Entitled does.
LEMMA EntitledIs ==
  ASSUME NEW facts
  PROVE  Entitled(facts) <=> \A k \in DOMAIN chain : Demand(chain[k], facts)
BY DEF Entitled, Demand, Wraps

\* Who was entitled stays so when more is known.
LEMMA DemandGrows ==
  ASSUME NEW guard, NEW facts, NEW more, facts \subseteq more, Demand(guard, facts)
  PROVE  Demand(guard, more)
BY ZenonT(60) DEF Demand, Permits

\* The same of all the guards together.
LEMMA EntitledGrows ==
  ASSUME NEW facts, NEW more, facts \subseteq more, Entitled(facts)
  PROVE  Entitled(more)
BY EntitledIs, DemandGrows

\* What storage and authorizer say, one by one.
LEMMA FactsAre ==
  ASSUME NEW found, NEW grants, NEW pols, NEW facts, Facts(found, grants, pols) \subseteq facts
  PROVE  /\ \A a \in found : FactsAbout(a) \subseteq facts
         /\ \A role \in DOMAIN grants : \A p \in grants[role] : <<"grants", role, p>> \in facts
         /\ \A action \in DOMAIN pols : <<"policy", action, pols[action]>> \in facts
<1>1. FactsOf(grants, pols) \subseteq facts /\ \A a \in found : FactsAbout(a) \subseteq facts
  BY DEF Facts
<1>2. /\ \A role \in DOMAIN grants : \A p \in grants[role] : <<"grants", role, p>> \in FactsOf(grants, pols)
      /\ \A action \in DOMAIN pols : <<"policy", action, pols[action]>> \in FactsOf(grants, pols)
  BY DEF FactsOf
<1> QED
  BY <1>1, <1>2

\* Whom the authorizer allows something the facts permit it.
LEMMA PermittedIs ==
  ASSUME Authorizes, NEW a \in Account, NEW p, NEW facts,
         FactsAbout(a) \subseteq facts,
         \A role \in DOMAIN rolePermissions : \A x \in rolePermissions[role] :
           <<"grants", role, x>> \in facts,
         HasPermission(a.roles, p)
  PROVE  Permits(facts, p)
<1>1. PICK role \in a.roles : p \in Granted(role)
  BY DEF HasPermission
<1>2. role \in Roles /\ <<"has", role>> \in facts
  BY DEF Account, FactsAbout
<1>3. role \in DOMAIN rolePermissions /\ p \in rolePermissions[role]
  BY <1>1 DEF Granted
<1> QED
  BY <1>2, <1>3 DEF Permits

\* A guard lets pass only whom it should.
LEMMA GuardReached ==
  ASSUME Typed, NEW r \in Requests, Reached(req[r]), Guard(r)
  PROVE  Reached(req'[r])
<1> DEFINE q == req[r]
<1>0. q \in Request /\ TokenOK(q) /\ TypeOK /\ chain \in Seq(Guards)
  BY DEF Typed, TypeOK
<1>b. ASSUME NEW status \in {"401", "403", "500"}, Answer(r, status)
      PROVE  Reached(req'[r])
  <2>1. req'[r].at = 0 /\ req'[r].status = status
    BY <1>0, <1>b, AnswerIs
  <2> QED
    BY <2>1 DEF Reached
<1>c. ASSUME NEW p \in Request, p.at = q.at, q.at > 0, p.at <= Len(chain), p.status = q.status,
             p.token = q.token, p.began = q.began, p.ever = q.ever, Known(p),
             Demand(chain[q.at], q.ever), chain[q.at] \in Authenticating => Valid(p),
             Forward(r, p)
      PROVE  Reached(req'[r])
  <2>1. /\ req'[r].at = q.at + 1 /\ req'[r].status = q.status
        /\ Same(p, req'[r])
    BY <1>0, <1>c, ForwardIs
  <2>2. q.at \in Nat /\ \A k \in 1..((q.at + 1) - 1) : k \in 1..(q.at - 1) \/ k = q.at
    BY <1>0, SMTT(60) DEF Request
  <2>3. Known(req'[r]) /\ Valid(req'[r]) = Valid(p) /\ req'[r].ever = q.ever
    BY <1>c, <2>1 DEF Known, Valid, Same
  <2>4. Valid(p) = Valid(q)
    BY <1>c DEF Valid
  <2> QED
    BY <1>c, <2>1, <2>2, <2>3, <2>4 DEF Reached
<1>d. ASSUME q.at > 0
      PROVE  Known(q)
  BY <1>d DEF Reached
<1>e. ASSUME NEW guard \in Guards, Serving(r, guard)
      PROVE  q.at > 0 /\ q.at <= Len(chain) /\ chain[q.at] = guard
  BY <1>e DEF Serving, InProgress, Here
<1>1. ASSUME NEW guard \in Checkers, Serving(r, guard), NEW allowed, Check(r, allowed),
             ASSUME NEW a \in q.user, allowed
             PROVE  Demand(guard, q.ever)
      PROVE  Reached(req'[r])
  <2>1. CASE q.user # {} /\ allowed /\ Forward(r, q)
    <3>1. q.at > 0 /\ q.at <= Len(chain) /\ chain[q.at] = guard
      BY <1>1, <1>e DEF Guards
    <3>2. Demand(guard, q.ever)
      BY <1>1, <2>1
    <3>3. Known(q) /\ Valid(q)
      BY <1>d, <2>1, <3>1 DEF Known
    <3> QED
      BY <1>0, <1>c, <2>1, <3>1, <3>2, <3>3
  <2> QED
    BY <1>1, <1>b, <2>1 DEF Check
<1>2. CASE Mount(r)
  <2> DEFINE p == [q EXCEPT !.mounted = TRUE, !.user = {}, !.shared = FALSE]
  <2>1. /\ p \in Request /\ p.at = q.at /\ p.status = q.status /\ p.user = {}
        /\ p.uid = q.uid /\ p.token = q.token /\ p.began = q.began /\ p.ever = q.ever
    BY <1>0 DEF Request
  <2>2. Serving(r, "Mount") /\ Forward(r, p)
    BY <1>2 DEF Mount
  <2> HIDE DEF p
  <2>3. q.at > 0 /\ q.at <= Len(chain) /\ chain[q.at] = "Mount"
    BY <1>e, <2>2 DEF Guards
  <2>4. Known(p)
    BY <1>d, <2>1, <2>3 DEF Known, Valid
  <2>5. Demand(chain[q.at], q.ever) /\ chain[q.at] \notin Authenticating
    BY <2>3 DEF Demand, Authenticating, Checkers
  <2> QED
    BY <1>c, <2>1, <2>2, <2>3, <2>4, <2>5
<1>3. CASE RequireAuth(r)
  <2>1. q.at > 0 /\ q.at <= Len(chain) /\ chain[q.at] = "RequireAuth"
    BY <1>3, <1>e DEF RequireAuth, Guards
  <2>2. Demand(chain[q.at], q.ever) /\ chain[q.at] \notin Authenticating
    BY <2>1 DEF Demand, Authenticating, Checkers
  <2> QED
    BY <1>0, <1>3, <1>b, <1>c, <1>d, <2>1, <2>2 DEF RequireAuth
<1>4. CASE ValidateToken(r)
  <2> DEFINE valid == UNION {ValidateSession(t) : t \in q.token}
             p == [q EXCEPT !.uid = valid]
  <2>1. CASE valid # {} /\ Set(r, p)
    <3>1. PICK t \in q.token : t.key = secret /\ ~(now > t.claims.exp)
      BY <2>1 DEF ValidateSession, parseToken, Expired
    <3>2. t.claims.exp \in Nat /\ q.began \in Nat /\ q.began <= now /\ now \in Nat
      BY <1>0, DurationsAssumption DEF TypeOK, Request, Token, Claims
    <3>3. Valid(q)
      BY <3>1, <3>2 DEF Valid
    <3> HIDE DEF valid
    <3>4. /\ p.at = q.at /\ p.status = q.status /\ p.user = q.user
          /\ p.token = q.token /\ p.began = q.began /\ p.ever = q.ever
      BY <1>0 DEF Request
    <3>5. req'[r] = p
      BY <1>0, <2>1 DEF Set, TypeOK
    <3>6. q.at > 0
      BY <1>4 DEF ValidateToken, Serving, InProgress
    <3> HIDE DEF p
    <3> QED
      BY <3>3, <3>4, <3>5, <3>6 DEF Reached, Known, Valid
  <2> QED
    BY <1>4, <1>b, <2>1 DEF ValidateToken
<1>5. CASE LoadUser(r)
  <2> DEFINE found == {store[i] : i \in q.uid \cap DOMAIN store}
             p == [q EXCEPT !.uid = {}, !.user = found, !.shared = Shares]
  <2>2. CASE Fail(r)
    BY <1>0, <2>2, FailIs DEF Reached
  <2>1. CASE found # {} /\ Forward(r, p)
    <3>0. q.at > 0 /\ q.at <= Len(chain) /\ chain[q.at] = "RequireAuthWithLoginfy" /\ q.uid # {}
      BY <1>5, <1>e DEF LoadUser, Guards
    <3>1. found \subseteq Account
      BY <1>0, MapsOfIs DEF TypeOK
    <3>2. found \subseteq Stored(store, q.token)
      BY <1>0 DEF TokenOK, Stored
    <3>3. \A a \in found : FactsAbout(a) \subseteq q.ever
      <4>1. Facts(Stored(store, q.token), rolePermissions, policies) \subseteq q.ever
        BY <1>d, <3>0 DEF Known
      <4> QED
        BY <3>2, <4>1 DEF Facts
    <3>4. <<"user">> \in q.ever
      BY <2>1, <3>3 DEF FactsAbout
    <3> HIDE DEF found
    <3>5. /\ p \in Request /\ p.at = q.at /\ p.status = q.status /\ p.user = found
          /\ p.uid = {} /\ p.token = q.token /\ p.began = q.began /\ p.ever = q.ever
      BY <1>0, <3>1, SharesType DEF Request
    <3> HIDE DEF p
    <3>6. Known(p) /\ Valid(p)
      BY <1>d, <3>0, <3>3, <3>5 DEF Known, Valid
    <3>7. Demand(chain[q.at], q.ever)
      BY <3>0, <3>4 DEF Demand
    <3> QED
      BY <1>c, <2>1, <3>0, <3>5, <3>6, <3>7
  <2> QED
    BY <1>5, <1>b, <2>1, <2>2 DEF LoadUser
<1>f. ASSUME q.at > 0, NEW a \in q.user
      PROVE  /\ a \in Account /\ FactsAbout(a) \subseteq q.ever /\ <<"user">> \in q.ever
             /\ \A role \in DOMAIN rolePermissions : \A x \in rolePermissions[role] :
                  <<"grants", role, x>> \in q.ever
             /\ \A action \in DOMAIN policies : <<"policy", action, policies[action]>> \in q.ever
  <2>1. a \in Account /\ FactsAbout(a) \subseteq q.ever
    BY <1>0, <1>d, <1>f DEF Known, Request
  <2>2. <<"user">> \in q.ever
    BY <2>1 DEF FactsAbout
  <2> QED
    BY <1>d, <1>f, <2>1, <2>2, FactsAre DEF Known
<1>6. CASE RequireRole(r)
  <2> DEFINE allowed == \A a \in q.user : HasAnyRole(a)
  <2>1. Serving(r, "RequireRole") /\ Check(r, allowed)
    BY <1>6 DEF RequireRole
  <2>2. ASSUME NEW a \in q.user, allowed
        PROVE  Demand("RequireRole", q.ever)
    <3>1. <<"role">> \in FactsAbout(a)
      BY <2>2 DEF HasAnyRole, FactsAbout
    <3> QED
      BY <1>e, <1>f, <2>1, <3>1 DEF Demand, Guards, Checkers
  <2> HIDE DEF allowed
  <2> QED
    BY <1>1, <2>1, <2>2 DEF Checkers
<1>7. CASE RequirePermission(r)
  <2> DEFINE allowed == \A a \in q.user : Lists(a)
  <2>1. Serving(r, "RequirePermission") /\ Check(r, allowed)
    BY <1>7 DEF RequirePermission
  <2>2. ASSUME NEW a \in q.user, allowed
        PROVE  Demand("RequirePermission", q.ever)
    <3>1. <<"perm">> \in FactsAbout(a)
      BY <2>2 DEF Lists, FactsAbout
    <3> QED
      BY <1>e, <1>f, <2>1, <3>1 DEF Demand, Guards, Checkers
  <2> HIDE DEF allowed
  <2> QED
    BY <1>1, <2>1, <2>2 DEF Checkers
<1>8. CASE AskPermission(r)
  <2> DEFINE allowed == \A a \in q.user, p \in Permissions : HasPermission(a.roles, p)
  <2>1. Serving(r, "HasPermission") /\ Check(r, allowed)
    BY <1>8 DEF AskPermission
  <2>2. q.at > 0 /\ Authorizes
    <3>1. q.at > 0 /\ q.at <= Len(chain) /\ chain[q.at] = "HasPermission"
      BY <1>e, <2>1 DEF Guards, Checkers
    <3> QED
      BY <1>0, <3>1 DEF Authorizes, Wraps, Request
  <2>3. ASSUME NEW a \in q.user, allowed
        PROVE  Demand("HasPermission", q.ever)
    <3>1. \A p \in Permissions : Permits(q.ever, p)
      BY <1>f, <2>2, <2>3, PermittedIs
    <3> QED
      BY <3>1 DEF Demand
  <2> HIDE DEF allowed
  <2> QED
    BY <1>1, <2>1, <2>3 DEF Checkers
<1>9. CASE AskPolicy(r)
  <2> DEFINE allowed == \A a \in q.user, action \in Actions : Can(a.roles, action)
  <2>1. Serving(r, "Can") /\ Check(r, allowed)
    BY <1>9 DEF AskPolicy
  <2>2. q.at > 0 /\ Authorizes
    <3>1. q.at > 0 /\ q.at <= Len(chain) /\ chain[q.at] = "Can"
      BY <1>e, <2>1 DEF Guards, Checkers
    <3> QED
      BY <1>0, <3>1 DEF Authorizes, Wraps, Request
  <2>3. ASSUME NEW a \in q.user, allowed
        PROVE  Demand("Can", q.ever)
    <3>1. ASSUME NEW action \in Actions
          PROVE  \E fn \in SUBSET Permissions :
                   <<"policy", action, fn>> \in q.ever /\ \A p \in fn : Permits(q.ever, p)
      <4>1. action \in DOMAIN policies /\ \A p \in policies[action] : HasPermission(a.roles, p)
        BY <2>3 DEF Can
      <4>2. policies[action] \in SUBSET Permissions
        BY <1>0, <4>1, MapsOfIs DEF TypeOK
      <4>3. \A p \in policies[action] : Permits(q.ever, p)
        BY <1>f, <2>2, <4>1, PermittedIs
      <4> QED
        BY <1>f, <2>2, <4>1, <4>2, <4>3
    <3> QED
      BY <3>1 DEF Demand
  <2> HIDE DEF allowed
  <2> QED
    BY <1>1, <2>1, <2>3 DEF Checkers
<1>10. CASE Handler(r)
  <2>1. CASE q.at > 0
    <3>1. /\ req'[r].at = 0 /\ req'[r].status = "200" /\ Same(q, req'[r])
      BY <1>0, <1>10, AnswerIs DEF Handler
    <3>2. q.at \in Nat /\ \A k \in DOMAIN chain : k \in 1..(q.at - 1)
      BY <1>0, <1>10 DEF Handler, Request
    <3>3. Entitled(q.ever)
      BY <2>1, <3>2, EntitledIs DEF Reached
    <3>4. Checked => Valid(q)
      BY <2>1, <3>2 DEF Reached, Checked, Wraps, Authenticating
    <3> QED
      BY <3>1, <3>3, <3>4 DEF Reached, Same, Valid
  <2>2. CASE ~(q.at > 0)
    BY <1>0, <1>10, <2>2 DEF Handler, Request
  <2> QED
    BY <2>1, <2>2
<1> QED
  BY <1>2, <1>3, <1>4, <1>5, <1>6, <1>7, <1>8, <1>9, <1>10 DEF Guard

\* Whatever storage and authorizer become, a request records it.
LEMMA ObserveReached ==
  ASSUME Typed, NEW r \in Requests, Reached(req[r]),
         UNCHANGED <<jwtVars, setup>>,
         store' \in MapsOf(Ids, Account),
         rolePermissions' \in MapsOf(Roles, SUBSET Permissions),
         policies' \in MapsOf(Actions, SUBSET Permissions),
         NEW calls \in [Requests -> Request],
         LET q == calls[r]
         IN  /\ q.at = req[r].at /\ q.status = req[r].status
             /\ q.token = req[r].token /\ q.uid = req[r].uid
             /\ q.began = req[r].began /\ q.ever = req[r].ever
             /\ \/ q.user = req[r].user
                \/ req[r].user # {} /\ q.user \subseteq Stored(store', req[r].token),
         Observe(calls)
  PROVE  Reached(req[r])'
<1> DEFINE q == req[r]
           facts == Facts(Stored(store', q.token), rolePermissions', policies')
<1>0. /\ chain' = chain /\ secret' = secret
      /\ Checked' = Checked /\ \A x : Demand(x, q.ever)' = Demand(x, q'.ever)
  BY DEF jwtVars, setup, Checked, Wraps, Demand, Permits, Checkers
<1>1. CASE q.at > 0
  <2>1. /\ q'.at = q.at /\ q'.status = q.status /\ q'.token = q.token
        /\ q'.uid = q.uid /\ q'.user = calls[r].user /\ q'.began = q.began
        /\ q'.ever = q.ever \cup facts
    BY <1>1, ObserveIs DEF Typed, InProgress
  <2>2. \A a : FactsAbout(a)' = FactsAbout(a)
    BY <1>0 DEF FactsAbout, Authorizes, Wraps
  <2>3. \A a \in calls[r].user : FactsAbout(a) \subseteq q.ever \cup facts
    <3>1. \A a \in Stored(store', q.token) : FactsAbout(a) \subseteq q.ever \cup facts
      BY DEF Facts
    <3> QED
      BY <1>1, <3>1 DEF Reached, Known
  <2>4. Valid(q)' = Valid(q)
    BY <1>0, <2>1 DEF Valid
  <2>5. Known(q)'
    <3>1. facts = Facts(Stored(store, q.token), rolePermissions, policies)'
      BY <2>1, <2>2 DEF Facts, FactsOf, Stored
    <3> QED
      BY <1>1, <2>1, <2>2, <2>3, <2>4, <3>1 DEF Reached, Known
  <2>6. \A k \in 1..(q.at - 1) :
          Demand(chain[k], q.ever)' /\ (chain[k] \in Authenticating => Valid(q))'
    BY <1>0, <1>1, <2>1, <2>4, DemandGrows DEF Reached, Authenticating, Checkers
  <2> QED
    BY <1>1, <2>1, <2>5, <2>6 DEF Reached
<1>2. CASE ~(q.at > 0)
  <2>1. q' = q
    BY <1>2, ObserveIs DEF Typed, InProgress
  <2>2. Entitled(q.ever)' = Entitled(q.ever)
    BY <1>0, <2>1 DEF Entitled, Wraps, Permits
  <2>3. Valid(q)' = Valid(q)
    BY <1>0, <2>1 DEF Valid
  <2> QED
    BY <1>0, <1>2, <2>1, <2>2, <2>3 DEF Reached
<1> QED
  BY <1>1, <1>2

\* Every action keeps the requests where the invariant says they are.
LEMMA ReachedInvariant == Spec => [](\A r \in Requests : Reached(req[r]))
<1>1. Init => \A r \in Requests : Reached(req[r])
  BY DEF Init, None, Reached
<1>2. Typed /\ (\A r \in Requests : Reached(req[r])) /\ [Next]_vars
        => (\A r \in Requests : Reached(req[r]))'
  <2> SUFFICES ASSUME Typed, \A r \in Requests : Reached(req[r]), [Next]_vars,
                      NEW r \in Requests
               PROVE  Reached(req[r])'
    OBVIOUS
  <2>0. TypeOK /\ req \in [Requests -> Request] /\ chain \in Seq(Guards)
    BY DEF Typed, TypeOK
  <2>b. req[r].shared => req[r].user # {}
    BY DEF Typed, TokenOK
  \* A request that another one's step leaves alone is where it was.
  <2>a. ASSUME UNCHANGED <<secret, authz, setup, store>>, Reached(req'[r])
        PROVE  Reached(req[r])'
    <3> DEFINE p == req'[r]
    <3>1. chain' = chain /\ Checked' = Checked /\ Valid(req[r])' = Valid(p)
      BY <2>a DEF setup, Checked, Wraps, Checkers, Valid
    <3>2. Known(req[r])' = Known(p)
      <4>1. \A a : FactsAbout(a)' = FactsAbout(a)
        BY <3>1 DEF FactsAbout, Authorizes, Wraps
      <4>2. Facts(Stored(store, req[r].token), rolePermissions, policies)'
              = Facts(Stored(store, p.token), rolePermissions, policies)
        BY <2>a, <4>1 DEF Facts, FactsOf, Stored, authz
      <4> QED
        BY <3>1, <4>1, <4>2 DEF Known
    <3>3. Entitled(req[r].ever)' = Entitled(p.ever)
      BY <3>1 DEF Entitled, Wraps, Permits
    <3>4. \A guard : Demand(guard, req[r].ever)' = Demand(guard, p.ever)
      BY DEF Demand, Permits
    <3> QED
      BY <2>a, <3>1, <3>2, <3>3, <3>4 DEF Reached, Authenticating, Checkers
  <2>1. ASSUME NEW s \in Requests, NEW token, token = {} \/ \E t \in issued : token = {t},
               Begin(s, token)
        PROVE  Reached(req[r])'
    <3>1. token \in SUBSET issued
      BY <2>1
    <3>2. Reached(req'[s])
      BY <2>0, <2>1, <3>1, BeginIs DEF Reached, Known
    <3>3. req'[r] = req[r] \/ r = s
      BY <2>0, <2>1, <3>1, BeginIs
    <3> QED
      BY <2>a, <2>1, <3>2, <3>3 DEF Begin, jwtVars
  <2>2. ASSUME NEW s \in Requests, Guard(s)
        PROVE  Reached(req[r])'
    <3>1. Reached(req'[s])
      BY <2>2, GuardReached
    <3>2. req'[r] = req[r] \/ r = s
      BY <2>0, <2>2, GuardIs
    <3> QED
      BY <2>a, <2>2, <3>1, <3>2 DEF Guard, jwtVars
  <2>3. ASSUME NEW i \in Ids, NEW roles, Login(i, roles)
        PROVE  Reached(req[r])'
    BY <2>a, <2>3 DEF Login, Issue
  <2>4. ASSUME NEW t \in issued, Logout(t)
        PROVE  Reached(req[r])'
    BY <2>a, <2>4 DEF Logout, vars, authz, setup
  <2>12. ASSUME NEW i \in Ids, NEW a \in Account, EditUser(i, a)
        PROVE  Reached(req[r])'
    <3>1. store' \in MapsOf(Ids, Account) /\ UNCHANGED <<jwtVars, authz, setup>>
      BY <2>0, <2>12, PutType DEF EditUser, TypeOK
    <3>2. Observe(Edited(i, a))
      BY <2>12 DEF EditUser, Edited
    <3>3. (\E t \in req[r].token : t.claims.uid = i) => {a} \subseteq Stored(store', req[r].token)
      BY <2>12 DEF EditUser, Put, Stored
    <3>4. LET q == Edited(i, a)[r]
          IN  /\ q.at = req[r].at /\ q.status = req[r].status
              /\ q.token = req[r].token /\ q.uid = req[r].uid
              /\ q.began = req[r].began /\ q.ever = req[r].ever
              /\ \/ q.user = req[r].user
                 \/ req[r].user # {} /\ q.user \subseteq Stored(store', req[r].token)
      BY <2>0, <2>b, <3>3, EditedIs
    <3>5. Edited(i, a) \in [Requests -> Request]
      BY <2>0, EditedIs
    <3>6. /\ rolePermissions' \in MapsOf(Roles, SUBSET Permissions)
          /\ policies' \in MapsOf(Actions, SUBSET Permissions)
      BY <2>0, <3>1 DEF TypeOK, authz
    <3> QED
      BY <3>1, <3>2, <3>4, <3>5, <3>6, ObserveReached
  <2>5. ASSUME NEW i \in Ids, NEW a \in Account, SaveUser(i, a)
        PROVE  Reached(req[r])'
    <3>1. store' \in MapsOf(Ids, Account) /\ UNCHANGED <<jwtVars, authz, setup>> /\ Observe(LetGo(i))
      BY <2>0, <2>5, PutType DEF SaveUser, TypeOK
    <3> QED
      BY <2>0, <3>1, LetGoIs, ObserveReached DEF TypeOK, authz
  <2>6. ASSUME NEW i \in Ids, DeleteUser(i)
        PROVE  Reached(req[r])'
    <3>1. store' \in MapsOf(Ids, Account) /\ UNCHANGED <<jwtVars, authz, setup>> /\ Observe(LetGo(i))
      BY <2>0, <2>6, WithoutType DEF DeleteUser, TypeOK
    <3> QED
      BY <2>0, <3>1, LetGoIs, ObserveReached DEF TypeOK, authz
  <2>7. CASE Authorize
    <3>1. UNCHANGED <<jwtVars, setup, store>> /\ Observe(req)
      BY <2>7 DEF Authorize
    <3> QED
      BY <2>0, <2>7, <3>1, AuthorizeTyped, ObserveReached DEF TypeOK
  <2>8. ASSUME NEW s \in Secrets, NEW kept \in BOOLEAN, Restart(s, kept)
        PROVE  Reached(req[r])'
    BY <2>8 DEF Restart, None, Reached
  <2>9. CASE Clock
    BY <2>a, <2>9 DEF Clock, Tick
  <2>10. CASE UNCHANGED vars
    BY <2>a, <2>10 DEF vars, authz, setup
  <2> QED
    BY <2>1, <2>2, <2>3, <2>4, <2>5, <2>6, <2>7, <2>8, <2>9, <2>10, <2>12 DEF Next
<1> QED
  BY <1>1, <1>2, TypedInvariant, PTL DEF Spec

\* Whatever the order of the guards, whoever edits, deletes and reconfigures
\* meanwhile, and however often the process restarts: nobody reaches the
\* handler who was not entitled to.
THEOREM OnlyTheEntitled == Spec => []OnlyEntitled
<1>1. (\A r \in Requests : Reached(req[r])) => OnlyEntitled
  BY DEF Reached, OnlyEntitled, Valid
<1> QED
  BY <1>1, ReachedInvariant, PTL

-----------------------------------------------------------------------------
(* Whoever was entitled throughout gets in, if the guards are in order.    *)
(* The invariant says that what a request knows to have been so throughout *)
(* still is, and is so of the user it holds, which may be an older copy;   *)
(* and that the guards have by then set what later guards look for.        *)

InOrder == Ordered /\ hasSession /\ hasStorage

Deserves(q) == /\ \E t \in q.token : t.key = secret /\ now <= t.claims.exp
               /\ Entitled(q.always)
               /\ Wraps("RequirePermission") => <<"readable">> \in q.always

Lasting(q) ==
  /\ q.always \subseteq Facts(Stored(store, q.token), rolePermissions, policies)
  /\ \A a \in q.user : q.always \subseteq FactsAbout(a) \cup FactsOf(rolePermissions, policies)

Prepared(q) ==
  Ordered => /\ q.at > 1 => q.mounted
             /\ (\E j \in 1..(q.at - 1) : chain[j] = "RequireAuthWithLoginfy") => q.user # {}

Served(q) ==
  /\ q.at > 0 => Lasting(q) /\ Prepared(q)
  /\ q.status \in {"401", "403", "500"} /\ ~q.fault => ~(InOrder /\ Deserves(q))

\* What is said of a user is never said of the authorizer, and each fact
\* says what its name does.
LEMMA FactKinds ==
  ASSUME NEW a, NEW grants, NEW pols
  PROVE  /\ \A x \in FactsAbout(a) : x \notin FactsOf(grants, pols)
         /\ <<"role">> \in FactsAbout(a) => a.roles \cap Required # {}
         /\ <<"perm">> \in FactsAbout(a) => a.perm # "absent"
         /\ <<"readable">> \in FactsAbout(a) => a.perm # "bson.A"
         /\ \A role : <<"has", role>> \in FactsAbout(a) => role \in a.roles
         /\ \A role, p : <<"grants", role, p>> \in FactsOf(grants, pols) =>
              role \in DOMAIN grants /\ p \in grants[role]
         /\ \A action, fn : <<"policy", action, fn>> \in FactsOf(grants, pols) =>
              action \in DOMAIN pols /\ fn = pols[action]
<1>1. \A x \in FactsAbout(a) : x[1] \in {"user", "role", "perm", "readable", "has"}
  BY DEF FactsAbout
<1>2. \A x \in FactsOf(grants, pols) : x[1] \in {"grants", "policy"}
  BY DEF FactsOf
<1>3. <<"role">> \in FactsAbout(a) => a.roles \cap Required # {}
  BY DEF FactsAbout
<1>4. <<"perm">> \in FactsAbout(a) => a.perm # "absent"
  BY DEF FactsAbout
<1>5. <<"readable">> \in FactsAbout(a) => a.perm # "bson.A"
  BY DEF FactsAbout
<1>6. \A role : <<"has", role>> \in FactsAbout(a) => role \in a.roles
  BY DEF FactsAbout
<1>7. \A role, p : <<"grants", role, p>> \in FactsOf(grants, pols) =>
        role \in DOMAIN grants /\ p \in grants[role]
  BY DEF FactsOf
<1>8. \A action, fn : <<"policy", action, fn>> \in FactsOf(grants, pols) =>
        action \in DOMAIN pols /\ fn = pols[action]
  BY DEF FactsOf
<1> QED
  BY <1>1, <1>2, <1>3, <1>4, <1>5, <1>6, <1>7, <1>8

\* In a service in order no guard turns away a request that deserves to pass.
LEMMA GuardServed ==
  ASSUME Typed, NEW r \in Requests, Served(req[r]), Guard(r)
  PROVE  Served(req'[r])
<1> DEFINE q == req[r]
           deserved == InOrder /\ Deserves(q)
<1>0. q \in Request /\ TokenOK(q) /\ TypeOK /\ chain \in Seq(Guards)
  BY DEF Typed, TypeOK
<1>b. ASSUME NEW status \in {"200", "401", "403", "500"}, Answer(r, status),
             status = "200" \/ ~deserved
      PROVE  Served(req'[r])
  <2>1. req'[r].at = 0 /\ req'[r].status = status /\ Same(q, req'[r])
    BY <1>0, <1>b, AnswerIs
  <2>2. Deserves(req'[r]) = Deserves(q)
    BY <2>1 DEF Same, Deserves
  <2> QED
    BY <1>b, <2>1, <2>2 DEF Served
<1>c. ASSUME NEW p \in Request, p.at = q.at, q.at > 0, p.at <= Len(chain), p.status = q.status,
             p.token = q.token, p.always = q.always, p.fault = q.fault, Lasting(p),
             Ordered => p.mounted,
             Ordered /\ (\E j \in 1..q.at : chain[j] = "RequireAuthWithLoginfy") => p.user # {},
             Forward(r, p)
      PROVE  Served(req'[r])
  <2>1. req'[r].at = q.at + 1 /\ req'[r].status = q.status /\ Same(p, req'[r])
    BY <1>0, <1>c, ForwardIs
  <2>2. Lasting(req'[r]) /\ Deserves(req'[r]) = Deserves(q)
    BY <1>c, <2>1 DEF Same, Lasting, Deserves
  <2>3. 1..(req'[r].at - 1) = 1..q.at
    BY <1>0, <2>1 DEF Request
  <2>4. Prepared(req'[r])
    BY <1>c, <2>1, <2>3 DEF Prepared, Same
  <2>5. req'[r].fault = q.fault
    BY <1>c, <2>1 DEF Same
  <2> QED
    BY <2>1, <2>2, <2>4, <2>5 DEF Served
<1>d. ASSUME q.at > 0
      PROVE  Lasting(q) /\ Prepared(q)
  BY <1>d DEF Served
<1>e. ASSUME NEW guard \in Guards, Serving(r, guard)
      PROVE  /\ q.at > 0 /\ q.at \in Nat /\ q.at <= Len(chain) /\ chain[q.at] = guard
             /\ q.at \in DOMAIN chain /\ Wraps(guard)
             /\ guard # "Mount" /\ Ordered => q.at > 1 /\ q.mounted
             /\ guard \in Checkers /\ Ordered => q.user # {}
  <2>1. /\ q.at > 0 /\ q.at \in Nat /\ q.at <= Len(chain) /\ chain[q.at] = guard
        /\ q.at \in DOMAIN chain
    BY <1>0, <1>e DEF Serving, InProgress, Here, Request
  <2>2. guard # "Mount" /\ Ordered => q.at > 1
    BY <2>1 DEF Ordered
  <2>3. guard \in Checkers /\ Ordered =>
          \E j \in 1..(q.at - 1) : chain[j] = "RequireAuthWithLoginfy"
    BY <2>1 DEF Ordered
  <2> QED
    BY <1>d, <2>1, <2>2, <2>3 DEF Prepared, Wraps
\* What a request knows to have been so throughout is so of the user it holds.
<1>f. ASSUME q.at > 0, NEW a \in q.user, NEW x \in q.always
      PROVE  x \in FactsAbout(a) \/ x \in FactsOf(rolePermissions, policies)
  BY <1>d, <1>f DEF Lasting
<1>g. ASSUME q.at > 0, NEW a \in q.user, NEW p, Permits(q.always, p)
      PROVE  HasPermission(a.roles, p)
  <2>1. PICK role \in Roles : <<"has", role>> \in q.always /\ <<"grants", role, p>> \in q.always
    BY <1>g DEF Permits
  <2>2. <<"has", role>> \in FactsAbout(a) /\ <<"grants", role, p>> \in FactsOf(rolePermissions, policies)
    <3>1. <<"has", role>> \notin FactsOf(rolePermissions, policies)
      BY DEF FactsOf
    <3>2. <<"grants", role, p>> \notin FactsAbout(a)
      BY DEF FactsAbout
    <3> QED
      BY <1>f, <1>g, <2>1, <3>1, <3>2
  <2>3. role \in a.roles /\ role \in DOMAIN rolePermissions /\ p \in rolePermissions[role]
    BY <2>2, FactKinds
  <2> QED
    BY <2>3 DEF HasPermission, Granted
<1>1. ASSUME NEW guard \in Checkers, Serving(r, guard), NEW allowed, Check(r, allowed),
             deserved => allowed
      PROVE  Served(req'[r])
  <2>0. guard \in Guards /\ guard # "Mount"
    BY <1>1 DEF Guards, Checkers
  <2>1. CASE q.user # {} /\ allowed /\ Forward(r, q)
    <3>1. q.at > 0 /\ q.at <= Len(chain) /\ (Ordered => q.mounted)
      BY <1>1, <1>e, <2>0
    <3> QED
      BY <1>0, <1>c, <1>d, <2>1, <3>1
  <2>2. CASE ~(q.user # {} /\ allowed /\ Forward(r, q))
    <3>1. ~deserved \/ (q.mounted /\ q.user # {} /\ allowed)
      BY <1>1, <1>e, <2>0 DEF InOrder
    <3> HIDE DEF deserved
    <3> QED
      BY <1>1, <1>b, <2>2, <3>1 DEF Check
  <2> QED
    BY <2>1, <2>2
<1>2. CASE Mount(r)
  <2> DEFINE p == [q EXCEPT !.mounted = TRUE, !.user = {}, !.shared = FALSE]
  <2>1. /\ p \in Request /\ p.at = q.at /\ p.status = q.status /\ p.user = {} /\ p.mounted
        /\ p.token = q.token /\ p.always = q.always /\ p.fault = q.fault
    BY <1>0 DEF Request
  <2>2. Serving(r, "Mount") /\ Forward(r, p)
    BY <1>2 DEF Mount
  <2> HIDE DEF p
  <2>3. q.at > 0 /\ q.at \in Nat /\ q.at <= Len(chain) /\ chain[q.at] = "Mount" /\ q.at \in DOMAIN chain
    BY <1>e, <2>2 DEF Guards
  <2>4. Lasting(p)
    BY <1>d, <2>1, <2>3 DEF Lasting
  <2>5. Ordered => ~ \E j \in 1..q.at : chain[j] = "RequireAuthWithLoginfy"
    <3>1. Ordered => q.at = 1
      BY <2>3 DEF Ordered
    <3> QED
      BY <2>3, <3>1
  <2> QED
    BY <1>c, <2>1, <2>2, <2>3, <2>4, <2>5
<1>3. CASE RequireAuth(r)
  <2>1. Serving(r, "RequireAuth")
    BY <1>3 DEF RequireAuth
  <2>2. /\ q.at > 0 /\ q.at \in Nat /\ q.at <= Len(chain) /\ chain[q.at] = "RequireAuth"
        /\ Ordered => q.mounted
    BY <1>e, <2>1 DEF Guards
  <2>3. CASE q.token = {}
    <3>1. ~deserved
      BY <2>3 DEF Deserves
    <3> QED
      BY <1>3, <1>b, <2>3, <3>1 DEF RequireAuth
  <2>4. CASE q.token # {}
    <3>1. (\E j \in 1..q.at : chain[j] = "RequireAuthWithLoginfy")
             => \E j \in 1..(q.at - 1) : chain[j] = "RequireAuthWithLoginfy"
      BY <2>2
    <3>2. Ordered /\ (\E j \in 1..q.at : chain[j] = "RequireAuthWithLoginfy") => q.user # {}
      BY <1>d, <2>2, <3>1 DEF Prepared
    <3>3. Forward(r, q)
      BY <1>3, <2>4 DEF RequireAuth
    <3> QED
      BY <1>0, <1>c, <1>d, <2>2, <3>2, <3>3
  <2> QED
    BY <2>3, <2>4
<1>4. CASE ValidateToken(r)
  <2> DEFINE valid == UNION {ValidateSession(t) : t \in q.token}
             p == [q EXCEPT !.uid = valid]
  <2>1. Serving(r, "RequireAuthWithLoginfy")
    BY <1>4 DEF ValidateToken
  <2>2. q.at > 0 /\ (Ordered => q.mounted)
    BY <1>e, <2>1 DEF Guards
  <2>3. CASE Set(r, p)
    <3> HIDE DEF valid
    <3>1. /\ p.at = q.at /\ p.status = q.status /\ p.user = q.user /\ p.mounted = q.mounted
          /\ p.token = q.token /\ p.always = q.always /\ p.fault = q.fault
      BY <1>0 DEF Request
    <3>2. req'[r] = p
      BY <1>0, <2>3 DEF Set, TypeOK
    <3> HIDE DEF p
    <3> QED
      BY <1>d, <2>2, <3>1, <3>2 DEF Served, Lasting, Prepared, Deserves
  <2>4. CASE ~Set(r, p)
    <3>1. deserved => q.mounted /\ q.token # {} /\ hasSession /\ valid # {}
      <4>1. ASSUME NEW t \in q.token, t.key = secret, now <= t.claims.exp
            PROVE  valid # {}
        <5>1. t.claims.exp \in Nat /\ now \in Nat
          BY <1>0, DurationsAssumption DEF TypeOK, Request, Token, Claims
        <5>2. ValidateSession(t) = {t.claims.uid}
          BY <4>1, <5>1 DEF ValidateSession, parseToken, Expired
        <5> QED
          BY <5>2
      <4> QED
        BY <2>2, <4>1 DEF InOrder, Deserves
    <3> HIDE DEF deserved, valid
    <3> QED
      BY <1>4, <1>b, <2>4, <3>1 DEF ValidateToken, valid
  <2> QED
    BY <2>3, <2>4
<1>5. CASE LoadUser(r)
  <2> DEFINE found == {store[i] : i \in q.uid \cap DOMAIN store}
             p == [q EXCEPT !.uid = {}, !.user = found, !.shared = Shares]
  <2>1. Serving(r, "RequireAuthWithLoginfy") /\ q.uid # {}
    BY <1>5 DEF LoadUser
  <2>2. /\ q.at > 0 /\ q.at <= Len(chain) /\ (Ordered => q.mounted)
        /\ Wraps("RequireAuthWithLoginfy")
    BY <1>e, <2>1 DEF Guards
  <2>3. found \subseteq Account /\ found = Stored(store, q.token)
    <3>1. q.uid = {t.claims.uid : t \in q.token}
      BY <1>0, <2>1 DEF TokenOK
    <3> QED
      BY <1>0, <3>1, StoredType DEF Stored, TypeOK
  <2>4. CASE found # {} /\ Forward(r, p)
    <3>1. \A a \in found : q.always \subseteq FactsAbout(a) \cup FactsOf(rolePermissions, policies)
      <4>1. \A a, b \in found : a = b
        BY <1>0, <2>1 DEF TokenOK
      <4>2. q.always \subseteq Facts(found, rolePermissions, policies)
        BY <1>d, <2>2, <2>3 DEF Lasting
      <4> HIDE DEF found
      <4> QED
        BY <4>1, <4>2 DEF Facts
    <3> HIDE DEF found
    <3>2. /\ p \in Request /\ p.at = q.at /\ p.status = q.status /\ p.user = found
          /\ p.mounted = q.mounted /\ p.token = q.token /\ p.always = q.always
          /\ p.fault = q.fault
      BY <1>0, <2>3, SharesType DEF Request
    <3> HIDE DEF p
    <3>3. Lasting(p)
      BY <1>d, <2>2, <3>1, <3>2 DEF Lasting
    <3> QED
      BY <1>c, <2>2, <2>4, <3>2, <3>3
  <2>5. CASE Fail(r)
    BY <1>0, <2>5, FailIs DEF Served
  <2>6. ASSUME deserved
        PROVE  hasStorage /\ found # {}
    <3>1. <<"user">> \in Facts(Stored(store, q.token), rolePermissions, policies)
      BY <1>d, <2>2, <2>6 DEF Deserves, Entitled, Lasting
    <3>2. <<"user">> \notin FactsOf(rolePermissions, policies)
      BY DEF FactsOf
    <3> HIDE DEF found
    <3> QED
      BY <2>3, <2>6, <3>1, <3>2 DEF Facts, InOrder
  <2> HIDE DEF p, deserved
  <2> QED
    BY <1>5, <1>b, <2>4, <2>5, <2>6 DEF LoadUser, p
<1>6. CASE RequireRole(r)
  <2> DEFINE allowed == \A a \in q.user : HasAnyRole(a)
  <2>1. Serving(r, "RequireRole") /\ Check(r, allowed)
    BY <1>6 DEF RequireRole
  <2>2. q.at > 0 /\ Wraps("RequireRole")
    BY <1>e, <2>1 DEF Guards, Checkers
  <2>3. ASSUME deserved, NEW a \in q.user
        PROVE  HasAnyRole(a)
    <3>1. <<"role">> \in q.always
      BY <2>2, <2>3 DEF Deserves, Entitled
    <3>2. <<"role">> \notin FactsOf(rolePermissions, policies)
      BY DEF FactsOf
    <3>3. <<"role">> \in FactsAbout(a)
      BY <1>f, <2>2, <3>1, <3>2
    <3> QED
      BY <3>3, FactKinds DEF HasAnyRole
  <2> QED
    BY <1>1, <2>1, <2>3 DEF Checkers
<1>7. CASE RequirePermission(r)
  <2> DEFINE allowed == \A a \in q.user : Lists(a)
  <2>1. Serving(r, "RequirePermission") /\ Check(r, allowed)
    BY <1>7 DEF RequirePermission
  <2>2. q.at > 0 /\ Wraps("RequirePermission")
    BY <1>e, <2>1 DEF Guards, Checkers
  <2>3. ASSUME deserved, NEW a \in q.user
        PROVE  Lists(a)
    <3>1. <<"perm">> \in q.always /\ <<"readable">> \in q.always
      BY <2>2, <2>3 DEF Deserves, Entitled
    <3>2. /\ <<"perm">> \notin FactsOf(rolePermissions, policies)
          /\ <<"readable">> \notin FactsOf(rolePermissions, policies)
      BY DEF FactsOf
    <3>3. <<"perm">> \in FactsAbout(a) /\ <<"readable">> \in FactsAbout(a)
      BY <1>f, <2>2, <3>1, <3>2
    <3>4. a.perm \in Shapes \cup {"absent"} /\ a.perm # "absent" /\ a.perm # "bson.A"
      BY <1>0, <3>3, FactKinds DEF Request, Account
    <3> QED
      BY <3>4, ShapesAssumption DEF Lists
  <2> QED
    BY <1>1, <2>1, <2>3 DEF Checkers
<1>8. CASE AskPermission(r)
  <2> DEFINE allowed == \A a \in q.user, p \in Permissions : HasPermission(a.roles, p)
  <2>1. Serving(r, "HasPermission") /\ Check(r, allowed)
    BY <1>8 DEF AskPermission
  <2>2. q.at > 0 /\ Wraps("HasPermission")
    BY <1>e, <2>1 DEF Guards, Checkers
  <2>3. ASSUME deserved
        PROVE  allowed
    <3>1. \A p \in Permissions : Permits(q.always, p)
      BY <2>2, <2>3 DEF Deserves, Entitled
    <3> QED
      BY <1>g, <2>2, <3>1
  <2> QED
    BY <1>1, <2>1, <2>3 DEF Checkers
<1>9. CASE AskPolicy(r)
  <2> DEFINE allowed == \A a \in q.user, action \in Actions : Can(a.roles, action)
  <2>1. Serving(r, "Can") /\ Check(r, allowed)
    BY <1>9 DEF AskPolicy
  <2>2. q.at > 0 /\ Wraps("Can")
    BY <1>e, <2>1 DEF Guards, Checkers
  <2>3. ASSUME deserved, NEW a \in q.user, NEW action \in Actions
        PROVE  Can(a.roles, action)
    <3>1. PICK fn \in SUBSET Permissions :
            <<"policy", action, fn>> \in q.always /\ \A p \in fn : Permits(q.always, p)
      BY <2>2, <2>3 DEF Deserves, Entitled
    <3>2. <<"policy", action, fn>> \notin FactsAbout(a)
      BY DEF FactsAbout
    <3>3. action \in DOMAIN policies /\ fn = policies[action]
      BY <1>f, <2>2, <3>1, <3>2, FactKinds
    <3>4. \A p \in fn : HasPermission(a.roles, p)
      BY <1>g, <2>2, <3>1
    <3> QED
      BY <3>3, <3>4 DEF Can
  <2> QED
    BY <1>1, <2>1, <2>3 DEF Checkers
<1>10. CASE Handler(r)
  BY <1>10, <1>b DEF Handler
<1> QED
  BY <1>2, <1>3, <1>4, <1>5, <1>6, <1>7, <1>8, <1>9, <1>10 DEF Guard

\* What storage and authorizer no longer say, a request no longer takes to
\* have been so throughout.
LEMMA ObserveServed ==
  ASSUME Typed, NEW r \in Requests, Served(req[r]),
         UNCHANGED <<jwtVars, setup>>,
         store' \in MapsOf(Ids, Account),
         rolePermissions' \in MapsOf(Roles, SUBSET Permissions),
         policies' \in MapsOf(Actions, SUBSET Permissions),
         NEW calls \in [Requests -> Request],
         LET q == calls[r]
         IN  /\ q.at = req[r].at /\ q.status = req[r].status /\ q.mounted = req[r].mounted
             /\ q.token = req[r].token /\ q.always = req[r].always /\ q.fault = req[r].fault
             /\ \/ q.user = req[r].user
                \/ req[r].user # {} /\ q.user # {} /\ q.user = Stored(store', req[r].token)
                   /\ \A a, b \in q.user : a = b,
         Observe(calls)
  PROVE  Served(req[r])'
<1> DEFINE q == req[r]
           facts == Facts(Stored(store', q.token), rolePermissions', policies')
<1>0. /\ chain' = chain /\ secret' = secret /\ now' = now
      /\ Ordered' = Ordered /\ InOrder' = InOrder
  BY DEF jwtVars, setup, Ordered, InOrder, Checkers
<1>1. CASE q.at > 0
  <2>1. /\ q'.at = q.at /\ q'.status = q.status /\ q'.mounted = q.mounted
        /\ q'.token = q.token /\ q'.user = calls[r].user /\ q'.fault = q.fault
        /\ q'.always = q.always \cap facts
    BY <1>1, ObserveIs DEF Typed, InProgress
  <2>2. \A a : FactsAbout(a)' = FactsAbout(a)
    BY <1>0 DEF FactsAbout, Authorizes, Wraps
  <2>3. facts = Facts(Stored(store, q.token), rolePermissions, policies)'
    BY <2>1, <2>2 DEF Facts, FactsOf, Stored
  <2>4. FactsOf(rolePermissions, policies)' = FactsOf(rolePermissions', policies')
    BY DEF FactsOf
  <2>5. ASSUME NEW a \in calls[r].user, NEW x \in q.always, x \in facts
        PROVE  x \in FactsAbout(a) \/ x \in FactsOf(rolePermissions', policies')
    <3>1. x \in FactsOf(rolePermissions', policies')
            \/ \E b \in Stored(store', q.token) : x \in FactsAbout(b)
      BY <2>5 DEF Facts
    <3>2. CASE a \in q.user
      <4>1. x \in FactsAbout(a) \/ x \in FactsOf(rolePermissions, policies)
        BY <1>1, <2>5, <3>2 DEF Served, Lasting
      <4> QED
        BY <3>1, <4>1, FactKinds
    <3>3. CASE a \notin q.user
      <4>1. \A b \in Stored(store', q.token) : b = a
        BY <2>5, <3>3
      <4> QED
        BY <3>1, <4>1
    <3> QED
      BY <3>2, <3>3
  <2>6. Lasting(q)'
    BY <2>1, <2>2, <2>3, <2>4, <2>5 DEF Lasting
  <2>7. Prepared(q)'
    BY <1>0, <1>1, <2>1 DEF Served, Prepared
  <2>8. q'.status \in {"401", "403", "500"} /\ ~q'.fault => ~(InOrder /\ Deserves(q))'
    <3>1. Entitled(q.always)' => Entitled(q.always)
      <4>1. Entitled(q.always)' = Entitled(q'.always)
        BY <1>0 DEF Entitled, Wraps, Permits
      <4> QED
        BY <2>1, <4>1, EntitledGrows
    <3>2. Deserves(q)' => Deserves(q)
      BY <1>0, <2>1, <3>1 DEF Deserves, Wraps
    <3> QED
      BY <1>0, <2>1, <3>2 DEF Served
  <2> QED
    BY <2>6, <2>7, <2>8 DEF Served
<1>2. CASE ~(q.at > 0)
  <2>1. q' = q
    BY <1>2, ObserveIs DEF Typed, InProgress
  <2>2. Entitled(q.always)' = Entitled(q.always)
    BY <1>0, <2>1 DEF Entitled, Wraps, Permits
  <2>3. Deserves(q)' = Deserves(q)
    BY <1>0, <2>1, <2>2 DEF Deserves, Wraps
  <2> QED
    BY <1>0, <1>2, <2>1, <2>3 DEF Served
<1> QED
  BY <1>1, <1>2

\* Every action keeps what the invariant says of who is served.
LEMMA ServedInvariant == Spec => [](\A r \in Requests : Served(req[r]))
<1>1. Init => \A r \in Requests : Served(req[r])
  BY DEF Init, None, Served
<1>2. Typed /\ Typed' /\ (\A r \in Requests : Served(req[r])) /\ [Next]_vars
        => (\A r \in Requests : Served(req[r]))'
  <2> SUFFICES ASSUME Typed, Typed', \A r \in Requests : Served(req[r]), [Next]_vars,
                      NEW r \in Requests
               PROVE  Served(req[r])'
    OBVIOUS
  <2>0. TypeOK /\ req \in [Requests -> Request] /\ chain \in Seq(Guards)
    BY DEF Typed, TypeOK
  \* A request is served no worse when only time passes.
  <2>a. ASSUME UNCHANGED <<secret, authz, setup, store>>, Served(req'[r]), now' >= now
        PROVE  Served(req[r])'
    <3> DEFINE p == req'[r]
    <3>1. chain' = chain /\ Ordered' = Ordered /\ InOrder' = InOrder
      BY <2>a DEF setup, Ordered, InOrder, Checkers
    <3>2. Lasting(req[r])' = Lasting(p)
      <4>1. \A a : FactsAbout(a)' = FactsAbout(a)
        BY <3>1 DEF FactsAbout, Authorizes, Wraps
      <4>2. Facts(Stored(store, req[r].token), rolePermissions, policies)'
              = Facts(Stored(store, p.token), rolePermissions, policies)
        BY <2>a, <4>1 DEF Facts, FactsOf, Stored, authz
      <4>3. FactsOf(rolePermissions, policies)' = FactsOf(rolePermissions, policies)
        BY <2>a DEF FactsOf, authz
      <4> QED
        BY <3>1, <4>1, <4>2, <4>3 DEF Lasting
    <3>3. Prepared(req[r])' = Prepared(p)
      BY <3>1 DEF Prepared
    <3>4. Deserves(req[r])' => Deserves(p)
      <4>1. Entitled(req[r].always)' = Entitled(p.always)
        BY <3>1 DEF Entitled, Wraps, Permits
      <4>2. \A t \in p.token : t.claims.exp \in Nat
        BY DEF Typed, TypeOK, Request, Token, Claims
      <4>3. now \in Nat /\ now' \in Nat
        BY DurationsAssumption DEF Typed, TypeOK
      <4> QED
        BY <2>a, <3>1, <4>1, <4>2, <4>3 DEF Deserves, Wraps
    <3> QED
      BY <2>a, <3>1, <3>2, <3>3, <3>4 DEF Served
  <2>b. now \in Nat /\ (now' = now => now' >= now)
    BY <2>0, DurationsAssumption DEF TypeOK
  <2>1. ASSUME NEW s \in Requests, NEW token, token = {} \/ \E t \in issued : token = {t},
               Begin(s, token)
        PROVE  Served(req[r])'
    <3>1. token \in SUBSET issued
      BY <2>1
    <3>2. Served(req'[s])
      BY <2>0, <2>1, <3>1, BeginIs DEF Served, Lasting, Prepared
    <3>3. req'[r] = req[r] \/ r = s
      BY <2>0, <2>1, <3>1, BeginIs
    <3> QED
      BY <2>a, <2>b, <2>1, <3>2, <3>3 DEF Begin, jwtVars
  <2>2. ASSUME NEW s \in Requests, Guard(s)
        PROVE  Served(req[r])'
    <3>1. Served(req'[s])
      BY <2>2, GuardServed
    <3>2. req'[r] = req[r] \/ r = s
      BY <2>0, <2>2, GuardIs
    <3> QED
      BY <2>a, <2>b, <2>2, <3>1, <3>2 DEF Guard, jwtVars
  <2>3. ASSUME NEW i \in Ids, NEW roles, Login(i, roles)
        PROVE  Served(req[r])'
    BY <2>a, <2>b, <2>3 DEF Login, Issue
  <2>4. ASSUME NEW t \in issued, Logout(t)
        PROVE  Served(req[r])'
    BY <2>a, <2>b, <2>4 DEF Logout, vars, authz, setup
  <2>12. ASSUME NEW i \in Ids, NEW a \in Account, EditUser(i, a)
        PROVE  Served(req[r])'
    <3>1. store' \in MapsOf(Ids, Account) /\ UNCHANGED <<jwtVars, authz, setup>>
      BY <2>0, <2>12, PutType DEF EditUser, TypeOK
    <3>2. Observe(Edited(i, a))
      BY <2>12 DEF EditUser, Edited
    <3>3. (\E t \in req[r].token : t.claims.uid = i) => {a} = Stored(store', req[r].token)
      <4>1. store'[i] = a /\ i \in DOMAIN store'
        BY <2>12 DEF EditUser, Put
      <4>2. req[r].token = {} \/ \E t \in issued : req[r].token = {t}
        BY DEF Typed, TokenOK
      <4> QED
        BY <4>1, <4>2 DEF Stored
    <3>4. LET q == Edited(i, a)[r]
          IN  /\ q.at = req[r].at /\ q.status = req[r].status /\ q.mounted = req[r].mounted
              /\ q.token = req[r].token /\ q.always = req[r].always /\ q.fault = req[r].fault
              /\ \/ q.user = req[r].user
                 \/ req[r].user # {} /\ q.user # {} /\ q.user = Stored(store', req[r].token)
                    /\ \A b, c \in q.user : b = c
      <4> DEFINE q == Edited(i, a)[r]
      <4>1. /\ q.at = req[r].at /\ q.status = req[r].status /\ q.mounted = req[r].mounted
            /\ q.token = req[r].token /\ q.always = req[r].always /\ q.fault = req[r].fault
        BY <2>0, EditedIs
      <4>2. \/ q.user = req[r].user
            \/ req[r].shared /\ q.user = {a} /\ \E t \in req[r].token : t.claims.uid = i
        BY <2>0, EditedIs
      <4> QED
        BY <3>3, <4>1, <4>2 DEF Typed, TokenOK
    <3>5. Edited(i, a) \in [Requests -> Request]
      BY <2>0, EditedIs
    <3>6. /\ rolePermissions' \in MapsOf(Roles, SUBSET Permissions)
          /\ policies' \in MapsOf(Actions, SUBSET Permissions)
      BY <2>0, <3>1 DEF TypeOK, authz
    <3> QED
      BY <3>1, <3>2, <3>4, <3>5, <3>6, ObserveServed
  <2>5. ASSUME NEW i \in Ids, NEW a \in Account, SaveUser(i, a)
        PROVE  Served(req[r])'
    <3>1. store' \in MapsOf(Ids, Account) /\ UNCHANGED <<jwtVars, authz, setup>> /\ Observe(LetGo(i))
      BY <2>0, <2>5, PutType DEF SaveUser, TypeOK
    <3> QED
      BY <2>0, <3>1, LetGoIs, ObserveServed DEF TypeOK, authz
  <2>6. ASSUME NEW i \in Ids, DeleteUser(i)
        PROVE  Served(req[r])'
    <3>1. store' \in MapsOf(Ids, Account) /\ UNCHANGED <<jwtVars, authz, setup>> /\ Observe(LetGo(i))
      BY <2>0, <2>6, WithoutType DEF DeleteUser, TypeOK
    <3> QED
      BY <2>0, <3>1, LetGoIs, ObserveServed DEF TypeOK, authz
  <2>7. CASE Authorize
    <3>1. UNCHANGED <<jwtVars, setup, store>> /\ Observe(req)
      BY <2>7 DEF Authorize
    <3> QED
      BY <2>0, <2>7, <3>1, AuthorizeTyped, ObserveServed DEF TypeOK
  <2>8. ASSUME NEW s \in Secrets, NEW kept \in BOOLEAN, Restart(s, kept)
        PROVE  Served(req[r])'
    BY <2>8 DEF Restart, None, Served
  <2>9. CASE Clock
    BY <2>a, <2>b, <2>9 DEF Clock, Tick
  <2>10. CASE UNCHANGED vars
    BY <2>a, <2>b, <2>10 DEF vars, authz, setup
  <2> QED
    BY <2>1, <2>2, <2>3, <2>4, <2>5, <2>6, <2>7, <2>8, <2>9, <2>10, <2>12 DEF Next
<1> QED
  BY <1>1, <1>2, TypedInvariant, PTL DEF Spec

\* In a service set up as documented whoever is entitled from the first to
\* the last instant of a request is let in, whatever changes meanwhile.
THEOREM TheEntitledPass == Spec => []EntitledPasses
<1>1. (\A r \in Requests : Served(req[r])) => EntitledPasses
  BY DEF Served, EntitledPasses, InOrder, Deserves
<1> QED
  BY <1>1, ServedInvariant, PTL
=============================================================================
