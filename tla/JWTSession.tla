----------------------------- MODULE JWTSession -----------------------------
(***************************************************************************)
(* sessions/jwt: stateless sessions.                                       *)
(*                                                                         *)
(* A token is its claims and the secret that signed them; base64, JSON and *)
(* HMAC are taken at what they do: a token verifies under the secret it    *)
(* was signed with and under no other.  The manager keeps no record of the *)
(* tokens it signs: issued is what clients hold, and only New, the Go      *)
(* constructor, ever changes the manager, when a process (re)starts.       *)
(***************************************************************************)
EXTENDS Naturals, FiniteSets

CONSTANTS Ids, Roles, Secrets,
          Expiration,           \* Config.Expiration, 0 when not set
          DefaultExpiration,    \* 24 hours
          MaxTime, MaxIssued    \* bounds of the clock and of the tokens issued

ASSUME DurationsAssumption ==
  Expiration \in Nat /\ DefaultExpiration \in Nat \ {0} /\ MaxTime \in Nat

VARIABLES now,       \* the wall clock
          secret,    \* JWTSessionManager.secret
          issued     \* the tokens handed out

jwtVars == <<now, secret, issued>>

Lifetime == IF Expiration = 0 THEN DefaultExpiration ELSE Expiration

Claims == [uid : Ids, roles : SUBSET Roles, exp : Nat]
Token == [claims : Claims, key : Secrets]

JWTInit == /\ now = 0
           /\ secret \in Secrets
           /\ issued = {}

New(s) == secret' = s /\ UNCHANGED <<now, issued>>

Tick == /\ now < MaxTime
        /\ now' = now + 1
        /\ UNCHANGED <<secret, issued>>

\* CreateSession leaves the roles out, CreateSessionWithUser copies them.
Issue(uid, roles) ==
  /\ Cardinality(issued) < MaxIssued
  /\ issued' = issued \cup
       {[claims |-> [uid |-> uid, roles |-> roles, exp |-> now + Lifetime], key |-> secret]}
  /\ UNCHANGED <<now, secret>>

parseToken(t) == t.key = secret

Expired(t) == now > t.claims.exp

\* The user ID of a token that verifies and has not expired, if it is one.
ValidateSession(t) == IF parseToken(t) /\ ~Expired(t) THEN {t.claims.uid} ELSE {}

\* No state changes.  The answer is whether the token verifies: an expired
\* one does.
DestroySession(t) == parseToken(t)
=============================================================================
