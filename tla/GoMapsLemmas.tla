---------------------------- MODULE GoMapsLemmas ----------------------------
(***************************************************************************)
(* What the two writing operations on Go maps do, for every map, and for   *)
(* the tables of users every storage adapter keeps.                        *)
(***************************************************************************)
EXTENDS GoMaps, TLAPS

\* A member of MapsOf is a function on some of the keys, with its values in V.
LEMMA MapsOfIs ==
  ASSUME NEW K, NEW V, NEW m
  PROVE  m \in MapsOf(K, V) <=> DOMAIN m \subseteq K /\ m \in [DOMAIN m -> V]
BY DEF MapsOf

\* "m[k] = v" keeps the type of the map.
LEMMA PutType ==
  ASSUME NEW K, NEW V, NEW m \in MapsOf(K, V), NEW k \in K, NEW v \in V
  PROVE  Put(m, k, v) \in MapsOf(K, V)
BY MapsOfIs DEF Put

\* "delete(m, k)" removes k from the keys and leaves the rest alone.
LEMMA WithoutIs ==
  ASSUME NEW m, NEW k
  PROVE  /\ DOMAIN Without(m, k) = DOMAIN m \ {k}
         /\ \A x \in DOMAIN m : x # k => Without(m, k)[x] = m[x]
BY DEF Without, Restrict

\* "delete(m, k)" keeps the type of the map.
LEMMA WithoutType ==
  ASSUME NEW K, NEW V, NEW m \in MapsOf(K, V), NEW k
  PROVE  Without(m, k) \in MapsOf(K, V)
BY MapsOfIs DEF Without, Restrict

\* A map just made has no key, and is of every type.
LEMMA EmptyMapIs ==
  ASSUME NEW K, NEW V
  PROVE  EmptyMap \in MapsOf(K, V) /\ DOMAIN EmptyMap = {}
BY MapsOfIs DEF EmptyMap
-----------------------------------------------------------------------------
(* Tables of users: every user is under its own ID.                         *)

UniqueUsers(st) ==
  \A i, j \in DOMAIN st : /\ st[i].id = i
                          /\ st[i].email = st[j].email => i = j

\* next is what one call of an adapter may turn the table st into.
Written(st, next, Ids, User) ==
  \/ \E u \in User : /\ u.id \in Ids /\ next = Put(st, u.id, u)
                     /\ \A i \in DOMAIN st : i # u.id => st[i].email # u.email
  \/ \E i \in Ids : next = Without(st, i)
  \/ next = st

\* A call that writes no email twice keeps the type of the table, its users
\* under their IDs, and their emails unique.
LEMMA WrittenKeeps ==
  ASSUME NEW Ids, NEW User, NEW st \in MapsOf(Ids, User), NEW next,
         UniqueUsers(st), Written(st, next, Ids, User)
  PROVE  next \in MapsOf(Ids, User) /\ UniqueUsers(next)
<1>1. ASSUME NEW u \in User, u.id \in Ids, next = Put(st, u.id, u),
             \A i \in DOMAIN st : i # u.id => st[i].email # u.email
      PROVE  next \in MapsOf(Ids, User) /\ UniqueUsers(next)
  <2>1. next \in MapsOf(Ids, User)
    BY <1>1, PutType
  <2>2. UniqueUsers(next)
    BY <1>1 DEF UniqueUsers, Put
  <2> QED
    BY <2>1, <2>2
<1>2. ASSUME NEW k \in Ids, next = Without(st, k)
      PROVE  next \in MapsOf(Ids, User) /\ UniqueUsers(next)
  <2>1. next \in MapsOf(Ids, User)
    BY <1>2, WithoutType
  <2>2. DOMAIN next \subseteq DOMAIN st /\ \A i \in DOMAIN next : next[i] = st[i]
    BY <1>2 DEF Without, Restrict
  <2> QED
    BY <2>1, <2>2 DEF UniqueUsers
<1> QED
  BY <1>1, <1>2 DEF Written
=============================================================================
