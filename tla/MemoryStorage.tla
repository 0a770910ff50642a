--------------------------- MODULE MemoryStorage ----------------------------
(***************************************************************************)
(* storage/memory: users by ID and an email index, both behind one         *)
(* RWMutex that every operation holds from its first to its last line.     *)
(* An operation is therefore one action.                                   *)
(*                                                                         *)
(* The lock protects the maps and not the users: m.users holds the very    *)
(* pointers callers pass in, and the getters hand them out again.  heap is *)
(* what those pointers point to, and two actions outside the lock are the  *)
(* callers': they fill objects of their own (NewUser), and they assign to  *)
(* fields of objects the adapter holds (EditStored).  InPlace says which   *)
(* fields they assign to.  Timestamps are left out.                        *)
(***************************************************************************)
EXTENDS GoMaps

CONSTANTS Ids, Emails, Attrs,
          Ptrs,      \* addresses of core.User objects
          InPlace    \* the fields callers assign to on stored objects

ASSUME InPlaceAssumption == InPlace \subseteq {"email", "attrs"}

VARIABLES heap,      \* the objects: Ptrs -> User
          users,     \* m.users: ID -> pointer
          email,     \* m.email: email -> ID
          reply      \* the latest call that returned, as in UserStore

vars == <<heap, users, email, reply>>

User == [id : Ids, email : Emails, attrs : Attrs]

Reply(op, key, err, user) == [op |-> op, key |-> key, err |-> err, user |-> user]
NoReply == Reply("none", "", "nil", {})

Held == Range(users)
Stored(i) == heap[users[i]]

Init == /\ heap \in [Ptrs -> User]
        /\ users = EmptyMap
        /\ email = EmptyMap
        /\ reply = NoReply

-----------------------------------------------------------------------------
(* The callers, outside the lock. *)

NewUser(p, u) ==
  /\ p \notin Held
  /\ heap' = [heap EXCEPT ![p] = u]
  /\ UNCHANGED <<users, email, reply>>

EditStored(p, u) ==
  /\ p \in Held
  /\ u.id = heap[p].id
  /\ "email" \in InPlace \/ u.email = heap[p].email
  /\ "attrs" \in InPlace \/ u.attrs = heap[p].attrs
  /\ heap' = [heap EXCEPT ![p] = u]
  /\ UNCHANGED <<users, email, reply>>

-----------------------------------------------------------------------------
(* The adapter. *)

EmailTaken(e) == e \in DOMAIN email

\* Both uniqueness tests pass, or nothing is filed.
CreateUser(p) ==
  LET u == heap[p]
      ok == u.id \notin DOMAIN users /\ ~EmailTaken(u.email)
  IN  /\ users' = IF ok THEN Put(users, u.id, p) ELSE users
      /\ email' = IF ok THEN Put(email, u.email, u.id) ELSE email
      /\ reply' = Reply("CreateUser", u.id, IF ok THEN "nil" ELSE "exists", {u})
      /\ UNCHANGED heap

\* An index entry whose user is gone yields a nil pointer, and the log call
\* that follows dereferences it.
GetUserByEmail(e) ==
  /\ reply' =
       IF e \notin DOMAIN email THEN Reply("GetUserByEmail", e, "notfound", {})
       ELSE IF email[e] \notin DOMAIN users THEN Reply("GetUserByEmail", e, "panic", {})
       ELSE Reply("GetUserByEmail", e, "nil", {Stored(email[e])})
  /\ UNCHANGED <<heap, users, email>>

GetUserById(i) ==
  /\ reply' = IF i \in DOMAIN users THEN Reply("GetUserById", i, "nil", {Stored(i)})
                                    ELSE Reply("GetUserById", i, "notfound", {})
  /\ UNCHANGED <<heap, users, email>>

\* The index follows a change of email only as far as the stored object and
\* the argument differ: none does when they are one object.
MoveEmail_swapped(i, e) == Put(Without(email, Stored(i).email), i, e)
MoveEmail_keepsOld(i, e) == Put(email, e, i)
MoveEmail(i, e) ==
  IF Stored(i).email = e THEN email ELSE Put(Without(email, Stored(i).email), e, i)

UpdateUser(p) ==
  LET u == heap[p]
      known == u.id \in DOMAIN users
      clash == known /\ Stored(u.id).email # u.email /\ EmailTaken(u.email)
      ok == known /\ ~clash
  IN  /\ users' = IF ok THEN Put(users, u.id, p) ELSE users
      /\ email' = IF ok THEN MoveEmail(u.id, u.email) ELSE email
      /\ reply' = Reply("UpdateUser", u.id,
                        IF ok THEN "nil" ELSE IF clash THEN "exists" ELSE "notfound", {u})
      /\ UNCHANGED heap

DeleteUser_anyway(i) ==
  /\ users' = Without(users, i)
  /\ email' = IF i \in DOMAIN users THEN Without(email, Stored(i).email) ELSE email
  /\ reply' = Reply("DeleteUser", i, "nil", {})
  /\ UNCHANGED heap
DeleteUser(i) ==
  LET ok == i \in DOMAIN users
  IN  /\ users' = IF ok THEN Without(users, i) ELSE users
      /\ email' = IF ok THEN Without(email, Stored(i).email) ELSE email
      /\ reply' = Reply("DeleteUser", i, IF ok THEN "nil" ELSE "notfound", {})
      /\ UNCHANGED heap

Clear == /\ users' = EmptyMap
         /\ email' = EmptyMap
         /\ reply' = NoReply
         /\ UNCHANGED heap

Operation == \/ \E p \in Ptrs : CreateUser(p) \/ UpdateUser(p)
             \/ \E i \in Ids : GetUserById(i) \/ DeleteUser(i)
             \/ \E e \in Emails : GetUserByEmail(e)
             \/ Clear

Next == \/ \E p \in Ptrs, u \in User : NewUser(p, u) \/ EditStored(p, u)
        \/ Operation

Spec == Init /\ [][Next]_vars

-----------------------------------------------------------------------------
TypeOK ==
  /\ heap \in [Ptrs -> User]
  /\ users \in MapsOf(Ids, Ptrs)
  /\ email \in MapsOf(Emails, Ids)
  /\ reply.err \in {"nil", "exists", "notfound", "panic"}
  /\ reply.user \subseteq User

\* The two maps describe one set of users: every stored user is filed under
\* its own ID and its email leads back to it, and every email in the index
\* belongs to a stored user that has that email.  It is what GetUserByEmail,
\* and the uniqueness test of CreateUser and UpdateUser, rely on.
IndexAgrees ==
  /\ \A i \in DOMAIN users :
       /\ Stored(i).id = i
       /\ Stored(i).email \in DOMAIN email
       /\ email[Stored(i).email] = i
  /\ \A e \in DOMAIN email :
       /\ email[e] \in DOMAIN users
       /\ Stored(email[e]).email = e

\* While callers leave the email of shared objects alone, the adapter is the
\* table of UserStore: its two maps and its pointers show only in that who
\* shares an object can edit the rest of it.  It panics at no look-up.
Abstract == INSTANCE UserStore WITH
              store <- [i \in DOMAIN users |-> Stored(i)]
ImplementsUserStore == Abstract!SharedSpec
=============================================================================
