----------------------------- MODULE Authorizer -----------------------------
(***************************************************************************)
(* authorization.Authorizer: which permissions each role grants, and the   *)
(* policies of actions.                                                    *)
(*                                                                         *)
(* A policy is a Go function of the user and the resource.  Here it is the *)
(* set of permissions it has HasPermission check, as the combined example  *)
(* of docs/api/authorization.md does, on a resource that is the user's.    *)
(* Nothing in the code orders these calls: whoever shares an Authorizer is *)
(* taken to make them one at a time.                                       *)
(***************************************************************************)
EXTENDS GoMaps

CONSTANTS Roles, Permissions, Actions

VARIABLES rolePermissions, policies

AuthzInit == rolePermissions = EmptyMap /\ policies = EmptyMap

\* What the role grants; a role that is not defined grants nothing.
Granted(role) == UNION {rolePermissions[r] : r \in {role} \cap DOMAIN rolePermissions}

\* A role defined again keeps what it had.
DefineRole(role, permissions) ==
  /\ rolePermissions' = Put(rolePermissions, role, Granted(role) \cup permissions)
  /\ UNCHANGED policies

GrantPermission(role, permission) ==
  /\ rolePermissions' = Put(rolePermissions, role, Granted(role) \cup {permission})
  /\ UNCHANGED policies

RevokePermission(role, permission) ==
  /\ role \in DOMAIN rolePermissions
  /\ rolePermissions' = [rolePermissions EXCEPT ![role] = @ \ {permission}]
  /\ UNCHANGED policies

AllowPolicy(action, fn) ==
  /\ policies' = Put(policies, action, fn)
  /\ UNCHANGED rolePermissions

\* Whether the user's roles grant the permission.
HasPermission(roles, permission) == \E role \in roles : permission \in Granted(role)

\* Nothing is allowed for which no policy is registered.
Can_open(roles, action) ==
  action \in DOMAIN policies => \A p \in policies[action] : HasPermission(roles, p)
Can(roles, action) ==
  /\ action \in DOMAIN policies
  /\ \A p \in policies[action] : HasPermission(roles, p)
=============================================================================
