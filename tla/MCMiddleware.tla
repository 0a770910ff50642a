---------------------------- MODULE MCMiddleware ----------------------------
(* A small instance of Middleware: every order of up to four guards, the     *)
(* documented ones, with all that can happen to them, and two handlers that  *)
(* ask the authorizer.                                                       *)
EXTENDS Middleware, TLC

Framework == Guards \ {"HasPermission", "Can"}

AnyOrder == UNION {[1..n -> Framework] : n \in 0..4}

Documented == {<<"Mount", "RequireAuthWithLoginfy">>,
               <<"Mount", "RequireAuthWithLoginfy", "RequireRole", "RequirePermission">>}

Asking == {<<"Mount", "RequireAuthWithLoginfy", "HasPermission">>,
           <<"Mount", "RequireAuthWithLoginfy", "Can">>}

AnyOrderOrAsking == AnyOrder \cup Asking

Alike == Permutations(Secrets)
=============================================================================
