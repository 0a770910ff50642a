------------------------------- MODULE GoMaps -------------------------------
(***************************************************************************)
(* Go maps as partial functions.  A lookup "v, ok := m[k]" is a test of    *)
(* k \in DOMAIN m, so only the two writing operations need a name.         *)
(***************************************************************************)
EXTENDS Functions

\* m[k] = v
Put(m, k, v) == [x \in DOMAIN m \cup {k} |-> IF x = k THEN v ELSE m[x]]

\* delete(m, k): a no-op when k is absent
Without(m, k) == Restrict(m, DOMAIN m \ {k})

\* The maps with keys in K and values in V.
MapsOf(K, V) == UNION { [D -> V] : D \in SUBSET K }

\* The map that make(map[...]...) returns.
EmptyMap == [k \in {} |-> k]
=============================================================================
