------------------------------- MODULE GoMap -------------------------------
(***************************************************************************)
(* Go maps as functions whose DOMAIN is the set of keys present: a lookup   *)
(* with two results is a test of membership in the DOMAIN.                  *)
(***************************************************************************)
EXTENDS Functions

\* m is a map with keys in K and values in V.
IsMap(m, K, V) == DOMAIN m \subseteq K /\ m \in [DOMAIN m -> V]

EmptyMap == [k \in {} |-> {}]

\* m[k] = v
Put(m, k, v) == [x \in DOMAIN m \cup {k} |-> IF x = k THEN v ELSE m[x]]

\* delete(m, k) for every k in K
DeleteAll(m, K) == Restrict(m, DOMAIN m \ K)

\* delete(m, k)
Delete(m, k) == DeleteAll(m, {k})
=============================================================================
