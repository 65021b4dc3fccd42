-------------------------------- MODULE Maps --------------------------------
(***************************************************************************)
(* The BTreeMap and HashMap of the Rust library, as functions with a       *)
(* finite domain.                                                          *)
(***************************************************************************)
EXTENDS FiniteSets

EmptyMap == [k \in {} |-> {}]

\* insert: a value already there is replaced.
Put(f, key, value) ==
    [k \in DOMAIN f \cup {key} |-> IF k = key THEN value ELSE f[k]]

\* remove, for each key of K.
Without(f, K) == [k \in DOMAIN f \ K |-> f[k]]

\* len
Size(f) == Cardinality(DOMAIN f)

\* A map with its keys in K and its values in V.
IsMap(f, K, V) == DOMAIN f \subseteq K /\ f \in [DOMAIN f -> V]
=============================================================================
