-------------------------------- MODULE Store --------------------------------
(***************************************************************************)
(* The entity store of graph-node, as the mapping handlers use it: every   *)
(* entity type is a partial function from ids to rows.  X.load(id) is a    *)
(* test of the domain, new X(id) followed by save() is Put.  A handler     *)
(* runs alone, from its event to its last save, so a whole handler is one  *)
(* step on these functions.                                                *)
(***************************************************************************)
EXTENDS Integers, FiniteSets

\* No row of the entity exists.
NoRows == [k \in {} |-> 0]

\* save() of row v under id k: created when absent, replaced when present.
Put(f, k, v) == [x \in DOMAIN f \cup {k} |-> IF x = k THEN v ELSE f[x]]

\* The row under id k, or what the handler initialises a new one with.
LoadOr(f, k, fresh) == IF k \in DOMAIN f THEN f[k] ELSE fresh

\* Every row is in R and every id in K.
PartialFn(f, K, R) == /\ f = [x \in DOMAIN f |-> f[x]]
                      /\ DOMAIN f \subseteq K
                      /\ \A x \in DOMAIN f : f[x] \in R
=============================================================================
