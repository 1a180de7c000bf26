------------------------------ MODULE Counters ------------------------------
(***************************************************************************)
(* Rows of counters, as the ledgers of the subgraphs keep them: a handler  *)
(* loads a row, or makes one with every counter at zero, adds to some of   *)
(* the counters and saves it.                                              *)
(***************************************************************************)
EXTENDS Store, Functions

\* A new row: every counter at zero.
Zeros(fields) == [x \in fields |-> 0]

\* The row with the amounts of delta added to its counters of the same names.
Add(row, delta) ==
    [x \in DOMAIN row |-> IF x \in DOMAIN delta THEN row[x] + delta[x] ELSE row[x]]

\* The counters of delta, negated.
Negated(delta) == [x \in DOMAIN delta |-> -delta[x]]

\* Load or create the row under id k, add delta to it, save it.
AddTo(f, k, fields, delta) == Put(f, k, Add(LoadOr(f, k, Zeros(fields)), delta))

\* The amounts of the members of S, added up.
SumOver(S, amount(_)) == SumFunction([k \in S |-> amount(k)])

\* The counter c of every row of f, added up.
Total(f, c) == LET amount(k) == f[k][c] IN SumOver(DOMAIN f, amount)
=============================================================================
