--------------------------- MODULE MC_PgSession -----------------------------
(* PgSession with three connections and two rows; the calls load, add or   *)
(* remove one row, or save any set of rows.                                *)
EXTENDS PgSession, TLC

CONSTANTS c1, c2, c3, r1, r2

MCConns == {c1, c2, c3}
MCRows  == {r1, r2}

MCOps == {[kind |-> "load", rows |-> {}]}
         \cup {[kind |-> k, rows |-> {r}] : k \in {"add", "remove"}, r \in MCRows}
         \cup {[kind |-> "save", rows |-> S] : S \in SUBSET MCRows}
=============================================================================
