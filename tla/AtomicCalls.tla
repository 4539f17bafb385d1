---------------------------- MODULE AtomicCalls -----------------------------
(***************************************************************************)
(* What a call of PgAdapter promises: it changes the table in one step and *)
(* succeeds, or it fails and changes nothing.  Only when the connection is *)
(* lost during the commit does the caller not know which of them it was.   *)
(* A removal may leave what another adapter inserted while it ran: no      *)
(* constraint keeps a row that it has selected from being inserted again.  *)
(***************************************************************************)
CONSTANTS Rows,  \* the rows that casbin_rule may have
          Ops    \* the calls: what they do, and to which rows

VARIABLES table,    \* the rows of casbin_rule
          call,     \* the last call
          result,   \* what has become of it
          inserted  \* what others have inserted since it began

vars == <<table, call, result, inserted>>

(* The tables that a call which succeeds may leave.                        *)
Effects(op) ==
    CASE op.kind = "load"   -> {table}
      [] op.kind = "add"    -> {table \cup op.rows}
      [] op.kind = "remove" -> {table \ (op.rows \ late) : late \in SUBSET inserted}
      [] op.kind = "save"   -> {op.rows}

Init == /\ table \in SUBSET Rows
        /\ call \in Ops
        /\ result = "none"
        /\ inserted = {}

Begin == /\ result # "pending"
         /\ call' \in Ops
         /\ result' = "pending"
         /\ inserted' = {}
         /\ UNCHANGED table

Succeed == /\ result = "pending"
           /\ table' \in Effects(call)
           /\ result' = "ok"
           /\ UNCHANGED <<call, inserted>>

Fail == /\ result = "pending"
        /\ result' = "failed"
        /\ UNCHANGED <<table, call, inserted>>

Doubt == /\ result = "pending"
         /\ table' \in {table} \cup Effects(call)
         /\ result' = "in_doubt"
         /\ UNCHANGED <<call, inserted>>

(* Another adapter inserts or deletes a row.                               *)
OtherInserts(r) ==
    /\ table' = table \cup {r}
    /\ inserted' = IF result = "pending" THEN inserted \cup {r} ELSE inserted
    /\ UNCHANGED <<call, result>>

OtherDeletes(r) == /\ table' = table \ {r}
                   /\ UNCHANGED <<call, result, inserted>>

Next == \/ Begin \/ Succeed \/ Fail \/ Doubt
        \/ \E r \in Rows : OtherInserts(r) \/ OtherDeletes(r)

Spec == Init /\ [][Next]_vars
=============================================================================
