--------------------------- MODULE PolicyStorage ----------------------------
(***************************************************************************)
(* What the comments of c_src/pg_adapter.h promise of an adapter: it keeps *)
(* a set of rules, to which calls add a rule, from which they remove a     *)
(* rule or the rules a filter matches, and which saving and loading leave  *)
(* as it is.                                                               *)
(***************************************************************************)
EXTENDS Integers, Sequences

CONSTANTS Rules,    \* rules: a policy type and a sequence of fields
          Filters,  \* filters: a policy type, a first field and values
          Empty     \* the empty field, which as a value matches every field

VARIABLE stored

(* casbin's notion of a rule that a filter matches.                        *)
Matches(f, r) ==
    /\ r.ptype = f.ptype
    /\ \A j \in DOMAIN f.values :
          \/ f.values[j] = Empty
          \/ /\ f.index + j \in DOMAIN r.fields
             /\ r.fields[f.index + j] = f.values[j]

Init == stored \in SUBSET Rules

Add(r) == stored' = stored \cup {r}

Remove(r) == stored' = stored \ {r}

RemoveFiltered(f) == stored' = {r \in stored : ~Matches(f, r)}

Next == \/ \E r \in Rules : Add(r) \/ Remove(r)
        \/ \E f \in Filters : RemoveFiltered(f)

Spec == Init /\ [][Next]_stored
=============================================================================
