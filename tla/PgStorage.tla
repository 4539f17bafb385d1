----------------------------- MODULE PgStorage ------------------------------
(***************************************************************************)
(* How PgAdapter (c_src/pg_adapter.cpp) keeps casbin's rules in the        *)
(* columns of casbin_rule: what it writes for a rule, which rows its       *)
(* DELETE statements select, and which rules it reads back.  One call is   *)
(* one step; what fails between the steps of a call is in PolicyStore.     *)
(*                                                                         *)
(* A field is its text, whether there is blank space around it, and how    *)
(* many quotes there are in it.  In a quoted literal of SQL or a line of   *)
(* COPY a field stands for itself.  casbin's memory is external: it        *)
(* changes first, and the adapter is called if it did change.              *)
(***************************************************************************)
EXTENDS Integers, Sequences, FiniteSets

CONSTANTS Texts,     \* the texts of fields
          Rules,     \* the rules that callers add
          Filters,   \* the filters that callers remove by
          Models,    \* the sets of policy types that model files define
          NULL,      \* SQL's NULL
          UIntRange, \* 2^32, the values of an unsigned int (scaled)
          SizeRange, \* 2^64, the values of a size_t (scaled)
          MaxQuotes  \* bound: quotes in a field that is still saved

Columns == 7   \* v0 to v6

Fields == [text : Texts \cup {""}, padded : BOOLEAN, quotes : Nat]

Empty == [text |-> "", padded |-> FALSE, quotes |-> 0]

IsRule(r) == r = [ptype |-> r.ptype, fields |-> r.fields]
             /\ r.fields \in Seq(Fields)

(* An index is an int; a vector is far smaller than the memory.            *)
IsFilter(f) == /\ f.index \in Int /\ f.values \in Seq(Fields)
               /\ -UIntRange <= 2 * f.index /\ 2 * f.index < UIntRange
               /\ Len(f.values) + UIntRange < SizeRange

ASSUME StorageAssumption ==
    /\ NULL \notin Fields
    /\ \A r \in Rules : IsRule(r) /\ \E m \in Models : r.ptype \in m
    /\ \A f \in Filters : IsFilter(f)
    /\ UIntRange \in Nat /\ SizeRange \in Nat /\ MaxQuotes \in Nat
    /\ Columns < UIntRange /\ UIntRange < SizeRange

VARIABLES types,    \* the policy types that the enforcer's model defines
          model,    \* the rules in the enforcer's memory
          table,    \* the rows of casbin_rule
          outcome   \* of the last call: "ok", "failed" or "undefined"

vars == <<types, model, table, outcome>>

-----------------------------------------------------------------------------
(* Rows and rules.                                                         *)

(* INSERT lists one column for each field, up to v6.                       *)
Row(r) == [ptype |-> r.ptype,
           v |-> [c \in 0 .. Columns - 1 |->
                     IF c < Len(r.fields) THEN r.fields[c + 1] ELSE NULL]]

(* esc writes each quote twice; stream_to, which comes after it, needs no  *)
(* such thing, and what SavePolicy hands it is stored.                     *)
Escaped(x) == [x EXCEPT !.quotes = 2 * @]

EscapedRule(r) ==
    [r EXCEPT !.fields = [i \in DOMAIN r.fields |-> Escaped(r.fields[i])]]

SavedRow(r) == Row(EscapedRule(r))

(* The columns of a row that are not NULL, and the n-th of them.           *)
Given(row) == {c \in 0 .. Columns - 1 : row.v[c] # NULL}

Nth(row, n) ==
    CHOOSE c \in Given(row) : Cardinality({d \in Given(row) : d <= c}) = n

Trim(x) == [x EXCEPT !.padded = FALSE]

(* Mutant: the last column is not read.                                    *)
LineWithoutLast(row) ==
    [ptype |-> row.ptype,
     fields |-> [n \in 1 .. Cardinality(Given(row) \ {Columns - 1}) |->
                    Trim(row.v[Nth(row, n)])]]

(* LoadPolicyLine: the columns that are not NULL, each of them trimmed.    *)
Line(row) == [ptype |-> row.ptype,
              fields |-> [n \in 1 .. Cardinality(Given(row)) |->
                             Trim(row.v[Nth(row, n)])]]

Lines(rows) == {Line(row) : row \in rows}

Storage == INSTANCE PolicyStorage WITH stored <- Lines(table)

(* The table holds what this adapter has stored before.                    *)
Init == /\ types \in Models
        /\ \E S \in SUBSET {r \in Rules : r.ptype \in types} :
              table = {Row(r) : r \in S}
        /\ model = Lines(table)
        /\ outcome = "ok"

-----------------------------------------------------------------------------
Returns(result) == outcome # "undefined" /\ outcome' = result

(* Mutant: the rows of other policy types are skipped.                     *)
LoadSkipping(defined) ==
    /\ Returns("ok")
    /\ model' = Lines({row \in table : row.ptype \in defined})
    /\ types' = defined
    /\ UNCHANGED table

(* The row of a policy type that the model does not define goes through    *)
(* the null assertion that operator[] makes for it.                        *)
Load(defined) ==
    \/ /\ Returns("ok")
       /\ \A row \in table : row.ptype \in defined
       /\ model' = Lines(table)
       /\ types' = defined
       /\ UNCHANGED table
    \/ /\ Returns("undefined")
       /\ \E row \in table : row.ptype \notin defined
       /\ UNCHANGED <<types, model, table>>

CreateEnforcer == \E defined \in Models : Load(defined)

LoadPolicy == Load(types)

(* The bound on the quotes, which saving doubles each time.                *)
Savable(r) == \A i \in DOMAIN r.fields : r.fields[i].quotes <= MaxQuotes

(* Mutant: only the rules of type p are written.                           *)
SaveOnlyP == /\ Returns("ok")
             /\ \A r \in model : Savable(r)
             /\ table' = {SavedRow(r) : r \in {q \in model : q.ptype = "p"}}
             /\ UNCHANGED <<types, model>>

SavePolicy == /\ Returns("ok")
              /\ \A r \in model : Savable(r)
              /\ table' = {SavedRow(r) : r \in model}
              /\ UNCHANGED <<types, model>>

AddPolicy(r) == /\ Returns("ok")
                /\ r \notin model
                /\ r.ptype \in types
                /\ model' = model \cup {r}
                /\ table' = table \cup {Row(r)}
                /\ UNCHANGED types

(* Mutant: columns beyond the rule's fields are not compared.              *)
EqualInFields(r, row) == /\ row.ptype = r.ptype
                         /\ \A i \in DOMAIN r.fields :
                               i <= Columns => row.v[i - 1] = r.fields[i]

(* v0 = field AND ... AND v6 is NULL                                       *)
Equal(r, row) ==
    /\ row.ptype = r.ptype
    /\ \A c \in 0 .. Columns - 1 :
          row.v[c] = IF c < Len(r.fields) THEN r.fields[c + 1] ELSE NULL

RemovePolicy(r) == /\ Returns("ok")
                   /\ r \in model
                   /\ model' = model \ {r}
                   /\ table' = {row \in table : ~Equal(r, row)}
                   /\ UNCHANGED types

(* The loop over the columns, whose counter is an unsigned int and whose   *)
(* bound a size_t, from a field_index that is an int.                      *)
First(f) == f.index % UIntRange
(* Mutant: the bound is included.                                          *)
BoundBeyond(f) == (Len(f.values) + f.index + 1) % SizeRange

Bound(f) == (Len(f.values) + f.index) % SizeRange

(* field_values is read beyond its end; a column v7 is named.              *)
Overruns(f)     == Bound(f) - First(f) > Len(f.values)
NoSuchColumn(f) == First(f) < Bound(f) /\ Bound(f) > Columns

Selects(f, row) ==
    /\ row.ptype = f.ptype
    /\ \A c \in First(f) .. Bound(f) - 1 : row.v[c] = f.values[c - First(f) + 1]

RemoveFilteredPolicy(f) ==
    /\ \E r \in model : Storage!Matches(f, r)
    /\ UNCHANGED types
    /\ \/ /\ Returns("undefined")
          /\ Overruns(f)
          /\ UNCHANGED <<model, table>>
       \/ /\ Returns(IF NoSuchColumn(f) THEN "failed" ELSE "ok")
          /\ ~Overruns(f)
          /\ model' = {r \in model : ~Storage!Matches(f, r)}
          /\ table' = IF NoSuchColumn(f) THEN table
                      ELSE {row \in table : ~Selects(f, row)}

Next == \/ CreateEnforcer \/ LoadPolicy \/ SavePolicy
        \/ \E r \in Rules : AddPolicy(r)
        \/ \E r \in model : RemovePolicy(r)
        \/ \E f \in Filters : RemoveFilteredPolicy(f)

Spec == Init /\ [][Next]_vars

-----------------------------------------------------------------------------
(* The variables' types: the memory has rules, the table has rows of them. *)
TypeOK == /\ types \in Models
          /\ \A r \in model : IsRule(r)
          /\ \A row \in table : row.v \in [0 .. Columns - 1 -> Fields \cup {NULL}]
          /\ outcome \in {"ok", "failed", "undefined"}

(* The rules that the rows of the table stand for are those in the memory  *)
(* of the enforcer: a reload changes nothing.                              *)
SameRules == Lines(table) = model

(* No call fails by itself, and none reads through a null assertion or     *)
(* beyond the end of the values of a filter.                               *)
CallsSucceed == outcome = "ok"

(* While the enforcer lives its model defines the type of every row in the *)
(* table: no SavePolicy loses rules that LoadPolicy passed over.           *)
EveryRowLoadable ==
    outcome # "undefined" => \A row \in table : row.ptype \in types

(* The values of a filter are read beyond their end only when the filter   *)
(* lies entirely before the first field.                                   *)
OverrunOnlyBelow ==
    [][\A f \in Filters : RemoveFilteredPolicy(f) /\ outcome' = "undefined"
          => f.index + Len(f.values) < 0]_vars

(* What has been loaded comes back from a save with every quote doubled    *)
(* and otherwise unchanged, however it got into the table: saving again    *)
(* and again loses no rule and trims no field, and wears out the quotes.   *)
SavesLoaded ==
    [][SavePolicy /\ model = Lines(table)
         => Lines(table') = {EscapedRule(r) : r \in model}]_vars

(* The adapter is a storage: what one call adds or removes in the table is *)
(* the rule, or the rules matching the filter, that casbin's memory adds   *)
(* or removes, and saving and loading keep all rules.                      *)
IsStorage == Storage!Spec

(* "RemoveFilteredPolicy removes policy rules that match the filter from   *)
(* the storage", those and no others.                                      *)
RemovesMatching ==
    [][\A f \in Filters : RemoveFilteredPolicy(f) =>
          Lines(table') = {r \in Lines(table) : ~Storage!Matches(f, r)}]_vars

-----------------------------------------------------------------------------
(* The rules and filters for which all of this holds: fields that trimming *)
(* and escaping leave alone, no more than there are columns, of types that *)
(* every model defines, and values that are not empty, in columns that     *)
(* there are.                                                              *)
Clean(x) == x \in Fields /\ ~x.padded /\ x.quotes = 0

CleanRules == \A r \in Rules : /\ Len(r.fields) <= Columns
                               /\ \A i \in DOMAIN r.fields : Clean(r.fields[i])
                               /\ \A m \in Models : r.ptype \in m

CleanFilter(f) == /\ f.index \in Nat
                  /\ f.index + Len(f.values) <= Columns
                  /\ \A j \in DOMAIN f.values : f.values[j] \in Fields \ {Empty}

CleanFilters == \A f \in Filters : CleanFilter(f)

TableIsModel == /\ model \subseteq {r \in Rules : r.ptype \in types}
                /\ table = {Row(r) : r \in model}
=============================================================================
