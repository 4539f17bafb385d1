-------------------------- MODULE PgStorageProofs ---------------------------
(***************************************************************************)
(* What module PgStorage promises for clean rules and filters, of any      *)
(* number of rules: the table holds one row for each rule in memory, so a  *)
(* reload changes nothing, no call fails, and the adapter implements the   *)
(* storage of module PolicyStorage.  All rests on two facts: a row is read *)
(* back as the rule it was written for, and a DELETE selects the rows of   *)
(* the rules that casbin removes from its memory.                          *)
(***************************************************************************)
EXTENDS PgStorage, FiniteSetTheorems, TLAPS

(* Trimming and escaping give fields, and leave a clean field alone.       *)
LEMMA TrimmedField ==
  ASSUME NEW x \in Fields
  PROVE  /\ Trim(x) \in Fields /\ ~Trim(x).padded
         /\ Trim(x).quotes = x.quotes
         /\ ~x.padded => Trim(x) = x
BY DEF Fields, Trim

LEMMA EscapedField ==
  ASSUME NEW x \in Fields
  PROVE  /\ Escaped(x) \in Fields
         /\ Escaped(x).padded = x.padded
         /\ x.quotes = 0 => Escaped(x) = x
<1>1. x.quotes \in Nat
  BY DEF Fields
<1>2. [x EXCEPT !.quotes = 2 * x.quotes] \in Fields
  <2> DEFINE doubled == 2 * x.quotes
  <2>1. doubled \in Nat
    BY <1>1
  <2> HIDE DEF doubled
  <2>2. [x EXCEPT !.quotes = doubled] \in Fields
    BY <2>1 DEF Fields
  <2>3. QED
    BY <2>2 DEF doubled
<1>3. x.quotes = 0 => 2 * x.quotes = x.quotes
  BY <1>1
<1>4. [x EXCEPT !.quotes = x.quotes] = x
  BY DEF Fields
<1>5. QED
  BY <1>2, <1>3, <1>4 DEF Fields, Escaped

LEMMA CleanField ==
  ASSUME NEW x, Clean(x)
  PROVE  Trim(x) = x /\ Escaped(x) = x
BY TrimmedField, EscapedField DEF Clean

(* A row without gaps: n fields, and NULL in the columns after them.       *)
HasFields(row, n) == /\ row.v \in [0 .. Columns - 1 -> Fields \cup {NULL}]
                     /\ \A c \in 0 .. Columns - 1 : row.v[c] # NULL <=> c < n

(* The columns that n fields take.                                         *)
LEMMA FieldColumns ==
  ASSUME NEW n \in Nat, n <= Columns
  PROVE  /\ n \in 0 .. Columns
         /\ {c \in 0 .. Columns - 1 : c < n} = 0 .. n - 1
         /\ \A k \in 1 .. n : /\ k - 1 \in 0 .. Columns - 1
                              /\ k - 1 < n
                              /\ k - 1 + 1 = k
BY DEF Columns

(* A row without gaps is read as its fields, in order and each trimmed.    *)
LEMMA LineOfFields ==
  ASSUME NEW row, NEW n \in 0 .. Columns, HasFields(row, n)
  PROVE  /\ Line(row) = [ptype  |-> row.ptype,
                         fields |-> [k \in 1 .. n |-> Trim(row.v[k - 1])]]
         /\ \A k \in 1 .. n : row.v[k - 1] \in Fields
<1>1. n \in Nat /\ n <= Columns
  BY DEF Columns
<1>2. Given(row) = 0 .. n - 1
  <2>1. Given(row) = {c \in 0 .. Columns - 1 : c < n}
    BY DEF Given, HasFields
  <2>2. QED
    BY <1>1, <2>1, FieldColumns
<1>3. Cardinality(Given(row)) = n
  BY <1>1, <1>2, FS_Interval
<1>4. \A c \in 0 .. n - 1 : Cardinality({d \in Given(row) : d <= c}) = c + 1
  <2> SUFFICES ASSUME NEW c \in 0 .. n - 1
               PROVE  Cardinality({d \in Given(row) : d <= c}) = c + 1
    OBVIOUS
  <2>1. {d \in Given(row) : d <= c} = 0 .. c
    BY <1>1, <1>2
  <2>2. c \in Int /\ 0 <= c
    BY <1>1
  <2>3. Cardinality(0 .. c) = c + 1
    BY <2>2, FS_Interval
  <2>4. QED
    BY <2>1, <2>3
<1>5. \A k \in 1 .. n : Nth(row, k) = k - 1
  <2> SUFFICES ASSUME NEW k \in 1 .. n PROVE Nth(row, k) = k - 1
    OBVIOUS
  <2>1. k - 1 \in Given(row) /\ Cardinality({d \in Given(row) : d <= k - 1}) = k
    BY <1>1, <1>2, <1>4
  <2>2. \A c \in Given(row) :
           Cardinality({d \in Given(row) : d <= c}) = k => c = k - 1
    BY <1>1, <1>2, <1>4
  <2>3. QED
    BY <2>1, <2>2 DEF Nth
<1>6. [k \in 1 .. n |-> Trim(row.v[Nth(row, k)])]
         = [k \in 1 .. n |-> Trim(row.v[k - 1])]
  BY <1>5
<1>7. \A k \in 1 .. n : row.v[k - 1] \in Fields
  BY <1>1, FieldColumns DEF HasFields
<1>8. QED
  BY <1>3, <1>6, <1>7 DEF Line

(* The row of a rule has as many fields as the rule, but seven at most.    *)
Width(r) == IF Len(r.fields) <= Columns THEN Len(r.fields) ELSE Columns

LEMMA RowFields ==
  ASSUME NEW r, IsRule(r)
  PROVE  /\ Width(r) \in 0 .. Columns /\ Len(r.fields) \in Nat
         /\ DOMAIN r.fields = 1 .. Len(r.fields)
         /\ \A i \in 1 .. Len(r.fields) : r.fields[i] \in Fields
         /\ HasFields(Row(r), Width(r))
         /\ Row(r).ptype = r.ptype
         /\ \A k \in 1 .. Width(r) : Row(r).v[k - 1] = r.fields[k]
<1> DEFINE n == Len(r.fields)
           v == Row(r).v
<1>1. /\ n \in Nat /\ DOMAIN r.fields = 1 .. n
      /\ \A i \in 1 .. n : r.fields[i] \in Fields
  BY DEF IsRule
<1>2. /\ v = [c \in 0 .. Columns - 1 |-> IF c < n THEN r.fields[c + 1] ELSE NULL]
      /\ Row(r).ptype = r.ptype
  BY DEF Row
<1>3. /\ Width(r) \in 0 .. Columns
      /\ \A c \in 0 .. Columns - 1 : c < n <=> c < Width(r)
      /\ \A k \in 1 .. Width(r) : k - 1 \in 0 .. Columns - 1 /\ k - 1 < n
                                 /\ k - 1 + 1 = k
  <2>1. Width(r) = IF n <= Columns THEN n ELSE Columns
    BY DEF Width
  <2> HIDE DEF n
  <2>2. QED
    BY <1>1, <2>1 DEF Columns
<1>4. \A c \in 0 .. Columns - 1 : c < n => r.fields[c + 1] \in Fields
  <2>1. \A c \in 0 .. Columns - 1 : c < n => c + 1 \in 1 .. n
    BY <1>1
  <2>2. QED
    BY <1>1, <2>1
<1>5. NULL \notin Fields
  BY StorageAssumption
<1>6. /\ v \in [0 .. Columns - 1 -> Fields \cup {NULL}]
      /\ \A c \in 0 .. Columns - 1 : v[c] # NULL <=> c < n
  BY <1>2, <1>4, <1>5
<1>7. \A k \in 1 .. Width(r) : v[k - 1] = r.fields[k]
  BY <1>2, <1>3
<1>8. QED
  BY <1>1, <1>2, <1>3, <1>6, <1>7 DEF HasFields

(* A row is read back as the first seven fields of the rule it was written *)
(* for, each trimmed; so the rule is read back if it is no longer and its  *)
(* fields are trimmed.                                                     *)
LEMMA LineOfRule ==
  ASSUME NEW r, IsRule(r)
  PROVE  Line(Row(r)) = [ptype  |-> r.ptype,
                         fields |-> [k \in 1 .. Width(r) |-> Trim(r.fields[k])]]
<1>1. /\ Width(r) \in 0 .. Columns
      /\ HasFields(Row(r), Width(r))
      /\ Row(r).ptype = r.ptype
      /\ \A k \in 1 .. Width(r) : Row(r).v[k - 1] = r.fields[k]
  BY RowFields
<1>2. Line(Row(r)) = [ptype  |-> Row(r).ptype,
                      fields |-> [k \in 1 .. Width(r) |-> Trim(Row(r).v[k - 1])]]
  BY <1>1, LineOfFields
<1>3. [k \in 1 .. Width(r) |-> Trim(Row(r).v[k - 1])]
         = [k \in 1 .. Width(r) |-> Trim(r.fields[k])]
  BY <1>1
<1>4. QED
  BY <1>1, <1>2, <1>3

LEMMA LineOfTrimmed ==
  ASSUME NEW r, IsRule(r), Len(r.fields) <= Columns,
         \A i \in DOMAIN r.fields : ~r.fields[i].padded
  PROVE  Line(Row(r)) = r
<1>1. /\ Width(r) = Len(r.fields)
      /\ DOMAIN r.fields = 1 .. Width(r)
      /\ \A k \in 1 .. Width(r) : r.fields[k] \in Fields
  BY RowFields DEF Width
<1>2. \A k \in 1 .. Width(r) : Trim(r.fields[k]) = r.fields[k]
  BY <1>1, TrimmedField
<1>3. r.fields \in Seq(Fields)
  BY DEF IsRule
<1>4. r.fields = [k \in 1 .. Width(r) |-> r.fields[k]]
  BY <1>1, <1>3
<1>5. [k \in 1 .. Width(r) |-> Trim(r.fields[k])] = r.fields
  BY <1>2, <1>4
<1>6. r = [ptype |-> r.ptype, fields |-> r.fields]
  BY DEF IsRule
<1>7. QED
  BY <1>5, <1>6, LineOfRule

(* The columns of a clean rule's row.                                      *)
LEMMA RowColumns ==
  ASSUME NEW r \in Rules, CleanRules
  PROVE  /\ Len(r.fields) \in Nat /\ Len(r.fields) <= Columns
         /\ \A i \in 1 .. Len(r.fields) : r.fields[i] \in Fields
         /\ Row(r).ptype = r.ptype
         /\ \A c \in 0 .. Columns - 1 :
               Row(r).v[c] = IF c < Len(r.fields) THEN r.fields[c + 1] ELSE NULL
<1>1. IsRule(r) /\ Len(r.fields) <= Columns
  BY StorageAssumption DEF CleanRules
<1>2. QED
  BY <1>1, RowFields DEF Row

LEMMA LineOfRow ==
  ASSUME NEW r \in Rules, CleanRules
  PROVE  Line(Row(r)) = r
BY StorageAssumption, LineOfTrimmed DEF CleanRules, Clean

(* Without quotes SavePolicy writes the row that AddPolicy writes.         *)
LEMMA SavedUnquoted ==
  ASSUME NEW r, IsRule(r), \A i \in DOMAIN r.fields : r.fields[i].quotes = 0
  PROVE  SavedRow(r) = Row(r)
<1>1. r = [ptype |-> r.ptype, fields |-> r.fields] /\ r.fields \in Seq(Fields)
  BY DEF IsRule
<1>2. \A i \in DOMAIN r.fields : Escaped(r.fields[i]) = r.fields[i]
  BY <1>1, EscapedField
<1>3. [i \in DOMAIN r.fields |-> Escaped(r.fields[i])] = r.fields
  BY <1>1, <1>2
<1>4. [r EXCEPT !.fields = r.fields] = r
  BY <1>1
<1>5. QED
  BY <1>3, <1>4 DEF SavedRow, EscapedRule

LEMMA SavedAsAdded ==
  ASSUME NEW r \in Rules, CleanRules
  PROVE  SavedRow(r) = Row(r)
BY StorageAssumption, SavedUnquoted DEF CleanRules, Clean

(* DELETE of a rule selects the row of that rule and no other.             *)
LEMMA EqualToOwnRow ==
  ASSUME NEW r \in Rules, NEW q \in Rules, CleanRules
  PROVE  Equal(r, Row(q)) <=> q = r
<1>1. Equal(r, Row(r))
  BY RowColumns DEF Equal
<1>2. ASSUME Equal(r, Row(q)) PROVE q = r
  <2>1. Row(q) = Row(r)
    BY <1>2 DEF Equal, Row
  <2>2. QED
    BY <2>1, LineOfRow
<1>3. QED
  BY <1>1, <1>2

-----------------------------------------------------------------------------
(* The loop of RemoveFilteredPolicy does not wrap for a clean filter.      *)
LEMMA SmallRemainder ==
  ASSUME NEW a \in Nat, NEW b \in Nat, a < b
  PROVE  a % b = a
OBVIOUS

LEMMA NaturalBounds ==
  ASSUME NEW f \in Filters, f.index \in Nat
  PROVE  /\ Len(f.values) \in Nat
         /\ First(f) = f.index /\ Bound(f) = f.index + Len(f.values)
         /\ ~Overruns(f)
         /\ ~NoSuchColumn(f) <=> \/ Len(f.values) = 0
                                \/ f.index + Len(f.values) <= Columns
<1>1. /\ f.index \in Nat /\ f.values \in Seq(Fields)
      /\ 2 * f.index < UIntRange /\ Len(f.values) + UIntRange < SizeRange
  BY StorageAssumption DEF IsFilter
<1>2. UIntRange \in Nat /\ SizeRange \in Nat /\ 0 < UIntRange
  BY StorageAssumption DEF Columns
<1>3. Len(f.values) \in Nat
  BY <1>1
<1> DEFINE i == f.index
           n == Len(f.values)
<1>4. Bound(f) = (n + i) % SizeRange /\ First(f) = i % UIntRange
  BY DEF Bound, First
<1>5. /\ i \in Nat /\ n \in Nat
      /\ 2 * i < UIntRange /\ n + UIntRange < SizeRange
  BY <1>1, <1>3
<1> HIDE DEF i, n
<1>6. i < UIntRange /\ n + i \in Nat /\ n + i < SizeRange
  BY <1>2, <1>5
<1>7. First(f) = i
  BY <1>2, <1>4, <1>5, <1>6, SmallRemainder
<1>8. Bound(f) = n + i
  BY <1>2, <1>4, <1>6, SmallRemainder
<1>9. Bound(f) = i + n /\ ~(Bound(f) - First(f) > n)
  BY <1>5, <1>7, <1>8
<1>10. ~(First(f) < Bound(f) /\ Bound(f) > Columns) <=> n = 0 \/ i + n <= Columns
  BY <1>5, <1>7, <1>8 DEF Columns
<1>11. QED
  BY <1>5, <1>7, <1>9, <1>10 DEF Overruns, NoSuchColumn, i, n

LEMMA CleanBounds ==
  ASSUME NEW f \in Filters, CleanFilter(f)
  PROVE  f.index \in Nat /\ ~Overruns(f) /\ ~NoSuchColumn(f)
BY NaturalBounds DEF CleanFilter

LEMMA ShiftedRange ==
  ASSUME NEW a \in Nat, NEW m \in Nat, NEW g, NEW h
  PROVE  (\A c \in a .. a + m - 1 : g[c] = h[c - a + 1])
            <=> \A j \in 1 .. m : g[a + j - 1] = h[j]
<1>1. \A j \in 1 .. m : a + j - 1 \in a .. a + m - 1 /\ (a + j - 1) - a + 1 = j
  OBVIOUS
<1>2. \A c \in a .. a + m - 1 : c - a + 1 \in 1 .. m /\ a + (c - a + 1) - 1 = c
  OBVIOUS
<1>3. QED
  BY <1>1, <1>2

(* A filter from a column that there is selects rows of rules that match   *)
(* it, and all of them if none of its values is empty.                     *)
LEMMA SelectsMatching ==
  ASSUME NEW f \in Filters, NEW r \in Rules, CleanRules,
         f.index \in Nat, ~NoSuchColumn(f)
  PROVE  /\ Selects(f, Row(r)) => Storage!Matches(f, r)
         /\ (\A j \in DOMAIN f.values : f.values[j] # Empty) =>
               (Storage!Matches(f, r) => Selects(f, Row(r)))
<1> DEFINE n == Len(r.fields)
           m == Len(f.values)
<1>1. /\ n \in Nat /\ n <= Columns
      /\ \A i \in 1 .. n : r.fields[i] \in Fields
      /\ Row(r).ptype = r.ptype
      /\ \A c \in 0 .. Columns - 1 :
            Row(r).v[c] = IF c < n THEN r.fields[c + 1] ELSE NULL
  BY RowColumns
<1>2. DOMAIN r.fields = 1 .. n /\ DOMAIN f.values = 1 .. m
  BY StorageAssumption DEF IsRule, IsFilter
<1>3. /\ f.index \in Nat /\ m \in Nat
      /\ m = 0 \/ f.index + m <= Columns
      /\ First(f) = f.index /\ Bound(f) = f.index + m
  BY NaturalBounds
<1>4. /\ NULL \notin Fields
      /\ \A j \in 1 .. m : f.values[j] \in Fields
  BY <1>2, StorageAssumption DEF IsFilter
<1>5. ASSUME NEW j \in 1 .. m
      PROVE  Row(r).v[f.index + j - 1] = f.values[j] <=>
                /\ f.index + j \in 1 .. n
                /\ r.fields[f.index + j] = f.values[j]
  <2>1. /\ f.index \in Nat /\ m \in Nat /\ n \in Nat
        /\ m = 0 \/ f.index + m <= Columns
    BY <1>1, <1>3
  <2>2. f.values[j] # NULL
    BY <1>4
  <2>3. \A c \in 0 .. Columns - 1 :
           Row(r).v[c] = IF c < n THEN r.fields[c + 1] ELSE NULL
    BY <1>1
  <2> DEFINE a == f.index
             g == Row(r).v
             h == r.fields
             x == f.values[j]
  <2> HIDE DEF a, g, h, x, m, n
  <2>4. a \in Nat /\ a + j - 1 \in 0 .. Columns - 1 /\ a + j - 1 + 1 = a + j
    <3>1. a \in Nat /\ m \in Nat /\ (m = 0 \/ a + m <= Columns)
      BY <2>1 DEF a
    <3>2. QED
      BY <3>1 DEF Columns
  <2>5. g[a + j - 1] = IF a + j - 1 < n THEN h[a + j] ELSE NULL
    <3>1. \A c \in 0 .. Columns - 1 : g[c] = IF c < n THEN h[c + 1] ELSE NULL
      BY <2>3 DEF g, h
    <3>2. QED
      BY <2>4, <3>1
  <2>6. a + j - 1 < n <=> a + j \in 1 .. n
    BY <2>1, <2>4
  <2>7. x # NULL
    BY <2>2 DEF x
  <2>8. g[a + j - 1] = x <=> a + j \in 1 .. n /\ h[a + j] = x
    BY <2>5, <2>6, <2>7
  <2>9. QED
    BY <2>8 DEF a, g, h, x
<1>6. (\A c \in f.index .. f.index + m - 1 :
          Row(r).v[c] = f.values[c - f.index + 1])
       <=> \A j \in 1 .. m : Row(r).v[f.index + j - 1] = f.values[j]
  <2> DEFINE a == f.index
             g == Row(r).v
             h == f.values
  <2>1. a \in Nat /\ m \in Nat
    BY <1>3
  <2> HIDE DEF a, g, h, m
  <2>2. (\A c \in a .. a + m - 1 : g[c] = h[c - a + 1])
           <=> \A j \in 1 .. m : g[a + j - 1] = h[j]
    BY <2>1, ShiftedRange
  <2>3. QED
    BY <2>2 DEF a, g, h, m
<1>7. Selects(f, Row(r)) <=>
         r.ptype = f.ptype /\ \A j \in 1 .. m : Row(r).v[f.index + j - 1] = f.values[j]
  BY <1>1, <1>3, <1>6 DEF Selects
<1>8. QED
  BY <1>2, <1>4, <1>5, <1>7 DEF Storage!Matches

LEMMA CleanSelects ==
  ASSUME NEW f \in Filters, NEW r \in Rules, CleanRules, CleanFilter(f)
  PROVE  Selects(f, Row(r)) <=> Storage!Matches(f, r)
<1>1. f.index \in Nat /\ ~NoSuchColumn(f)
  BY CleanBounds
<1>2. \A j \in DOMAIN f.values : f.values[j] # Empty
  BY DEF CleanFilter
<1>3. QED
  BY <1>1, <1>2, SelectsMatching

-----------------------------------------------------------------------------
(* Table and memory hold the same rules after every call.                  *)

CleanInv == types \in Models /\ TableIsModel /\ outcome = "ok"

LEMMA LinesOfRows ==
  ASSUME CleanRules, NEW S \in SUBSET Rules
  PROVE  Lines({Row(r) : r \in S}) = S
<1>1. \A r \in S : Line(Row(r)) = r
  BY LineOfRow
<1>2. QED
  BY <1>1 DEF Lines

LEMMA LinesAreModel ==
  ASSUME CleanRules, TableIsModel
  PROVE  Lines(table) = model /\ model \in SUBSET Rules
<1>1. model \in SUBSET Rules /\ table = {Row(r) : r \in model}
  BY DEF TableIsModel
<1>2. QED
  BY <1>1, LinesOfRows

LEMMA InitClean == CleanRules /\ Init => CleanInv
<1> SUFFICES ASSUME CleanRules, Init PROVE CleanInv
  OBVIOUS
<1>1. PICK S \in SUBSET {r \in Rules : r.ptype \in types} :
             table = {Row(r) : r \in S}
  BY DEF Init
<1>2. S \in SUBSET Rules
  BY <1>1
<1>3. model = S
  BY <1>1, <1>2, LinesOfRows DEF Init
<1>4. QED
  BY <1>1, <1>3 DEF Init, CleanInv, TableIsModel

LEMMA StepClean ==
  ASSUME CleanRules, CleanFilters, CleanInv, [Next]_vars
  PROVE  CleanInv'
<1>1. /\ model \in SUBSET {r \in Rules : r.ptype \in types}
      /\ table = {Row(r) : r \in model}
      /\ Lines(table) = model
      /\ types \in Models /\ outcome = "ok"
  BY LinesAreModel DEF CleanInv, TableIsModel
<1>2. CASE UNCHANGED vars
  BY <1>1, <1>2 DEF vars, CleanInv, TableIsModel
<1>3. ASSUME NEW defined \in Models, Load(defined) PROVE CleanInv'
  <2>1. \A r \in model : r.ptype \in defined
    BY <1>1 DEF CleanRules
  <2>2. \A row \in table : row.ptype \in defined
    BY <1>1, <2>1 DEF Row
  <2>3. QED
    BY <1>1, <1>3, <2>1, <2>2 DEF Load, Returns, CleanInv, TableIsModel
<1>4. CASE SavePolicy
  <2>1. \A r \in model : SavedRow(r) = Row(r)
    BY <1>1, SavedAsAdded
  <2>2. {SavedRow(r) : r \in model} = table
    BY <1>1, <2>1
  <2>3. QED
    BY <1>1, <1>4, <2>2 DEF SavePolicy, Returns, CleanInv, TableIsModel
<1>5. ASSUME NEW r \in Rules, AddPolicy(r) PROVE CleanInv'
  BY <1>1, <1>5 DEF AddPolicy, Returns, CleanInv, TableIsModel
<1>6. ASSUME NEW r \in model, RemovePolicy(r) PROVE CleanInv'
  <2>1. \A q \in model : Equal(r, Row(q)) <=> q = r
    BY <1>1, EqualToOwnRow
  <2>2. {row \in table : ~Equal(r, row)} = {Row(q) : q \in model \ {r}}
    BY <1>1, <2>1
  <2>3. QED
    BY <1>1, <1>6, <2>2 DEF RemovePolicy, Returns, CleanInv, TableIsModel
<1>7. ASSUME NEW f \in Filters, RemoveFilteredPolicy(f) PROVE CleanInv'
  <2>1. ~Overruns(f) /\ ~NoSuchColumn(f)
    BY CleanBounds DEF CleanFilters
  <2>2. \A q \in model : Selects(f, Row(q)) <=> Storage!Matches(f, q)
    BY <1>1, CleanSelects DEF CleanFilters
  <2>3. {row \in table : ~Selects(f, row)}
           = {Row(q) : q \in {r \in model : ~Storage!Matches(f, r)}}
    BY <1>1, <2>2
  <2>4. QED
    BY <1>1, <1>7, <2>1, <2>3
       DEF RemoveFilteredPolicy, Returns, CleanInv, TableIsModel
<1>8. QED
  BY <1>1, <1>2, <1>3, <1>4, <1>5, <1>6, <1>7 DEF Next, CreateEnforcer, LoadPolicy

LEMMA StorageClean ==
  ASSUME CleanRules, CleanFilters
  PROVE  Spec => []CleanInv
<1>1. Init => CleanInv
  BY InitClean
<1>2. CleanInv /\ [Next]_vars => CleanInv'
  BY StepClean
<1>3. QED
  BY <1>1, <1>2, PTL DEF Spec

(* The table has one row for each rule in memory and no other.             *)
THEOREM StorageTableIsModel ==
  ASSUME CleanRules, CleanFilters
  PROVE  Spec => []TableIsModel
<1>1. CleanInv => TableIsModel
  BY DEF CleanInv
<1>2. QED
  BY <1>1, StorageClean, PTL

(* So a reload changes nothing.                                            *)
THEOREM StorageSameRules ==
  ASSUME CleanRules, CleanFilters
  PROVE  Spec => []SameRules
<1>1. TableIsModel => SameRules
  BY LinesAreModel DEF SameRules
<1>2. QED
  BY <1>1, StorageTableIsModel, PTL

(* And no call fails by itself or is undefined.                            *)
THEOREM StorageCallsSucceed ==
  ASSUME CleanRules, CleanFilters
  PROVE  Spec => []CallsSucceed
<1>1. CleanInv => CallsSucceed
  BY DEF CleanInv, CallsSucceed
<1>2. QED
  BY <1>1, StorageClean, PTL

-----------------------------------------------------------------------------
(* Each call is a step of the storage, or leaves it as it is.              *)
LEMMA StepImplements ==
  ASSUME CleanRules, CleanFilters, CleanInv, [Next]_vars
  PROVE  [Storage!Next]_(Lines(table))
<1>1. Lines(table) = model /\ model \in SUBSET Rules
  BY LinesAreModel DEF CleanInv
<1>2. CleanInv'
  BY StepClean
<1>3. Lines(table)' = model'
  <2>1. model' \in SUBSET Rules /\ table' = {Row(r) : r \in model'}
    BY <1>2 DEF CleanInv, TableIsModel
  <2>2. Lines(table') = model'
    BY <2>1, LinesOfRows
  <2>3. QED
    BY <2>2 DEF Lines
<1>4. CASE CreateEnforcer \/ LoadPolicy \/ SavePolicy \/ UNCHANGED vars
  <2>1. model' = model
    BY <1>1, <1>4 DEF CreateEnforcer, LoadPolicy, Load, SavePolicy, vars
  <2>2. QED
    BY <1>1, <1>3, <2>1
<1>5. ASSUME NEW r \in Rules, AddPolicy(r) PROVE Storage!Add(r)
  BY <1>1, <1>3, <1>5 DEF AddPolicy, Storage!Add
<1>6. ASSUME NEW r \in model, RemovePolicy(r) PROVE r \in Rules /\ Storage!Remove(r)
  BY <1>1, <1>3, <1>6 DEF RemovePolicy, Storage!Remove
<1>7. ASSUME NEW f \in Filters, RemoveFilteredPolicy(f)
      PROVE  Storage!RemoveFiltered(f)
  <2>1. ~Overruns(f)
    BY CleanBounds DEF CleanFilters
  <2>2. model' = {r \in model : ~Storage!Matches(f, r)}
    BY <1>7, <2>1 DEF RemoveFilteredPolicy
  <2>3. QED
    BY <1>1, <1>3, <2>2 DEF Storage!RemoveFiltered
<1>8. QED
  BY <1>4, <1>5, <1>6, <1>7 DEF Next, Storage!Next

(* The adapter implements the storage.                                     *)
THEOREM StorageImplemented ==
  ASSUME CleanRules, CleanFilters
  PROVE  Spec => IsStorage
<1>1. Init => Storage!Init
  <2>1. CleanInv => Lines(table) \in SUBSET Rules
    BY LinesAreModel DEF CleanInv
  <2>2. QED
    BY <2>1, InitClean DEF Storage!Init
<1>2. CleanInv /\ [Next]_vars => [Storage!Next]_(Lines(table))
  BY StepImplements
<1>3. QED
  BY <1>1, <1>2, StorageClean, PTL DEF Spec, IsStorage, Storage!Spec

-----------------------------------------------------------------------------
(* What holds for all rules and filters.                                   *)

(* Every row is one without gaps: LoadPolicyLine, which leaves NULL out,   *)
(* never moves a field to another place.                                   *)
Gapless == \A row \in table : \E n \in 0 .. Columns : HasFields(row, n)

TypeInv == TypeOK /\ Gapless

LEMMA GaplessLine ==
  ASSUME NEW row, NEW n \in 0 .. Columns, HasFields(row, n)
  PROVE  /\ IsRule(Line(row)) /\ Len(Line(row).fields) <= Columns
         /\ \A i \in DOMAIN Line(row).fields : ~Line(row).fields[i].padded
<1>1. n \in Nat /\ n <= Columns
  BY DEF Columns
<1>2. /\ Line(row) = [ptype  |-> row.ptype,
                      fields |-> [k \in 1 .. n |-> Trim(row.v[k - 1])]]
      /\ \A k \in 1 .. n : row.v[k - 1] \in Fields
  BY LineOfFields
<1>3. \A k \in 1 .. n : /\ Trim(row.v[k - 1]) \in Fields
                        /\ ~Trim(row.v[k - 1]).padded
  BY <1>2, TrimmedField
<1> DEFINE s == [k \in 1 .. n |-> Trim(row.v[k - 1])]
<1>4. s \in Seq(Fields) /\ Len(s) = n /\ DOMAIN s = 1 .. n
  BY <1>1, <1>3
<1>5. \A i \in DOMAIN s : ~s[i].padded
  BY <1>3, <1>4
<1>6. Line(row).ptype = row.ptype /\ Line(row).fields = s
  BY <1>2
<1>7. QED
  BY <1>1, <1>2, <1>4, <1>5, <1>6 DEF IsRule

LEMMA RowTyped ==
  ASSUME NEW r, IsRule(r)
  PROVE  /\ Row(r).v \in [0 .. Columns - 1 -> Fields \cup {NULL}]
         /\ \E n \in 0 .. Columns : HasFields(Row(r), n)
<1>1. Width(r) \in 0 .. Columns /\ HasFields(Row(r), Width(r))
  BY RowFields
<1>2. QED
  BY <1>1 DEF HasFields

(* Escaping changes neither the number of fields nor the blanks in them.   *)
LEMMA EscapedTyped ==
  ASSUME NEW r, IsRule(r)
  PROVE  /\ IsRule(EscapedRule(r))
         /\ Len(EscapedRule(r).fields) = Len(r.fields)
         /\ DOMAIN EscapedRule(r).fields = DOMAIN r.fields
         /\ \A i \in DOMAIN r.fields :
               EscapedRule(r).fields[i].padded = r.fields[i].padded
<1> DEFINE s == [i \in DOMAIN r.fields |-> Escaped(r.fields[i])]
<1>1. r.fields \in Seq(Fields) /\ r = [ptype |-> r.ptype, fields |-> r.fields]
  BY DEF IsRule
<1>2. s \in Seq(Fields) /\ Len(s) = Len(r.fields) /\ DOMAIN s = DOMAIN r.fields
  BY <1>1, EscapedField
<1>3. \A i \in DOMAIN r.fields : s[i].padded = r.fields[i].padded
  BY <1>1, EscapedField
<1>4. EscapedRule(r) = [ptype |-> r.ptype, fields |-> s]
  BY <1>1 DEF EscapedRule
<1>5. QED
  BY <1>2, <1>3, <1>4 DEF IsRule

LEMMA SavedRowTyped ==
  ASSUME NEW r, IsRule(r)
  PROVE  /\ SavedRow(r).v \in [0 .. Columns - 1 -> Fields \cup {NULL}]
         /\ \E n \in 0 .. Columns : HasFields(SavedRow(r), n)
BY EscapedTyped, RowTyped DEF SavedRow

LEMMA LinesTyped ==
  ASSUME Gapless
  PROVE  \A r \in Lines(table) :
            /\ IsRule(r) /\ Len(r.fields) <= Columns
            /\ \A i \in DOMAIN r.fields : ~r.fields[i].padded
BY GaplessLine DEF Gapless, Lines

LEMMA InitTyped == Init => TypeInv
<1> SUFFICES ASSUME Init PROVE TypeInv
  OBVIOUS
<1>1. \A row \in table : \E r \in Rules : row = Row(r)
  BY DEF Init
<1>2. \A row \in table : /\ row.v \in [0 .. Columns - 1 -> Fields \cup {NULL}]
                         /\ \E n \in 0 .. Columns : HasFields(row, n)
  BY <1>1, RowTyped, StorageAssumption
<1>3. \A r \in model : IsRule(r)
  BY <1>2, LinesTyped DEF Init, Gapless
<1>4. QED
  BY <1>2, <1>3 DEF Init, TypeInv, TypeOK, Gapless

LEMMA StepTyped ==
  ASSUME TypeInv, [Next]_vars
  PROVE  TypeInv'
<1>1. /\ types \in Models /\ outcome \in {"ok", "failed", "undefined"}
      /\ \A r \in model : IsRule(r)
      /\ \A row \in table : row.v \in [0 .. Columns - 1 -> Fields \cup {NULL}]
      /\ \A row \in table : \E n \in 0 .. Columns : HasFields(row, n)
  BY DEF TypeInv, TypeOK, Gapless
<1> USE DEF TypeInv, TypeOK, Gapless, Returns
<1>2. CASE UNCHANGED vars
  BY <1>1, <1>2 DEF vars
<1>3. ASSUME NEW defined \in Models, Load(defined) PROVE TypeInv'
  BY <1>1, <1>3, LinesTyped DEF Load
<1>4. CASE SavePolicy
  BY <1>1, <1>4, SavedRowTyped DEF SavePolicy
<1>5. ASSUME NEW r \in Rules, AddPolicy(r) PROVE TypeInv'
  <2>1. IsRule(r)
    BY StorageAssumption
  <2>2. QED
    BY <1>1, <1>5, <2>1, RowTyped DEF AddPolicy
<1>6. ASSUME NEW r \in model, RemovePolicy(r) PROVE TypeInv'
  BY <1>1, <1>6 DEF RemovePolicy
<1>7. ASSUME NEW f \in Filters, RemoveFilteredPolicy(f) PROVE TypeInv'
  BY <1>1, <1>7 DEF RemoveFilteredPolicy
<1>8. QED
  BY <1>1, <1>2, <1>3, <1>4, <1>5, <1>6, <1>7 DEF Next, CreateEnforcer, LoadPolicy

LEMMA StorageTyped == Spec => []TypeInv
<1>1. Init => TypeInv
  BY InitTyped
<1>2. TypeInv /\ [Next]_vars => TypeInv'
  BY StepTyped
<1>3. QED
  BY <1>1, <1>2, PTL DEF Spec

(* The variables keep their types, whatever rules and filters are used.    *)
THEOREM StorageTypeOK == Spec => []TypeOK
<1>1. TypeInv => TypeOK
  BY DEF TypeInv
<1>2. QED
  BY <1>1, StorageTyped, PTL

(* No row has a column of NULL before a column with a field, however the   *)
(* rule came into the table.                                               *)
THEOREM StorageGapless == Spec => []Gapless
<1>1. TypeInv => Gapless
  BY DEF TypeInv
<1>2. QED
  BY <1>1, StorageTyped, PTL

(* What the rows of the table stand for is saved with its quotes doubled.  *)
LEMMA LinesSaved ==
  ASSUME Gapless, model = Lines(table)
  PROVE  Lines({SavedRow(r) : r \in model}) = {EscapedRule(r) : r \in model}
<1>1. ASSUME NEW r \in model PROVE Line(SavedRow(r)) = EscapedRule(r)
  <2>1. /\ IsRule(r) /\ Len(r.fields) <= Columns
        /\ \A i \in DOMAIN r.fields : ~r.fields[i].padded
    BY LinesTyped
  <2>2. /\ IsRule(EscapedRule(r)) /\ Len(EscapedRule(r).fields) <= Columns
        /\ \A i \in DOMAIN EscapedRule(r).fields : ~EscapedRule(r).fields[i].padded
    BY <2>1, EscapedTyped
  <2>3. QED
    BY <2>2, LineOfTrimmed DEF SavedRow
<1>2. QED
  BY <1>1 DEF Lines

(* Whatever blanks or quotes the rules had and however long they were:     *)
(* once loaded, each is saved with its quotes doubled and otherwise as it  *)
(* is, and read back so (SavePolicy, 92 and 109).                          *)
THEOREM StorageSavesLoaded == Spec => SavesLoaded
<1>1. ASSUME Gapless, SavePolicy, model = Lines(table)
      PROVE  Lines(table') = {EscapedRule(r) : r \in model}
  BY <1>1, LinesSaved DEF SavePolicy
<1>2. Gapless => [SavePolicy /\ model = Lines(table)
                    => Lines(table') = {EscapedRule(r) : r \in model}]_vars
  BY <1>1
<1>3. QED
  BY <1>2, StorageGapless, PTL DEF SavesLoaded

-----------------------------------------------------------------------------
(* Clean rules with any filters.                                           *)

(* The rows of the table, and the rules in memory, are those of callers.   *)
OwnRules == model \subseteq Rules /\ table \subseteq {Row(r) : r \in Rules}

LEMMA OwnLines ==
  ASSUME CleanRules, NEW S \in SUBSET {Row(r) : r \in Rules}
  PROVE  /\ Lines(S) \subseteq Rules
         /\ \A r \in Rules : r \in Lines(S) <=> Row(r) \in S
BY LineOfRow DEF Lines

LEMMA StepOwn ==
  ASSUME CleanRules, OwnRules, [Next]_vars
  PROVE  OwnRules'
<1> USE DEF OwnRules
<1>1. CASE UNCHANGED vars
  BY <1>1 DEF vars
<1>2. ASSUME NEW defined, Load(defined) PROVE OwnRules'
  BY <1>2, OwnLines DEF Load
<1>3. CASE SavePolicy
  <2>1. \A r \in model : SavedRow(r) = Row(r)
    BY SavedAsAdded
  <2>2. QED
    BY <1>3, <2>1 DEF SavePolicy
<1>4. ASSUME NEW r \in Rules, AddPolicy(r) PROVE OwnRules'
  BY <1>4 DEF AddPolicy
<1>5. ASSUME NEW r \in model, RemovePolicy(r) PROVE OwnRules'
  BY <1>5 DEF RemovePolicy
<1>6. ASSUME NEW f \in Filters, RemoveFilteredPolicy(f) PROVE OwnRules'
  BY <1>6 DEF RemoveFilteredPolicy
<1>7. QED
  BY <1>1, <1>2, <1>3, <1>4, <1>5, <1>6 DEF Next, CreateEnforcer, LoadPolicy

LEMMA InitOwn ==
  ASSUME CleanRules, Init
  PROVE  OwnRules /\ model = Lines(table)
<1>1. table \subseteq {Row(r) : r \in Rules} /\ model = Lines(table)
  BY DEF Init
<1>2. QED
  BY <1>1, OwnLines DEF OwnRules

LEMMA StorageOwn ==
  ASSUME CleanRules
  PROVE  Spec => []OwnRules
<1>1. Init => OwnRules
  BY InitOwn
<1>2. OwnRules /\ [Next]_vars => OwnRules'
  BY StepOwn
<1>3. QED
  BY <1>1, <1>2, PTL DEF Spec

(* A clean filter removes the rules that match it from the table, and no   *)
(* others, whatever filters were used before it: a call that parted the    *)
(* two copies does not make later calls remove the wrong rows.             *)
CleanFilterRemoves(f) ==
    CleanFilter(f) /\ RemoveFilteredPolicy(f) =>
       Lines(table') = {r \in Lines(table) : ~Storage!Matches(f, r)}

LEMMA StepRemoves ==
  ASSUME CleanRules, OwnRules, NEW f \in Filters
  PROVE  CleanFilterRemoves(f)
<1> SUFFICES ASSUME CleanFilter(f), RemoveFilteredPolicy(f)
             PROVE  Lines(table') = {r \in Lines(table) : ~Storage!Matches(f, r)}
  BY DEF CleanFilterRemoves
<1>1. ~Overruns(f) /\ ~NoSuchColumn(f)
  BY CleanBounds
<1>2. table' = {row \in table : ~Selects(f, row)}
  BY <1>1 DEF RemoveFilteredPolicy
<1>3. table \in SUBSET {Row(r) : r \in Rules}
  BY DEF OwnRules
<1>4. \A r \in Rules : Selects(f, Row(r)) <=> Storage!Matches(f, r)
  BY CleanSelects
<1>5. Lines(table) \subseteq Rules /\ Lines(table') \subseteq Rules
  BY <1>2, <1>3, OwnLines
<1>6. ASSUME NEW r \in Rules
      PROVE  r \in Lines(table') <=> r \in Lines(table) /\ ~Storage!Matches(f, r)
  <2>1. r \in Lines(table) <=> Row(r) \in table
    BY <1>3, OwnLines
  <2>2. r \in Lines(table') <=> Row(r) \in table'
    BY <1>2, <1>3, OwnLines
  <2>3. QED
    BY <1>2, <1>4, <2>1, <2>2
<1>7. QED
  BY <1>5, <1>6

(* A deletion with one clean filter takes exactly the rules that match it  *)
(* from the table, whatever filters were used before                       *)
(* (RemoveFilteredPolicy, 190-210).                                        *)
THEOREM StorageCleanFilterRemoves ==
  ASSUME CleanRules
  PROVE  Spec => [][\A f \in Filters : CleanFilterRemoves(f)]_vars
<1>1. OwnRules => [\A f \in Filters : CleanFilterRemoves(f)]_vars
  BY StepRemoves
<1>2. QED
  BY <1>1, StorageOwn, PTL

(* With clean filters only, RemoveFilteredPolicy keeps its promise.        *)
THEOREM StorageRemovesMatching ==
  ASSUME CleanRules, CleanFilters
  PROVE  Spec => RemovesMatching
<1>1. OwnRules => [\A f \in Filters : RemoveFilteredPolicy(f) =>
                      Lines(table') = {r \in Lines(table) : ~Storage!Matches(f, r)}]_vars
  BY StepRemoves DEF CleanFilterRemoves, CleanFilters
<1>2. QED
  BY <1>1, StorageOwn, PTL DEF RemovesMatching

(* As long as no filter starts before the first field, the adapter may     *)
(* keep rules that casbin has removed, but never loses one that casbin     *)
(* still has: for an empty value, or one beyond the last column, it        *)
(* removes too little and never too much.                                  *)
NothingLost == model \subseteq Lines(table)

NaturalFilters == \A f \in Filters : f.index \in Nat

LEMMA StepNothingLost ==
  ASSUME CleanRules, NaturalFilters, OwnRules, NothingLost, [Next]_vars
  PROVE  NothingLost'
<1>1. model \subseteq Rules /\ table \in SUBSET {Row(r) : r \in Rules}
  BY DEF OwnRules
<1>2. OwnRules'
  BY StepOwn
<1>3. model' \subseteq Rules /\ table' \in SUBSET {Row(r) : r \in Rules}
  BY <1>2 DEF OwnRules
<1>4. \A r \in model : Row(r) \in table
  BY <1>1, OwnLines DEF NothingLost
<1> SUFFICES \A r \in model' : Row(r) \in table'
  BY <1>3, OwnLines DEF NothingLost, Lines
<1>5. CASE UNCHANGED vars
  BY <1>4, <1>5 DEF vars
<1>6. ASSUME NEW defined, Load(defined) PROVE \A r \in model' : Row(r) \in table'
  <2>1. \A r \in Lines(table) : Row(r) \in table
    BY <1>1, OwnLines
  <2>2. QED
    BY <1>4, <1>6, <2>1 DEF Load
<1>7. CASE SavePolicy
  <2>1. \A r \in model : SavedRow(r) = Row(r)
    BY <1>1, SavedAsAdded
  <2>2. QED
    BY <1>7, <2>1 DEF SavePolicy
<1>8. ASSUME NEW r \in Rules, AddPolicy(r) PROVE \A q \in model' : Row(q) \in table'
  BY <1>4, <1>8 DEF AddPolicy
<1>9. ASSUME NEW r \in model, RemovePolicy(r)
      PROVE  \A q \in model' : Row(q) \in table'
  <2>1. \A q \in model : Equal(r, Row(q)) <=> q = r
    BY <1>1, EqualToOwnRow
  <2>2. QED
    BY <1>4, <1>9, <2>1 DEF RemovePolicy
<1>10. ASSUME NEW f \in Filters, RemoveFilteredPolicy(f)
       PROVE  \A q \in model' : Row(q) \in table'
  <2>1. CASE Overruns(f)
    BY <1>4, <1>10, <2>1 DEF RemoveFilteredPolicy
  <2>2. CASE ~Overruns(f) /\ NoSuchColumn(f)
    BY <1>4, <1>10, <2>2 DEF RemoveFilteredPolicy
  <2>3. CASE ~Overruns(f) /\ ~NoSuchColumn(f)
    <3>1. \A q \in model : Selects(f, Row(q)) => Storage!Matches(f, q)
      BY <1>1, <2>3, SelectsMatching DEF NaturalFilters
    <3>2. /\ model' = {q \in model : ~Storage!Matches(f, q)}
          /\ table' = {row \in table : ~Selects(f, row)}
      BY <1>10, <2>3 DEF RemoveFilteredPolicy
    <3>3. QED
      BY <1>4, <3>1, <3>2
  <2>4. QED
    BY <2>1, <2>2, <2>3
<1>11. QED
  BY <1>5, <1>6, <1>7, <1>8, <1>9, <1>10 DEF Next, CreateEnforcer, LoadPolicy

(* Deletions with any filter that does not start before the first field,   *)
(* empty values included, never take a rule from the table that casbin     *)
(* still has in memory.                                                    *)
THEOREM StorageNothingLost ==
  ASSUME CleanRules, NaturalFilters
  PROVE  Spec => []NothingLost
<1>1. Init => NothingLost
  BY InitOwn DEF NothingLost
<1>2. OwnRules /\ NothingLost /\ [Next]_vars => NothingLost'
  BY StepNothingLost
<1>3. QED
  BY <1>1, <1>2, StorageOwn, PTL DEF Spec

-----------------------------------------------------------------------------
(* What an addition leaves in the table, for every rule.                   *)

(* What is left of a rule that has gone through the table.                 *)
Kept(r) == [ptype  |-> r.ptype,
            fields |-> [k \in 1 .. Width(r) |-> Trim(r.fields[k])]]

LEMMA StepAdds ==
  ASSUME NEW r \in Rules, AddPolicy(r)
  PROVE  Lines(table') = Lines(table) \cup {Kept(r)}
<1>1. table' = table \cup {Row(r)}
  BY DEF AddPolicy
<1>2. Line(Row(r)) = Kept(r)
  BY StorageAssumption, LineOfRule DEF Kept
<1>3. QED
  BY <1>1, <1>2 DEF Lines

(* AddPolicy takes no other rule from the table and puts there the first   *)
(* seven fields of the new one, trimmed: with eight fields it is another   *)
(* rule, and one that the table may have had already.                      *)
THEOREM StorageAddsKept ==
  Spec => [][\A r \in Rules : AddPolicy(r) =>
                Lines(table') = Lines(table) \cup {Kept(r)}]_vars
<1>1. [\A r \in Rules : AddPolicy(r) =>
          Lines(table') = Lines(table) \cup {Kept(r)}]_vars
  BY StepAdds
<1>2. QED
  BY <1>1, PTL

(* So AddPolicy keeps its promise for the rules that fit, with quotes or   *)
(* without, and whatever else is in the table.                             *)
THEOREM StorageAddsRule ==
  ASSUME \A r \in Rules : /\ Len(r.fields) <= Columns
                          /\ \A i \in DOMAIN r.fields : ~r.fields[i].padded
  PROVE  Spec => [][\A r \in Rules : AddPolicy(r) =>
                       Lines(table') = Lines(table) \cup {r}]_vars
<1>1. \A r \in Rules : Kept(r) = r
  BY StorageAssumption, LineOfRule, LineOfTrimmed DEF Kept
<1>2. [\A r \in Rules : AddPolicy(r) => Lines(table') = Lines(table) \cup {r}]_vars
  BY <1>1, StepAdds
<1>3. QED
  BY <1>2, PTL

-----------------------------------------------------------------------------
(* The types of the rows, and the loop over a filter's columns.            *)

TypesKnown == \A row \in table : row.ptype \in types

ModelTyped == \A r \in model : r.ptype \in types

LEMMA StepKnown ==
  ASSUME TypesKnown, ModelTyped, [Next]_vars
  PROVE  TypesKnown' /\ ModelTyped'
<1> USE DEF TypesKnown, ModelTyped
<1>1. CASE UNCHANGED vars
  BY <1>1 DEF vars
<1>2. ASSUME NEW defined \in Models, Load(defined) PROVE TypesKnown' /\ ModelTyped'
  BY <1>2 DEF Load, Lines, Line
<1>3. CASE SavePolicy
  <2>1. \A r \in model : SavedRow(r).ptype = r.ptype
    BY DEF SavedRow, EscapedRule, Row
  <2>2. QED
    BY <1>3, <2>1 DEF SavePolicy
<1>4. ASSUME NEW r, AddPolicy(r) \/ RemovePolicy(r) PROVE TypesKnown' /\ ModelTyped'
  BY <1>4 DEF AddPolicy, RemovePolicy, Row
<1>5. ASSUME NEW f, RemoveFilteredPolicy(f) PROVE TypesKnown' /\ ModelTyped'
  BY <1>5 DEF RemoveFilteredPolicy
<1>6. ASSUME LoadPolicy PROVE TypesKnown' /\ ModelTyped'
  BY <1>6 DEF LoadPolicy, Load, Lines, Line
<1>7. QED
  BY <1>1, <1>2, <1>3, <1>4, <1>5, <1>6 DEF Next, CreateEnforcer

(* No row ever has a type that the enforcer's model does not define.       *)
THEOREM StorageEveryRowLoadable == Spec => []EveryRowLoadable
<1>1. Init => TypesKnown /\ ModelTyped
  BY DEF Init, TypesKnown, ModelTyped, Lines, Line, Row
<1>2. TypesKnown /\ ModelTyped /\ [Next]_vars => TypesKnown' /\ ModelTyped'
  BY StepKnown
<1>3. TypesKnown => EveryRowLoadable
  BY DEF TypesKnown, EveryRowLoadable
<1>4. QED
  BY <1>1, <1>2, <1>3, PTL DEF Spec

LEMMA NegativeRemainder ==
  ASSUME NEW a \in Int, NEW b \in Nat, 0 < b, a < 0, 0 <= a + b
  PROVE  a % b = a + b
OBVIOUS

LEMMA NoOverrun ==
  ASSUME NEW f \in Filters, 0 <= f.index + Len(f.values)
  PROVE  ~Overruns(f)
<1> DEFINE i == f.index
           n == Len(f.values)
<1>1. IsFilter(f) /\ UIntRange \in Nat /\ SizeRange \in Nat
  BY StorageAssumption
<1>2. i \in Int /\ n \in Nat
  BY <1>1 DEF IsFilter
<1>3. /\ -UIntRange <= 2 * i /\ 2 * i < UIntRange
      /\ n + UIntRange < SizeRange /\ 0 <= i + n
  BY <1>1 DEF IsFilter
<1>4. Bound(f) = (n + i) % SizeRange /\ First(f) = i % UIntRange
  BY DEF Bound, First
<1> HIDE DEF i, n
<1>5. n + i \in Nat /\ n + i < SizeRange
  BY <1>1, <1>2, <1>3
<1>6. Bound(f) = n + i
  BY <1>1, <1>4, <1>5, SmallRemainder
<1>7. First(f) = i \/ First(f) = i + UIntRange
  <2>1. CASE 0 <= i
    <3>1. i \in Nat /\ i < UIntRange
      BY <1>1, <1>2, <1>3, <2>1
    <3>2. QED
      BY <1>1, <1>4, <3>1, SmallRemainder
  <2>2. CASE i < 0
    <3>1. 0 < UIntRange /\ 0 <= i + UIntRange
      BY <1>1, <1>2, <1>3, <2>2
    <3>2. QED
      BY <1>1, <1>2, <1>4, <2>2, <3>1, NegativeRemainder
  <2>3. QED
    BY <1>2, <2>1, <2>2
<1>8. ~(Bound(f) - First(f) > n)
  BY <1>1, <1>2, <1>6, <1>7
<1>9. QED
  BY <1>8 DEF Overruns, n

(* For every width of the integers and every filter, the loop of           *)
(* RemoveFilteredPolicy stays within the values unless the filter lies     *)
(* entirely before the first field.                                        *)
THEOREM StorageOverrunOnlyBelow == Spec => OverrunOnlyBelow
<1>1. ASSUME [Next]_vars, outcome # "undefined", NEW f \in Filters,
             RemoveFilteredPolicy(f), outcome' = "undefined"
      PROVE  f.index + Len(f.values) < 0
  <2>1. Overruns(f)
    BY <1>1 DEF RemoveFilteredPolicy, Returns
  <2>2. ~(0 <= f.index + Len(f.values))
    BY <2>1, NoOverrun
  <2>3. f.index \in Int /\ Len(f.values) \in Nat
    BY StorageAssumption DEF IsFilter
  <2>4. QED
    BY <2>2, <2>3
<1>2. [Next]_vars =>
        [\A f \in Filters : RemoveFilteredPolicy(f) /\ outcome' = "undefined"
            => f.index + Len(f.values) < 0]_vars
  BY <1>1 DEF RemoveFilteredPolicy, Returns
<1>3. QED
  BY <1>2, PTL DEF Spec, OverrunOnlyBelow
=============================================================================
