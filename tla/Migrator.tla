------------------------------ MODULE Migrator ------------------------------
(***************************************************************************)
(* RunMigrations (c_src/migrator.cpp), which the constructor of PgAdapter  *)
(* runs: count the columns of casbin_rule, create the table if there are   *)
(* none, add the column v6 if there are eight.  The count and the change   *)
(* are transactions of their own, so adapters of several VMs that start    *)
(* together interleave between them, and each may throw: the server        *)
(* refuses a statement, or the connection is lost, also during the commit. *)
(***************************************************************************)
EXTENDS Naturals

CONSTANTS Adapters,      \* the adapters that may be constructed
          OtherColumns,  \* columns of a casbin_rule in another schema, or 0
          MaxFaults      \* bound: statements that throw, VMs that die

ASSUME MigratorAssumption == OtherColumns \in Nat /\ MaxFaults \in Nat

VARIABLES columns,       \* columns of the table that casbin_rule names
          pc,            \* where each adapter is
          faults

vars == <<columns, pc, faults>>

(* No table, the one of earlier releases without v6, the present one.      *)
Tables == {0, 8, 9}

Location == {"idle", "select", "create", "alter", "migrated", "failed"}

Init == /\ columns \in Tables
        /\ pc = [a \in Adapters |-> "idle"]
        /\ faults = 0

Goto(a, from, to) == /\ pc[a] = from
                     /\ pc' = [pc EXCEPT ![a] = to]

Fault == faults < MaxFaults /\ faults' = faults + 1

-----------------------------------------------------------------------------
(* createEnforcer constructs an adapter; a failed one may be tried again.  *)
Start(a) == /\ pc[a] \in {"idle", "migrated", "failed"}
            /\ pc' = [pc EXCEPT ![a] = "select"]
            /\ UNCHANGED <<columns, faults>>

(* information_schema.columns lists the tables of all schemas.             *)
Count == columns + OtherColumns

(* Mutant: the test for an old table is true of no table as well.          *)
TestBelow9(n) == IF n < 9 THEN "alter" ELSE "migrated"

(* What RunMigrations does when the query finds n columns; it tests for 8  *)
(* after createTable, but tests the same answer.                           *)
Test(n) == CASE n = 0 -> "create"
             [] n = 8 -> "alter"
             [] OTHER -> "migrated"

Select(a) == /\ \/ Goto(a, "select", Test(Count)) /\ UNCHANGED faults
                \/ Goto(a, "select", "failed") /\ Fault
             /\ UNCHANGED columns

(* A transaction that throws has changed nothing, or, if the connection is *)
(* lost during its commit, may have changed the table to n columns.        *)
Throws(a, from, n) == /\ Goto(a, from, "failed")
                      /\ Fault
                      /\ columns' \in {columns, n}

(* Mutant: the table is created without v6.                                *)
CreateOldTable(a) ==
    \/ /\ columns = 0
       /\ Goto(a, "create", "migrated")
       /\ columns' = 8
       /\ UNCHANGED faults
    \/ /\ columns # 0
       /\ Goto(a, "create", "migrated") \/ Goto(a, "create", "failed")
       /\ UNCHANGED <<columns, faults>>
    \/ Throws(a, "create", IF columns = 0 THEN 8 ELSE columns)

(* CREATE TABLE IF NOT EXISTS leaves a table that has appeared since as it *)
(* is, or fails when the other creation commits while it runs.             *)
CreateTable(a) ==
    \/ /\ columns = 0
       /\ Goto(a, "create", "migrated")
       /\ columns' = 9
       /\ UNCHANGED faults
    \/ /\ columns # 0
       /\ Goto(a, "create", "migrated") \/ Goto(a, "create", "failed")
       /\ UNCHANGED <<columns, faults>>
    \/ Throws(a, "create", IF columns = 0 THEN 9 ELSE columns)

(* Mutant: a column is added whatever columns there are.                   *)
AddColumn(a) == /\ Goto(a, "alter", "migrated")
                /\ columns' = columns + 1
                /\ UNCHANGED faults

(* ADD COLUMN fails when there is such a column, or no such table.         *)
AddV6Column(a) ==
    \/ /\ columns = 8
       /\ Goto(a, "alter", "migrated")
       /\ columns' = 9
       /\ UNCHANGED faults
    \/ /\ columns # 8
       /\ Goto(a, "alter", "failed")
       /\ UNCHANGED <<columns, faults>>
    \/ Throws(a, "alter", IF columns = 8 THEN 9 ELSE columns)

(* The VM of the adapter dies; what is not committed has not happened.     *)
Crash(a) == /\ pc[a] \in {"select", "create", "alter"}
            /\ pc' = [pc EXCEPT ![a] = "idle"]
            /\ Fault
            /\ UNCHANGED columns

RunMigrations(a) == Select(a) \/ CreateTable(a) \/ AddV6Column(a)

Next == \E a \in Adapters : Start(a) \/ RunMigrations(a) \/ Crash(a)

SafetySpec == Init /\ [][Next]_vars

(* RunMigrations runs on: each of its statements returns or throws.        *)
Spec == SafetySpec /\ \A a \in Adapters : WF_vars(RunMigrations(a))

-----------------------------------------------------------------------------
(* The variables' types; the table is always one that some release knows.  *)
TypeOK == /\ columns \in Tables
          /\ pc \in [Adapters -> Location]
          /\ faults \in 0 .. MaxFaults

(* When RunMigrations returns, the table has all the columns that the      *)
(* adapter reads and writes, whatever other adapters did meanwhile.        *)
MigratedHasV6 == \A a \in Adapters : pc[a] = "migrated" => columns = 9

(* A migration fails where a statement is refused or the connection lost,  *)
(* and otherwise only because another adapter has done all of the work:    *)
(* the answer it acts on may be old, but never makes it try what cannot    *)
(* succeed on a table that still needs it.                                 *)
FailedWasOvertaken ==
    [][\A a \in Adapters : pc[a] # "failed" /\ pc'[a] = "failed"
          => columns = 9 \/ faults' > faults]_vars

(* An adapter that is constructed again and again, because its migrations  *)
(* fail, succeeds once the faults have ended, wherever they left the table *)
(* and whatever the other adapters did.                                    *)
RetriesMigrate ==
    \A a \in Adapters : []<>(pc[a] = "select") => []<>(pc[a] = "migrated")

-----------------------------------------------------------------------------
(* What the answer of the query says later: the table never loses columns, *)
(* and from the state that was counted it goes to the present one only.    *)
AnswerInv == \A a \in Adapters :
                /\ pc[a] = "create" => columns \in {0, 9}
                /\ pc[a] = "alter" => columns \in {8, 9}

IInv == TypeOK /\ AnswerInv /\ MigratedHasV6
=============================================================================
