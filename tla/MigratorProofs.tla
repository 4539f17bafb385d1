--------------------------- MODULE MigratorProofs ---------------------------
(***************************************************************************)
(* The invariants of module Migrator for any number of adapters, when no   *)
(* other schema has a table casbin_rule.                                   *)
(***************************************************************************)
EXTENDS Migrator, TLAPS

LEMMA FaultTyped == TypeOK /\ Fault => /\ faults' \in 0 .. MaxFaults
                                       /\ faults' > faults
BY MigratorAssumption DEF TypeOK, Fault

(* What an adapter does about the table it found.                          *)
LEMMA SelectAnswer ==
  ASSUME OtherColumns = 0, IInv, NEW a \in Adapters, Select(a)
  PROVE  /\ columns' = columns
         /\ faults' \in 0 .. MaxFaults
         /\ \/ columns = 0 /\ pc' = [pc EXCEPT ![a] = "create"]
            \/ columns = 8 /\ pc' = [pc EXCEPT ![a] = "alter"]
            \/ columns = 9 /\ pc' = [pc EXCEPT ![a] = "migrated"]
            \/ faults' > faults /\ pc' = [pc EXCEPT ![a] = "failed"]
<1>1. columns \in {0, 8, 9} /\ Count = columns
  BY DEF Count, IInv, TypeOK, Tables
<1>2. Test(0) = "create" /\ Test(8) = "alter" /\ Test(9) = "migrated"
  BY DEF Test
<1>3. columns' = columns
  BY DEF Select
<1>4. CASE Goto(a, "select", Test(Count)) /\ UNCHANGED faults
  BY <1>1, <1>2, <1>3, <1>4 DEF Goto, IInv, TypeOK
<1>5. CASE Goto(a, "select", "failed") /\ Fault
  BY <1>3, <1>5, FaultTyped DEF Goto, IInv
<1>6. QED
  BY <1>4, <1>5 DEF Select

(* The step of one adapter keeps the invariant.                            *)
LEMMA StepIInv ==
  ASSUME OtherColumns = 0
  PROVE  IInv /\ [Next]_vars => IInv'
<1> SUFFICES ASSUME IInv, [Next]_vars PROVE IInv'
  OBVIOUS
<1>f. Fault => faults' \in 0 .. MaxFaults
  BY FaultTyped DEF IInv
<1> USE DEF IInv, TypeOK, AnswerInv, MigratedHasV6, Location, Tables
<1>1. CASE UNCHANGED vars
  BY <1>1 DEF vars
<1>2. ASSUME NEW a \in Adapters, Start(a) \/ Crash(a) PROVE IInv'
  BY <1>f, <1>2 DEF Start, Crash
<1>3. ASSUME NEW a \in Adapters, Select(a) PROVE IInv'
  <2>1. /\ columns' = columns
        /\ faults' \in 0 .. MaxFaults
        /\ \/ columns = 0 /\ pc' = [pc EXCEPT ![a] = "create"]
           \/ columns = 8 /\ pc' = [pc EXCEPT ![a] = "alter"]
           \/ columns = 9 /\ pc' = [pc EXCEPT ![a] = "migrated"]
           \/ pc' = [pc EXCEPT ![a] = "failed"]
    BY <1>3, SelectAnswer
  <2>2. QED
    BY <2>1
<1>4. ASSUME NEW a \in Adapters, CreateTable(a) PROVE IInv'
  <2>1. CASE columns = 0
    BY <1>f, <1>4, <2>1 DEF CreateTable, Throws, Goto
  <2>2. CASE columns # 0
    BY <1>f, <1>4, <2>2 DEF CreateTable, Throws, Goto
  <2>3. QED
    BY <2>1, <2>2
<1>5. ASSUME NEW a \in Adapters, AddV6Column(a) PROVE IInv'
  BY <1>f, <1>5 DEF AddV6Column, Throws, Goto
<1>6. QED
  BY <1>1, <1>2, <1>3, <1>4, <1>5 DEF Next, RunMigrations

LEMMA InitIInv == Init => IInv
BY MigratorAssumption DEF Init, IInv, TypeOK, AnswerInv, MigratedHasV6, Location

-----------------------------------------------------------------------------
(* The inductive invariant, of every behaviour.                            *)
THEOREM MigratorIInv ==
  ASSUME OtherColumns = 0
  PROVE  SafetySpec => []IInv
<1>1. QED
  BY InitIInv, StepIInv, PTL DEF SafetySpec

(* The table is always one that some release knows.                        *)
THEOREM MigratorTypeOK ==
  ASSUME OtherColumns = 0
  PROVE  SafetySpec => []TypeOK
<1>1. IInv => TypeOK
  BY DEF IInv
<1>2. QED
  BY <1>1, MigratorIInv, PTL

(* When RunMigrations returns, the table has all its columns.              *)
THEOREM MigratorHasV6 ==
  ASSUME OtherColumns = 0
  PROVE  SafetySpec => []MigratedHasV6
<1>1. IInv => MigratedHasV6
  BY DEF IInv
<1>2. QED
  BY <1>1, MigratorIInv, PTL

(* Each of the three steps of RunMigrations, as long as it is not refused: *)
(* on the answer it acts on it can fail only where the work is done.       *)
LEMMA StepOvertaken ==
  ASSUME OtherColumns = 0, IInv, NEW a \in Adapters, NEW b \in Adapters,
         Start(b) \/ RunMigrations(b) \/ Crash(b),
         pc[a] # "failed", pc'[a] = "failed"
  PROVE  columns = 9 \/ faults' > faults
<1>1. Fault => faults' > faults
  BY FaultTyped DEF IInv
<1>2. pc \in [Adapters -> Location]
  BY DEF IInv, TypeOK
<1>3. CASE Start(b) \/ Crash(b)
  BY <1>2, <1>3 DEF Start, Crash
<1>4. CASE Select(b)
  BY <1>2, <1>4, SelectAnswer
<1>5. CASE CreateTable(b)
  BY <1>1, <1>2, <1>5 DEF CreateTable, Throws, Goto, IInv, AnswerInv
<1>6. CASE AddV6Column(b)
  BY <1>1, <1>2, <1>6 DEF AddV6Column, Throws, Goto, IInv, AnswerInv
<1>7. QED
  BY <1>3, <1>4, <1>5, <1>6 DEF RunMigrations

(* Unless a statement is refused or the connection lost, a migration fails *)
(* only where another adapter has done the work.                           *)
THEOREM MigratorFailedWasOvertaken ==
  ASSUME OtherColumns = 0
  PROVE  SafetySpec => FailedWasOvertaken
<1>1. IInv /\ [Next]_vars
        => [\A a \in Adapters : pc[a] # "failed" /\ pc'[a] = "failed"
              => columns = 9 \/ faults' > faults]_vars
  BY StepOvertaken DEF Next
<1>2. QED
  BY <1>1, MigratorIInv, PTL DEF SafetySpec, FailedWasOvertaken
=============================================================================
