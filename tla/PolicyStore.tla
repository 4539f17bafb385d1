---------------------------- MODULE PolicyStore -----------------------------
(***************************************************************************)
(* The two copies of the rules: those in the memory of the enforcer that   *)
(* the NIF created (casbin's model, external) and the rows of the table    *)
(* casbin_rule that PgAdapter writes (c_src/pg_adapter.cpp).  Calls come   *)
(* one at a time; what can go wrong is the database and the VM.  casbin    *)
(* changes its memory first and then calls the adapter, which runs each    *)
(* statement in a transaction of its own and throws when it fails.         *)
(*                                                                         *)
(* Memory and table hold copies of rules: the table has no uniqueness      *)
(* constraint and LoadPolicy appends what it reads.                        *)
(***************************************************************************)
EXTENDS Rbac, FiniteSets

CONSTANTS MaxFaults,      \* bound: database failures and crashes
          TableInPolarity \* casbin_rule, unqualified, is polarity.casbin_rule

ASSUME StoreAssumption == MaxFaults \in Nat /\ TableInPolarity \in BOOLEAN

VARIABLES pc,        \* "down" without an enforcer, "idle", or inside a call
          memory,    \* copies of each rule in the enforcer
          rows,      \* copies of each rule in the table
          todo,      \* what the call has still to do
          done,      \* rules of the parts of the call that are committed
          faults,    \* failures and crashes so far
          promised,  \* what callers were last told of each rule
          suspect    \* rules whose copies may differ

vars == <<pc, memory, rows, todo, done, faults, promised, suspect>>

Copies == [Rules -> Nat]
None   == [r \in Rules |-> 0]

Present(copies) == {r \in Rules : copies[r] > 0}

Part == Head(todo.parts)

Init == /\ pc = "down"
        /\ memory = None
        /\ rows \in [Rules -> 0 .. 1]
        /\ todo = NoOp
        /\ done = {}
        /\ faults = 0
        /\ promised = [r \in Rules |-> "unknown"]
        /\ suspect = {}

-----------------------------------------------------------------------------
(* Mutants: no rules are loaded, or they are twice, without ClearPolicy.   *)
CreateEmpty == /\ pc \in {"down", "idle"}
               /\ pc' = "idle"
               /\ memory' = None
               /\ suspect' = {}
               /\ UNCHANGED <<rows, todo, done, faults, promised>>

CreateDouble == /\ pc \in {"down", "idle"}
                /\ pc' = "idle"
                /\ memory' = [r \in Rules |-> 2 * rows[r]]
                /\ suspect' = {r \in Rules : rows[r] > 1}
                /\ UNCHANGED <<rows, todo, done, faults, promised>>

(* CreateEnforcer: LoadPolicy appends every row to an empty model.  It may *)
(* also replace an enforcer; when it throws, nothing changes.              *)
CreateEnforcer == /\ pc \in {"down", "idle"}
                  /\ pc' = "idle"
                  /\ memory' = rows
                  /\ suspect' = {r \in Rules : rows[r] > 1}
                  /\ UNCHANGED <<rows, todo, done, faults, promised>>

DestroyEnforcer == /\ pc \in {"down", "idle"}
                   /\ pc' = "down"
                   /\ memory' = None
                   /\ UNCHANGED <<rows, todo, done, faults, promised, suspect>>

Call(ops) == /\ pc = "idle"
             /\ pc' = "memory"
             /\ todo' \in ops
             /\ UNCHANGED <<memory, rows, done, faults, promised, suspect>>

AddPolicy            == Call(AddPolicyOps)
RemovePolicy         == Call(RemovePolicyOps)
RemoveFilteredPolicy == Call(RemoveFilteredPolicyOps)
AddGroupingPolicy    == Call(AddGroupingPolicyOps)
AddRoleForUser       == Call(AddRoleForUserOps)
AddRolesForUser      == Call(AddRolesForUserOps)
DeleteRoleForUser    == Call(DeleteRoleForUserOps)
DeleteRolesForUser   == Call(DeleteRolesForUserOps)
DeleteRole           == Call(DeleteRoleOps)

-----------------------------------------------------------------------------
(* casbin's change of its memory.                                          *)

Effective == IF todo.how = "add" THEN Part \cap Present(memory) = {}
                                 ELSE Part \cap Present(memory) # {}

(* "remove" erases the first copy only.                                    *)
Changed(n) == CASE todo.how = "add"    -> n + 1
                [] todo.how = "remove" -> IF n > 0 THEN n - 1 ELSE 0
                [] todo.how = "filter" -> 0

ChangeMemory ==
    /\ pc = "memory"
    /\ Effective
    /\ pc' = "adapter"
    /\ memory' = [r \in Rules |-> IF r \in Part THEN Changed(memory[r])
                                                ELSE memory[r]]
    /\ promised' = [r \in Rules |-> IF r \in Part THEN "unknown"
                                                  ELSE promised[r]]
    /\ UNCHANGED <<rows, todo, done, faults, suspect>>

(* On to the next part, or to the answer.                                  *)
Advance == /\ todo' = Op(todo.how, Tail(todo.parts))
           /\ pc' = IF Len(todo.parts) > 1 THEN "memory" ELSE "reply"

SkipPart == /\ pc = "memory"
            /\ ~Effective
            /\ Advance
            /\ UNCHANGED <<memory, rows, done, faults, promised, suspect>>

-----------------------------------------------------------------------------
(* PgAdapter::AddPolicy inserts a row; RemovePolicy deletes every row      *)
(* equal to the rule, RemoveFilteredPolicy every row the filter matches.   *)
(* Only the deletions name the schema of the table.                        *)
TableFound == todo.how = "add" \/ TableInPolarity

(* Mutant: a removal deletes nothing.                                      *)
WrittenKeeping == [r \in Rules |-> IF r \in Part /\ todo.how = "add"
                                   THEN rows[r] + 1 ELSE rows[r]]

Written == [r \in Rules |-> IF r \notin Part THEN rows[r]
                            ELSE IF todo.how = "add" THEN rows[r] + 1 ELSE 0]

(* Mutant: the statement is executed and never committed.                  *)
CommitForgotten == /\ pc = "adapter"
                   /\ TableFound
                   /\ done' = done \cup Part
                   /\ Advance
                   /\ suspect' = IF todo.how = "filter" THEN suspect \ Part
                                                        ELSE suspect
                   /\ UNCHANGED <<memory, rows, faults, promised>>

Commit == /\ pc = "adapter"
          /\ TableFound
          /\ rows' = Written
          /\ done' = done \cup Part
          /\ Advance
          /\ suspect' = IF todo.how = "filter" THEN suspect \ Part ELSE suspect
          /\ UNCHANGED <<memory, faults, promised>>

Fault == faults < MaxFaults /\ faults' = faults + 1

(* The exception of the adapter ends the call with false or {:error, _}:   *)
(* the memory stays changed, and the parts not yet begun are dropped.      *)
Abort == /\ pc' = "idle"
         /\ todo' = NoOp
         /\ done' = {}
         /\ suspect' = suspect \cup Part
         /\ UNCHANGED <<memory, promised>>

Fail == /\ pc = "adapter"
        /\ Abort
        /\ UNCHANGED rows
        /\ \/ TableFound /\ Fault
           \/ ~TableFound /\ UNCHANGED faults

(* The connection is lost while commit waits for its answer.               *)
FailInDoubt == /\ pc = "adapter"
               /\ TableFound
               /\ Fault
               /\ rows' = Written
               /\ Abort

(* The call answers true exactly if some part was effective.               *)
Reply == /\ pc = "reply"
         /\ pc' = "idle"
         /\ todo' = NoOp
         /\ done' = {}
         /\ promised' = [r \in Rules |->
                            IF r \notin done THEN promised[r]
                            ELSE IF todo.how = "add" THEN "stored" ELSE "removed"]
         /\ UNCHANGED <<memory, rows, faults, suspect>>

(* The VM dies; a transaction under way is committed or rolled back.       *)
Crash == /\ pc # "down"
         /\ Fault
         /\ pc' = "down"
         /\ memory' = None
         /\ todo' = NoOp
         /\ done' = {}
         /\ \/ UNCHANGED rows
            \/ pc = "adapter" /\ TableFound /\ rows' = Written
         /\ UNCHANGED <<promised, suspect>>

-----------------------------------------------------------------------------
Next == \/ CreateEnforcer \/ DestroyEnforcer
        \/ AddPolicy \/ RemovePolicy \/ RemoveFilteredPolicy
        \/ AddGroupingPolicy \/ AddRoleForUser \/ AddRolesForUser
        \/ DeleteRoleForUser \/ DeleteRolesForUser \/ DeleteRole
        \/ ChangeMemory \/ SkipPart \/ Commit \/ Fail \/ FailInDoubt
        \/ Reply \/ Crash

Spec == Init /\ [][Next]_vars

-----------------------------------------------------------------------------
(* The variables' types.                                                   *)
TypeOK == /\ pc \in {"down", "idle", "memory", "adapter", "reply"}
          /\ memory \in Copies
          /\ rows \in Copies
          /\ todo \in Ops
          /\ done \in SUBSET Rules
          /\ faults \in 0 .. MaxFaults
          /\ promised \in [Rules -> {"unknown", "stored", "removed"}]
          /\ suspect \in SUBSET Rules

(* A true answer is durable: a rule whose addition was answered true is in *)
(* the table until a call removes it, one whose removal was answered true  *)
(* is not until a call adds it, whatever fails or crashes later (the       *)
(* commit before the return in pg_adapter.cpp).                            *)
DurableAck == \A r \in Rules :
                 /\ promised[r] = "stored" => rows[r] > 0
                 /\ promised[r] = "removed" => rows[r] = 0

(* A rule whose addition was answered true is enforced by every enforcer   *)
(* until a call removes it, also after a failure or a restart.             *)
StoredEnforced == pc # "down" =>
                     \A r \in Rules : promised[r] = "stored" => memory[r] > 0

(* Memory and table differ only on rules that a call failed on since the   *)
(* enforcer was created, or that were duplicated in the table by then.     *)
Agreement == pc = "idle" => \A r \in Rules \ suspect : memory[r] = rows[r]

(* A removed rule does not come back by itself: once its removal was       *)
(* answered true, only a call that adds it brings it into an enforcer.     *)
NoResurrection ==
    [][\A r \in Rules :
          promised[r] = "removed" /\ memory[r] = 0 /\ memory'[r] > 0
             => pc = "memory" /\ todo.how = "add" /\ r \in Part]_vars

(* A rule whose removal was answered true is not enforced any more         *)
(* (test/casbinex_test.exs: removePolicy answers true, enforce false).     *)
RemovedNotEnforced == pc # "down" =>
                         \A r \in Rules : promised[r] = "removed" => memory[r] = 0

(* Nothing has failed so far, and the deletions find the table.            *)
Faultless == faults = 0 /\ TableInPolarity

(* That holds as long as nothing has failed: neither SkipPart nor copies   *)
(* that were loaded together keep a removed rule in memory.                *)
RemovedForGood == Faultless => RemovedNotEnforced

(* As long as nothing has failed the table holds, between calls, the rules *)
(* that the enforcer enforces (c_src/test/main.cpp: a reload gives back    *)
(* what was added and removed).                                            *)
RowsFollowMemory == Faultless /\ pc = "idle" => Present(rows) = Present(memory)

(* However many statements fail, for any number of faults: the removal     *)
(* that was answered true did not work only for a rule that another call   *)
(* failed on, or that was in the table more than once.                     *)
RemovedUnlessSuspect ==
    pc # "down" => \A r \in Rules \ suspect : promised[r] = "removed" => memory[r] = 0

(* The table has no uniqueness constraint and a failed removal leaves a    *)
(* row behind that a later addition doubles; but every failure or crash    *)
(* adds at most one copy of a rule, as long as the deletions find the      *)
(* table.                                                                  *)
CopiesBounded ==
    TableInPolarity => \A r \in Rules : /\ rows[r] <= 1 + faults
                                        /\ memory[r] <= 1 + faults

-----------------------------------------------------------------------------
(* What makes the invariants inductive: the call's own parts, the rule     *)
(* that is in memory and not yet in the table, and single copies of what   *)
(* is not suspect.                                                         *)
Pending == IF pc = "adapter" THEN Part ELSE {}

CallInv ==
    /\ pc \in {"memory", "adapter"} => todo.parts # <<>>
    /\ pc \in {"down", "idle"} => done = {}
    /\ \A r \in done : IF todo.how = "add" THEN rows[r] > 0 /\ memory[r] > 0
                                           ELSE rows[r] = 0
    /\ \A r \in Pending : /\ promised[r] = "unknown"
                          /\ todo.how = "add" => memory[r] > 0
                          /\ todo.how = "filter" => memory[r] = 0

CopiesInv ==
    pc # "down" =>
      \A r \in Rules \ suspect :
         IF r \in Pending
         THEN IF todo.how = "add" THEN memory[r] = 1 /\ rows[r] = 0
                                  ELSE memory[r] = 0
         ELSE memory[r] = rows[r] /\ rows[r] \in 0 .. 1

(* A rule that is not in memory, or is on its way from there to the table, *)
(* has one row for a fault that kept it in the table, and no more.         *)
CountInv ==
    /\ CopiesBounded
    /\ TableInPolarity =>
         \A r \in Rules :
            /\ pc # "down" /\ r \notin Pending /\ memory[r] = 0 => rows[r] <= faults
            /\ r \in Pending /\ todo.how = "add" => rows[r] <= faults

IInv == TypeOK /\ CallInv /\ CopiesInv /\ DurableAck /\ StoredEnforced
=============================================================================
