------------------------- MODULE PolicyStoreProofs --------------------------
(***************************************************************************)
(* The invariants of module PolicyStore, for all sets of users, roles and  *)
(* resources and any number of failures and crashes.  IInv is inductive:   *)
(* the promises rest on what the call under way has committed (CallInv),   *)
(* the agreement of the two copies on CopiesInv.                           *)
(***************************************************************************)
EXTENDS PolicyStore, RbacProofs

CallStep == \/ AddPolicy \/ RemovePolicy \/ RemoveFilteredPolicy
            \/ AddGroupingPolicy \/ AddRoleForUser \/ AddRolesForUser
            \/ DeleteRoleForUser \/ DeleteRolesForUser \/ DeleteRole

(* All calls are the same step, for an operation of some mutator.          *)
LEMMA CallIsMutator ==
  ASSUME CallStep
  PROVE  Call(MutatorOps)
BY DEF CallStep, Call, MutatorOps, AddPolicy, RemovePolicy,
       RemoveFilteredPolicy, AddGroupingPolicy, AddRoleForUser,
       AddRolesForUser, DeleteRoleForUser, DeleteRolesForUser, DeleteRole

LEMMA NoOpTyped == NoOp \in Ops
<1>1. <<>> \in Seq(SUBSET Rules)
  OBVIOUS
<1>2. QED
  BY <1>1 DEF NoOp, Op, Ops

(* The first part of a call that has one.                                  *)
LEMMA PartTyped ==
  ASSUME todo \in Ops, todo.parts # <<>>
  PROVE  Part \in SUBSET Rules
<1>1. todo.parts \in Seq(SUBSET Rules)
  BY DEF Ops
<1>2. QED
  BY <1>1, HeadTailProperties DEF Part

(* Going on to the next part keeps the kind of the call and its types, and *)
(* there is a next part whenever the call does not answer.                 *)
LEMMA AdvanceTyped ==
  ASSUME todo \in Ops, todo.parts # <<>>, Advance
  PROVE  /\ todo' \in Ops
         /\ todo'.how = todo.how
         /\ pc' \in {"memory", "reply"}
         /\ pc' = "memory" => todo'.parts # <<>>
<1>1. todo.parts \in Seq(SUBSET Rules)
  BY DEF Ops
<1>2. Tail(todo.parts) \in Seq(SUBSET Rules)
  BY <1>1, HeadTailProperties
<1>3. todo'.how = todo.how /\ todo'.parts = Tail(todo.parts)
  BY DEF Advance, Op
<1>4. todo' \in Ops
  BY <1>2 DEF Advance, Op, Ops
<1>5. pc' = "memory" => Len(todo.parts) > 1
  BY DEF Advance
<1>6. pc' = "memory" => todo'.parts # <<>>
  BY <1>1, <1>3, <1>5, RestOfOp
<1>7. QED
  BY <1>3, <1>4, <1>6 DEF Advance

(* What a write leaves in the table.                                       *)
LEMMA WrittenTyped ==
  ASSUME rows \in Copies
  PROVE  /\ Written \in Copies
         /\ \A r \in Rules : r \notin Part => Written[r] = rows[r]
         /\ \A r \in Rules : r \in Part /\ todo.how = "add"
                                => Written[r] = rows[r] + 1
         /\ \A r \in Rules : r \in Part /\ todo.how # "add" => Written[r] = 0
BY DEF Written, Copies

(* What casbin's change leaves in memory.                                  *)
LEMMA ChangedTyped ==
  ASSUME memory \in Copies, todo \in Ops, ChangeMemory
  PROVE  /\ memory' \in Copies
         /\ \A r \in Rules : r \notin Part => memory'[r] = memory[r]
         /\ \A r \in Rules : r \in Part /\ todo.how = "add"
                                => memory[r] = 0 /\ memory'[r] = 1
         /\ \A r \in Rules : r \in Part /\ todo.how = "remove"
                                => memory'[r] <= memory[r]
                                   /\ (memory[r] <= 1 => memory'[r] = 0)
         /\ \A r \in Rules : r \in Part /\ todo.how = "filter"
                                => memory'[r] = 0
<1>1. todo.how \in {"add", "remove", "filter"}
  BY DEF Ops
<1>2. \A r \in Rules : memory[r] \in Nat
  BY DEF Copies
<1>3. memory' = [r \in Rules |-> IF r \in Part THEN Changed(memory[r])
                                               ELSE memory[r]]
  BY DEF ChangeMemory
<1>4. \A n \in Nat : Changed(n) \in Nat
  BY <1>1 DEF Changed
<1>5. \A r \in Rules : r \in Part /\ todo.how = "add" => memory[r] = 0
  BY <1>2 DEF ChangeMemory, Effective, Present
<1>6. memory' \in Copies
  BY <1>2, <1>3, <1>4 DEF Copies
<1>7. \A r \in Rules : r \in Part => memory'[r] = Changed(memory[r])
  BY <1>3
<1>8. \A n \in Nat : /\ todo.how = "add" => Changed(n) = n + 1
                     /\ todo.how = "filter" => Changed(n) = 0
                     /\ todo.how = "remove" => Changed(n) <= n
                                               /\ (n <= 1 => Changed(n) = 0)
  BY DEF Changed
<1>9. QED
  BY <1>2, <1>3, <1>5, <1>6, <1>7, <1>8

-----------------------------------------------------------------------------
LEMMA InitIInv == Init => IInv
<1> SUFFICES ASSUME Init PROVE IInv
  OBVIOUS
<1>1. TypeOK
  BY NoOpTyped, StoreAssumption DEF Init, TypeOK, Copies, None
<1>2. CallInv
  BY DEF Init, CallInv, Pending
<1>3. CopiesInv /\ DurableAck /\ StoredEnforced
  BY DEF Init, CopiesInv, DurableAck, StoredEnforced
<1>4. QED
  BY <1>1, <1>2, <1>3 DEF IInv

LEMMA StutterIInv == IInv /\ UNCHANGED vars => IInv'
BY DEF IInv, TypeOK, CallInv, CopiesInv, DurableAck, StoredEnforced, Pending,
       Part, Copies, vars

LEMMA CreateIInv == IInv /\ CreateEnforcer => IInv'
<1> SUFFICES ASSUME IInv, CreateEnforcer PROVE IInv'
  OBVIOUS
<1> USE DEF IInv, CreateEnforcer
<1>1. TypeOK'
  BY DEF TypeOK, Copies
<1>2. CallInv'
  BY DEF CallInv, Pending
<1>3. CopiesInv'
  BY DEF CopiesInv, Pending, TypeOK, Copies
<1>4. DurableAck' /\ StoredEnforced'
  BY DEF DurableAck, StoredEnforced
<1>5. QED
  BY <1>1, <1>2, <1>3, <1>4

LEMMA DestroyIInv == IInv /\ DestroyEnforcer => IInv'
<1> SUFFICES ASSUME IInv, DestroyEnforcer PROVE IInv'
  OBVIOUS
<1> USE DEF IInv, DestroyEnforcer
<1>1. TypeOK'
  BY DEF TypeOK, Copies, None
<1>2. CallInv'
  BY DEF CallInv, Pending
<1>3. CopiesInv' /\ DurableAck' /\ StoredEnforced'
  BY DEF CopiesInv, DurableAck, StoredEnforced
<1>4. QED
  BY <1>1, <1>2, <1>3

LEMMA CallIInv == IInv /\ CallStep => IInv'
<1> SUFFICES ASSUME IInv, CallStep PROVE IInv'
  OBVIOUS
<1>1. Call(MutatorOps)
  BY CallIsMutator
<1>2. todo' \in Ops /\ todo'.parts # <<>>
  BY <1>1, MutatorOpsTyped DEF Call
<1> USE DEF IInv, Call
<1>3. TypeOK'
  BY <1>1, <1>2 DEF TypeOK
<1>4. CallInv'
  BY <1>1, <1>2 DEF CallInv, Pending
<1>5. CopiesInv'
  BY <1>1 DEF CopiesInv, Pending
<1>6. DurableAck' /\ StoredEnforced'
  BY <1>1 DEF DurableAck, StoredEnforced
<1>7. QED
  BY <1>3, <1>4, <1>5, <1>6

LEMMA ChangeMemoryIInv == IInv /\ ChangeMemory => IInv'
<1> SUFFICES ASSUME IInv, ChangeMemory PROVE IInv'
  OBVIOUS
<1>1. /\ pc = "memory" /\ pc' = "adapter"
      /\ UNCHANGED <<rows, todo, done, faults, suspect>>
      /\ TypeOK
  BY DEF ChangeMemory, IInv
<1>2. Pending = {} /\ Pending' = Part /\ Part' = Part
  BY <1>1 DEF Pending, Part
<1>3. /\ memory' \in Copies
      /\ \A r \in Rules : r \notin Part => memory'[r] = memory[r]
      /\ \A r \in Rules : r \in Part /\ todo.how = "add"
                             => memory[r] = 0 /\ memory'[r] = 1
      /\ \A r \in Rules : r \in Part /\ todo.how = "remove"
                             => memory'[r] <= memory[r]
                                /\ (memory[r] <= 1 => memory'[r] = 0)
      /\ \A r \in Rules : r \in Part /\ todo.how = "filter"
                             => memory'[r] = 0
  BY <1>1, ChangedTyped DEF TypeOK
<1>4. /\ Part \in SUBSET Rules
      /\ todo.parts # <<>>
      /\ todo.how \in {"add", "remove", "filter"}
  BY <1>1, PartTyped DEF IInv, CallInv, TypeOK, Ops
<1>5. \A r \in Rules : /\ r \in Part => promised'[r] = "unknown"
                       /\ r \notin Part => promised'[r] = promised[r]
  BY DEF ChangeMemory
<1>6. promised' \in [Rules -> {"unknown", "stored", "removed"}]
  BY DEF ChangeMemory, IInv, TypeOK
<1>7. TypeOK'
  BY <1>1, <1>3, <1>6 DEF TypeOK
<1>8. CallInv'
  <2>1. \A r \in done : IF todo.how = "add" THEN rows[r] > 0 /\ memory'[r] > 0
                                            ELSE rows[r] = 0
    BY <1>1, <1>3 DEF IInv, CallInv, TypeOK
  <2>2. \A r \in Part : /\ promised'[r] = "unknown"
                        /\ todo.how = "add" => memory'[r] > 0
                        /\ todo.how = "filter" => memory'[r] = 0
    BY <1>3, <1>4, <1>5
  <2>3. QED
    BY <1>1, <1>2, <1>4, <2>1, <2>2 DEF CallInv
<1>9. CopiesInv'
  <2> SUFFICES ASSUME NEW r \in Rules \ suspect
               PROVE  IF r \in Part
                      THEN IF todo.how = "add"
                           THEN memory'[r] = 1 /\ rows[r] = 0
                           ELSE memory'[r] = 0
                      ELSE memory'[r] = rows[r] /\ rows[r] \in 0 .. 1
    BY <1>1, <1>2 DEF CopiesInv
  <2>1. memory[r] = rows[r] /\ rows[r] \in 0 .. 1
    BY <1>1, <1>2 DEF IInv, CopiesInv
  <2>2. QED
    BY <1>3, <1>4, <2>1
<1>10. DurableAck' /\ StoredEnforced'
  BY <1>1, <1>3, <1>5 DEF IInv, DurableAck, StoredEnforced
<1>11. QED
  BY <1>7, <1>8, <1>9, <1>10 DEF IInv

LEMMA SkipPartIInv == IInv /\ SkipPart => IInv'
<1> SUFFICES ASSUME IInv, SkipPart PROVE IInv'
  OBVIOUS
<1>1. /\ pc = "memory"
      /\ UNCHANGED <<memory, rows, done, faults, promised, suspect>>
      /\ Advance /\ TypeOK /\ todo.parts # <<>>
  BY DEF SkipPart, IInv, CallInv
<1>2. /\ todo' \in Ops
      /\ todo'.how = todo.how
      /\ pc' \in {"memory", "reply"}
      /\ pc' = "memory" => todo'.parts # <<>>
  BY <1>1, AdvanceTyped DEF TypeOK
<1>3. Pending = {} /\ Pending' = {}
  BY <1>1, <1>2 DEF Pending
<1>4. TypeOK'
  BY <1>1, <1>2 DEF TypeOK
<1>5. CallInv'
  BY <1>1, <1>2, <1>3 DEF CallInv, IInv
<1>6. CopiesInv'
  BY <1>1, <1>2, <1>3 DEF CopiesInv, IInv
<1>7. DurableAck' /\ StoredEnforced'
  BY <1>1, <1>2 DEF DurableAck, StoredEnforced, IInv
<1>8. QED
  BY <1>4, <1>5, <1>6, <1>7 DEF IInv

(* A write keeps the promises: it touches the pending rules only, which    *)
(* nothing is promised of, and what the call has committed stays so.       *)
LEMMA WrittenSafe ==
  ASSUME IInv, pc = "adapter"
  PROVE  /\ Written \in Copies
         /\ \A r \in Rules : /\ promised[r] = "stored" => Written[r] > 0
                             /\ promised[r] = "removed" => Written[r] = 0
         /\ \A r \in done \cup Part :
               IF todo.how = "add" THEN Written[r] > 0 /\ memory[r] > 0
                                   ELSE Written[r] = 0
<1>1. TypeOK /\ Part \in SUBSET Rules /\ Pending = Part
  BY PartTyped DEF IInv, CallInv, Pending, TypeOK
<1>2. /\ Written \in Copies
      /\ \A r \in Rules : r \notin Part => Written[r] = rows[r]
      /\ \A r \in Rules : r \in Part /\ todo.how = "add"
                             => Written[r] = rows[r] + 1
      /\ \A r \in Rules : r \in Part /\ todo.how # "add" => Written[r] = 0
  BY <1>1, WrittenTyped DEF TypeOK
<1>3. \A r \in Rules : rows[r] \in Nat
  BY <1>1 DEF TypeOK, Copies
<1>4. \A r \in Part : promised[r] = "unknown"
                      /\ (todo.how = "add" => memory[r] > 0)
  BY <1>1 DEF IInv, CallInv
<1>5. \A r \in Rules : /\ promised[r] = "stored" => Written[r] > 0
                       /\ promised[r] = "removed" => Written[r] = 0
  BY <1>2, <1>4 DEF IInv, DurableAck
<1>6. \A r \in Part : IF todo.how = "add" THEN Written[r] > 0 /\ memory[r] > 0
                                          ELSE Written[r] = 0
  BY <1>1, <1>2, <1>3, <1>4
<1>7. \A r \in done : IF todo.how = "add" THEN Written[r] > 0 /\ memory[r] > 0
                                          ELSE Written[r] = 0
  <2>1. \A r \in done : r \in Rules
    BY <1>1 DEF TypeOK
  <2>2. \A r \in done : IF todo.how = "add" THEN rows[r] > 0 /\ memory[r] > 0
                                            ELSE rows[r] = 0
    BY DEF IInv, CallInv
  <2>3. QED
    BY <1>2, <1>3, <2>1, <2>2
<1>8. QED
  BY <1>2, <1>5, <1>6, <1>7

LEMMA CommitIInv == IInv /\ Commit => IInv'
<1> SUFFICES ASSUME IInv, Commit PROVE IInv'
  OBVIOUS
<1>1. /\ pc = "adapter" /\ Advance /\ todo.parts # <<>>
      /\ rows' = Written /\ done' = done \cup Part
      /\ UNCHANGED <<memory, faults, promised>>
      /\ TypeOK /\ Pending = Part
  BY DEF Commit, IInv, CallInv, Pending
<1>2. Part \in SUBSET Rules /\ todo.how \in {"add", "remove", "filter"}
  BY <1>1, PartTyped DEF TypeOK, Ops
<1>3. /\ todo' \in Ops
      /\ todo'.how = todo.how
      /\ pc' \in {"memory", "reply"}
      /\ pc' = "memory" => todo'.parts # <<>>
  BY <1>1, AdvanceTyped DEF TypeOK
<1>4. Pending' = {}
  BY <1>3 DEF Pending
<1>5. /\ Written \in Copies
      /\ \A r \in Rules : /\ promised[r] = "stored" => Written[r] > 0
                          /\ promised[r] = "removed" => Written[r] = 0
      /\ \A r \in done \cup Part :
            IF todo.how = "add" THEN Written[r] > 0 /\ memory[r] > 0
                                ELSE Written[r] = 0
  BY <1>1, WrittenSafe
<1>6. TypeOK'
  BY <1>1, <1>2, <1>3, <1>5 DEF TypeOK, Commit
<1>7. CallInv'
  BY <1>1, <1>3, <1>4, <1>5 DEF CallInv
<1>8. CopiesInv'
  <2>1. /\ \A r \in Rules : r \notin Part => rows'[r] = rows[r]
        /\ \A r \in Rules : r \in Part /\ todo.how = "add"
                               => rows'[r] = rows[r] + 1
        /\ \A r \in Rules : r \in Part /\ todo.how # "add" => rows'[r] = 0
    BY <1>1, WrittenTyped DEF TypeOK
  <2>2. \A r \in Rules \ suspect' : r \in suspect
                                    => r \in Part /\ todo.how = "filter"
    BY DEF Commit
  <2>3. \A r \in Part : todo.how = "filter" => memory[r] = 0
    BY <1>1 DEF IInv, CallInv
  <2>4. \A r \in Rules \ suspect :
           IF r \in Part
           THEN IF todo.how = "add" THEN memory[r] = 1 /\ rows[r] = 0
                                    ELSE memory[r] = 0
           ELSE memory[r] = rows[r] /\ rows[r] \in 0 .. 1
    BY <1>1 DEF IInv, CopiesInv
  <2>5. ASSUME NEW r \in Rules \ suspect'
        PROVE  memory[r] = rows'[r] /\ rows'[r] \in 0 .. 1
    <3>1. CASE r \in suspect
      BY <2>1, <2>2, <2>3, <3>1
    <3>2. CASE r \notin suspect
      BY <1>2, <2>1, <2>4, <3>2
    <3>3. QED
      BY <3>1, <3>2
  <2>6. QED
    BY <1>1, <1>4, <2>5 DEF CopiesInv
<1>9. DurableAck' /\ StoredEnforced'
  BY <1>1, <1>5 DEF DurableAck, StoredEnforced, IInv
<1>10. QED
  BY <1>6, <1>7, <1>8, <1>9 DEF IInv

(* The exception of the adapter, whether or not the rows were written.     *)
LEMMA AbortIInv ==
  ASSUME IInv, pc = "adapter", Abort, rows' \in {rows, Written},
         faults' \in 0 .. MaxFaults
  PROVE  IInv'
<1>1. /\ TypeOK /\ todo.parts # <<>> /\ Pending = Part
      /\ pc' = "idle" /\ todo' = NoOp /\ done' = {}
      /\ suspect' = suspect \cup Part
      /\ UNCHANGED <<memory, promised>>
  BY DEF IInv, CallInv, Abort, Pending
<1>2. Part \in SUBSET Rules /\ Pending' = {}
  BY <1>1, PartTyped DEF TypeOK, Pending
<1>3. /\ rows' \in Copies
      /\ \A r \in Rules : /\ promised[r] = "stored" => rows'[r] > 0
                          /\ promised[r] = "removed" => rows'[r] = 0
  BY <1>1, WrittenSafe DEF IInv, TypeOK, DurableAck
<1>4. \A r \in Rules : r \notin Part => rows'[r] = rows[r]
  BY <1>1, WrittenTyped DEF TypeOK
<1>5. TypeOK'
  BY <1>1, <1>2, <1>3, NoOpTyped DEF TypeOK
<1>6. CallInv'
  BY <1>1, <1>2 DEF CallInv
<1>7. CopiesInv'
  BY <1>1, <1>2, <1>4 DEF IInv, CopiesInv
<1>8. DurableAck' /\ StoredEnforced'
  BY <1>1, <1>3 DEF IInv, DurableAck, StoredEnforced
<1>9. QED
  BY <1>5, <1>6, <1>7, <1>8 DEF IInv

LEMMA FaultTyped ==
  ASSUME faults \in 0 .. MaxFaults, Fault
  PROVE  faults' \in 0 .. MaxFaults
BY StoreAssumption DEF Fault

LEMMA FailIInv == IInv /\ (Fail \/ FailInDoubt) => IInv'
<1> SUFFICES ASSUME IInv, Fail \/ FailInDoubt PROVE IInv'
  OBVIOUS
<1>1. pc = "adapter" /\ Abort /\ rows' \in {rows, Written}
  BY DEF Fail, FailInDoubt
<1>2. faults' \in 0 .. MaxFaults
  BY FaultTyped DEF Fail, FailInDoubt, IInv, TypeOK
<1>3. QED
  BY <1>1, <1>2, AbortIInv

LEMMA ReplyIInv == IInv /\ Reply => IInv'
<1> SUFFICES ASSUME IInv, Reply PROVE IInv'
  OBVIOUS
<1>1. /\ pc = "reply" /\ pc' = "idle" /\ todo' = NoOp /\ done' = {}
      /\ UNCHANGED <<memory, rows, faults, suspect>>
      /\ TypeOK
  BY DEF Reply, IInv
<1>2. \A r \in Rules : /\ r \notin done => promised'[r] = promised[r]
                       /\ r \in done => promised'[r] =
                            IF todo.how = "add" THEN "stored" ELSE "removed"
  BY DEF Reply
<1>3. promised' \in [Rules -> {"unknown", "stored", "removed"}]
  BY <1>1 DEF Reply, TypeOK
<1>4. Pending = {} /\ Pending' = {}
  BY <1>1 DEF Pending
<1>5. TypeOK'
  BY <1>1, <1>3, NoOpTyped DEF TypeOK
<1>6. CallInv'
  BY <1>1, <1>4 DEF CallInv
<1>7. CopiesInv'
  BY <1>1, <1>4 DEF CopiesInv, IInv
<1>8. \A r \in done : IF todo.how = "add" THEN rows[r] > 0 /\ memory[r] > 0
                                          ELSE rows[r] = 0
  BY DEF IInv, CallInv
<1>9. DurableAck' /\ StoredEnforced'
  BY <1>1, <1>2, <1>8 DEF DurableAck, StoredEnforced, IInv
<1>10. QED
  BY <1>5, <1>6, <1>7, <1>9 DEF IInv

LEMMA CrashIInv == IInv /\ Crash => IInv'
<1> SUFFICES ASSUME IInv, Crash PROVE IInv'
  OBVIOUS
<1>1. /\ pc' = "down" /\ memory' = None /\ todo' = NoOp /\ done' = {}
      /\ UNCHANGED <<promised, suspect>>
      /\ TypeOK
  BY DEF Crash, IInv
<1>2. faults' \in 0 .. MaxFaults
  BY <1>1, FaultTyped DEF Crash, TypeOK
<1>3. /\ rows' \in Copies
      /\ \A r \in Rules : /\ promised[r] = "stored" => rows'[r] > 0
                          /\ promised[r] = "removed" => rows'[r] = 0
  BY <1>1, WrittenSafe DEF Crash, IInv, TypeOK, DurableAck
<1>4. TypeOK'
  BY <1>1, <1>2, <1>3, NoOpTyped DEF TypeOK, Copies, None
<1>5. CallInv'
  BY <1>1 DEF CallInv, Pending
<1>6. CopiesInv' /\ DurableAck' /\ StoredEnforced'
  BY <1>1, <1>3 DEF CopiesInv, DurableAck, StoredEnforced
<1>7. QED
  BY <1>4, <1>5, <1>6 DEF IInv

LEMMA StepIInv == IInv /\ [Next]_vars => IInv'
BY StutterIInv, CreateIInv, DestroyIInv, CallIInv, ChangeMemoryIInv,
   SkipPartIInv, CommitIInv, FailIInv, ReplyIInv, CrashIInv
   DEF Next, CallStep

-----------------------------------------------------------------------------
(* The inductive invariant, of every behaviour.                            *)
THEOREM StoreIInv == Spec => []IInv
<1>1. QED
  BY InitIInv, StepIInv, PTL DEF Spec

(* The variables keep their types.                                         *)
THEOREM StoreTypeOK == Spec => []TypeOK
<1>1. IInv => TypeOK
  BY DEF IInv
<1>2. QED
  BY <1>1, StoreIInv, PTL

(* A true answer is durable, whatever fails or crashes later.              *)
THEOREM StoreDurableAck == Spec => []DurableAck
<1>1. IInv => DurableAck
  BY DEF IInv
<1>2. QED
  BY <1>1, StoreIInv, PTL

(* An addition answered true is enforced until a call removes the rule.    *)
THEOREM StoreStoredEnforced == Spec => []StoredEnforced
<1>1. IInv => StoredEnforced
  BY DEF IInv
<1>2. QED
  BY <1>1, StoreIInv, PTL

(* Between calls memory and table agree on every rule that is not suspect. *)
THEOREM StoreAgreement == Spec => []Agreement
<1>1. IInv => Agreement
  BY DEF IInv, CopiesInv, Pending, Agreement
<1>2. QED
  BY <1>1, StoreIInv, PTL

(* A removed rule comes back only through a call that adds it.             *)
Resurrection(r) == promised[r] = "removed" /\ memory[r] = 0 /\ memory'[r] > 0

LEMMA StepNoResurrection ==
  ASSUME IInv, [Next]_vars, NEW r \in Rules, Resurrection(r)
  PROVE  pc = "memory" /\ todo.how = "add" /\ r \in Part
<1>1. TypeOK /\ memory[r] = 0 /\ memory'[r] > 0 /\ rows[r] = 0
  BY DEF IInv, DurableAck, Resurrection
<1>2. CASE ChangeMemory
  <2>1. todo.how \in {"add", "remove", "filter"} /\ pc = "memory"
    BY <1>1, <1>2 DEF TypeOK, Ops, ChangeMemory
  <2>2. r \in Part
    BY <1>1, <1>2, ChangedTyped DEF TypeOK
  <2>3. todo.how # "remove" /\ todo.how # "filter"
    BY <1>1, <1>2, <2>2, ChangedTyped DEF TypeOK
  <2>4. QED
    BY <2>1, <2>2, <2>3
<1>3. CASE CreateEnforcer
  BY <1>1, <1>3 DEF CreateEnforcer
<1>4. CASE DestroyEnforcer \/ Crash
  BY <1>1, <1>4 DEF DestroyEnforcer, Crash, None
<1>5. CASE CallStep
  BY <1>1, <1>5, CallIsMutator DEF Call
<1>6. CASE SkipPart \/ Commit \/ Fail \/ FailInDoubt \/ Reply \/ UNCHANGED vars
  BY <1>1, <1>6 DEF SkipPart, Commit, Fail, FailInDoubt, Abort, Reply, vars
<1>7. QED
  BY <1>2, <1>3, <1>4, <1>5, <1>6 DEF Next, CallStep

(* Neither a failure, a crash nor a new enforcer brings a removed rule     *)
(* back into memory: only a call that adds the rule does.                  *)
THEOREM StoreNoResurrection == Spec => NoResurrection
<1>1. IInv /\ [Next]_vars =>
        [\A r \in Rules :
            promised[r] = "removed" /\ memory[r] = 0 /\ memory'[r] > 0
               => pc = "memory" /\ todo.how = "add" /\ r \in Part]_vars
  BY StepNoResurrection DEF Resurrection
<1>2. QED
  BY <1>1, StoreIInv, PTL DEF Spec, NoResurrection

-----------------------------------------------------------------------------
(* As long as nothing has failed no rule is suspect, and what the table    *)
(* holds when an enforcer is created are single copies.                    *)

NothingSuspect == /\ suspect = {}
                  /\ pc = "down" => \A r \in Rules : rows[r] \in 0 .. 1

FaultlessInv == Faultless => NothingSuspect

LEMMA StepFaultless ==
  ASSUME IInv, FaultlessInv, [Next]_vars
  PROVE  FaultlessInv'
<1> SUFFICES ASSUME Faultless' PROVE NothingSuspect'
  BY DEF FaultlessInv
<1>1. TypeOK /\ faults \in Nat /\ faults' = 0
  BY DEF IInv, TypeOK, Faultless
<1>2. ~Fault
  BY <1>1 DEF Fault
<1>3. ~Fail /\ ~FailInDoubt /\ ~Crash
  BY <1>2 DEF Fail, FailInDoubt, Crash, Faultless, TableFound
<1>4. faults' = faults
  BY <1>3, CallIsMutator DEF Next, CallStep, CreateEnforcer, DestroyEnforcer, Call,
     ChangeMemory, SkipPart, Commit, Reply, vars
<1>5. NothingSuspect
  BY <1>1, <1>4 DEF FaultlessInv, Faultless
<1>6. pc = "idle" => \A r \in Rules : rows[r] \in 0 .. 1
  BY <1>5 DEF IInv, CopiesInv, Pending, NothingSuspect
<1>7. CASE CreateEnforcer \/ DestroyEnforcer
  <2>1. pc \in {"down", "idle"} /\ rows' = rows
    BY <1>7 DEF CreateEnforcer, DestroyEnforcer
  <2>2. \A r \in Rules : rows[r] \in 0 .. 1
    BY <1>5, <1>6, <2>1 DEF NothingSuspect
  <2>3. QED
    BY <1>5, <1>7, <2>1, <2>2 DEF CreateEnforcer, DestroyEnforcer, NothingSuspect
<1>8. CASE CallStep
  BY <1>5, <1>8, CallIsMutator DEF Call, NothingSuspect
<1>9. CASE ChangeMemory \/ SkipPart \/ Commit \/ Reply \/ UNCHANGED vars
  BY <1>5, <1>9 DEF ChangeMemory, SkipPart, Commit, Reply, Advance, vars,
     NothingSuspect
<1>10. QED
  BY <1>3, <1>7, <1>8, <1>9 DEF Next, CallStep

LEMMA StoreFaultless == Spec => [](IInv /\ FaultlessInv)
<1>1. Init => FaultlessInv
  BY DEF Init, FaultlessInv, NothingSuspect
<1>2. IInv /\ FaultlessInv /\ [Next]_vars => FaultlessInv'
  BY StepFaultless
<1>3. QED
  BY <1>1, <1>2, StoreIInv, PTL DEF Spec

(* As long as nothing has failed the table holds, between calls, the rules *)
(* that are enforced.                                                      *)
THEOREM StoreRowsFollowMemory == Spec => []RowsFollowMemory
<1>1. IInv /\ FaultlessInv => RowsFollowMemory
  BY DEF IInv, CopiesInv, Pending, FaultlessInv, NothingSuspect,
     RowsFollowMemory, Present
<1>2. QED
  BY <1>1, StoreFaultless, PTL

(* And no rule is enforced once its removal was answered true.             *)
THEOREM StoreRemovedForGood == Spec => []RemovedForGood
<1>1. ASSUME IInv, FaultlessInv PROVE RemovedForGood
  <2> SUFFICES ASSUME Faultless, pc # "down",
                      NEW r \in Rules, promised[r] = "removed"
               PROVE  memory[r] = 0
    BY DEF RemovedForGood, RemovedNotEnforced
  <2>1. rows[r] = 0 /\ r \notin Pending
    BY <1>1 DEF IInv, DurableAck, CallInv
  <2>2. QED
    BY <1>1, <2>1 DEF IInv, CopiesInv, FaultlessInv, NothingSuspect
<1>2. QED
  BY <1>1, StoreFaultless, PTL
-----------------------------------------------------------------------------
(* A removal that was answered true works, after any number of failures,   *)
(* unless a call failed on the rule, or it was in the table twice, since   *)
(* the enforcer was created.                                               *)
THEOREM StoreRemovedUnlessSuspect == Spec => []RemovedUnlessSuspect
<1>1. ASSUME IInv PROVE RemovedUnlessSuspect
  <2> SUFFICES ASSUME pc # "down", NEW r \in Rules \ suspect,
                      promised[r] = "removed"
               PROVE  memory[r] = 0
    BY DEF RemovedUnlessSuspect
  <2>1. rows[r] = 0 /\ r \notin Pending
    BY <1>1 DEF IInv, DurableAck, CallInv
  <2>2. QED
    BY <1>1, <2>1 DEF IInv, CopiesInv
<1>2. QED
  BY <1>1, StoreIInv, PTL

-----------------------------------------------------------------------------
(* How many copies of a rule there can be.                                 *)

(* What CountInv says of one rule.                                         *)
Counted(r) == /\ rows[r] <= 1 + faults /\ memory[r] <= 1 + faults
              /\ pc # "down" /\ r \notin Pending /\ memory[r] = 0 => rows[r] <= faults
              /\ r \in Pending /\ todo.how = "add" => rows[r] <= faults

LEMMA CountedByRule == CountInv <=> (TableInPolarity => \A r \in Rules : Counted(r))
BY DEF CountInv, CopiesBounded, Counted

LEMMA CountsTyped ==
  ASSUME TypeOK, NEW r \in Rules
  PROVE  memory[r] \in Nat /\ rows[r] \in Nat /\ faults \in Nat
BY DEF TypeOK, Copies

(* One of the three numbers changes, and nothing is pending afterwards.    *)
LEMMA ChangeMemoryCounts ==
  ASSUME IInv, ChangeMemory, NEW r \in Rules, Counted(r)
  PROVE  Counted(r)'
<1>1. /\ pc = "memory" /\ pc' = "adapter" /\ TypeOK
      /\ UNCHANGED <<rows, todo, faults>>
  BY DEF ChangeMemory, IInv
<1>2. Pending = {} /\ Pending' = Part
  BY <1>1 DEF Pending, Part
<1>3. memory[r] \in Nat /\ rows[r] \in Nat /\ faults \in Nat
  BY <1>1, CountsTyped
<1>4. /\ r \notin Part => memory'[r] = memory[r]
      /\ r \in Part /\ todo.how = "add" => memory[r] = 0 /\ memory'[r] = 1
      /\ r \in Part /\ todo.how = "remove" => memory'[r] <= memory[r]
      /\ r \in Part /\ todo.how = "filter" => memory'[r] = 0
      /\ memory'[r] \in Nat
      /\ todo.how \in {"add", "remove", "filter"}
  BY <1>1, ChangedTyped DEF TypeOK, Copies, Ops
<1>5. memory'[r] <= 1 + faults
  BY <1>3, <1>4 DEF Counted
<1>6. QED
  BY <1>1, <1>2, <1>3, <1>4, <1>5 DEF Counted

LEMMA CommitCounts ==
  ASSUME IInv, Commit, NEW r \in Rules, Counted(r)
  PROVE  Counted(r)'
<1>1. /\ pc = "adapter" /\ rows' = Written /\ Advance
      /\ UNCHANGED <<memory, faults>>
      /\ TypeOK /\ Pending = Part
  BY DEF Commit, IInv, Pending
<1>2. pc' \in {"memory", "reply"} /\ Pending' = {}
  BY <1>1 DEF Advance, Pending
<1>3. memory[r] \in Nat /\ rows[r] \in Nat /\ faults \in Nat
  BY <1>1, CountsTyped
<1>4. /\ r \notin Part => rows'[r] = rows[r]
      /\ r \in Part /\ todo.how = "add" => rows'[r] = rows[r] + 1
      /\ r \in Part /\ todo.how # "add" => rows'[r] = 0
  BY <1>1, WrittenTyped DEF TypeOK
<1>5. r \in Part /\ todo.how = "add" => memory[r] > 0 /\ rows[r] <= faults
  BY <1>1 DEF IInv, CallInv, Counted
<1>6. CASE r \in Part /\ todo.how = "add"
  BY <1>1, <1>2, <1>3, <1>4, <1>5, <1>6 DEF Counted
<1>7. CASE r \in Part /\ todo.how # "add"
  BY <1>1, <1>2, <1>3, <1>4, <1>7 DEF Counted
<1>8. CASE r \notin Part
  BY <1>1, <1>2, <1>3, <1>4, <1>8 DEF Counted
<1>9. QED
  BY <1>6, <1>7, <1>8

(* A fault makes room for the copy that it leaves behind.                  *)
LEMMA FaultCounts ==
  ASSUME IInv, Fail \/ FailInDoubt \/ Crash, TableInPolarity,
         NEW r \in Rules, Counted(r)
  PROVE  Counted(r)'
<1>1. /\ faults' = faults + 1 /\ pc' \in {"idle", "down"} /\ TypeOK
      /\ memory' \in {memory, None}
      /\ rows' = rows \/ (pc = "adapter" /\ rows' = Written)
  BY DEF Fail, FailInDoubt, Crash, Abort, Fault, TableFound, IInv
<1>2. Pending' = {}
  BY <1>1 DEF Pending
<1>3. memory[r] \in Nat /\ rows[r] \in Nat /\ faults \in Nat
  BY <1>1, CountsTyped
<1>4. memory'[r] = memory[r] \/ memory'[r] = 0
  BY <1>1 DEF None
<1>5. rows'[r] <= 1 + faults
  <2>1. CASE rows' = rows
    BY <2>1 DEF Counted
  <2>2. CASE pc = "adapter" /\ rows' = Written
    <3>1. Pending = Part
      BY <2>2 DEF Pending
    <3>2. /\ r \notin Part => rows'[r] = rows[r]
          /\ r \in Part /\ todo.how = "add" => rows'[r] = rows[r] + 1
          /\ r \in Part /\ todo.how # "add" => rows'[r] = 0
      BY <1>1, <2>2, WrittenTyped DEF TypeOK
    <3>3. r \in Part /\ todo.how = "add" => rows[r] <= faults
      BY <3>1 DEF Counted
    <3>4. rows[r] <= 1 + faults
      BY DEF Counted
    <3>5. QED
      BY <1>3, <3>2, <3>3, <3>4
  <2>3. QED
    BY <1>1, <2>1, <2>2
<1>6. rows'[r] \in Nat
  BY <1>1, <1>3, WrittenTyped DEF TypeOK, Copies
<1>7. QED
  BY <1>1, <1>2, <1>3, <1>4, <1>5, <1>6 DEF Counted

LEMMA QuietCounts ==
  ASSUME IInv, NEW r \in Rules, Counted(r),
         \/ CreateEnforcer \/ DestroyEnforcer \/ CallStep
         \/ SkipPart \/ Reply \/ UNCHANGED vars
  PROVE  Counted(r)'
<1>1. memory[r] \in Nat /\ rows[r] \in Nat /\ faults \in Nat
  BY CountsTyped DEF IInv
<1>2. CASE CreateEnforcer
  BY <1>1, <1>2 DEF CreateEnforcer, Counted, Pending
<1>3. CASE DestroyEnforcer
  BY <1>1, <1>3 DEF DestroyEnforcer, Counted, Pending, None
<1>4. CASE CallStep
  BY <1>1, <1>4, CallIsMutator DEF Call, Counted, Pending
<1>5. CASE SkipPart \/ Reply
  <2>1. /\ pc \in {"memory", "reply"} /\ pc' \in {"memory", "reply", "idle"}
        /\ UNCHANGED <<memory, rows, faults>>
    BY <1>5 DEF SkipPart, Advance, Reply
  <2>2. Pending = {} /\ Pending' = {}
    BY <2>1 DEF Pending
  <2>3. QED
    BY <2>1, <2>2 DEF Counted
<1>6. CASE UNCHANGED vars
  BY <1>6 DEF vars, Counted, Pending, Part
<1>7. QED
  BY <1>2, <1>3, <1>4, <1>5, <1>6

LEMMA StepCounts == IInv /\ CountInv /\ [Next]_vars => CountInv'
<1> SUFFICES ASSUME IInv, [Next]_vars, TableInPolarity,
                    NEW r \in Rules, Counted(r)
             PROVE  Counted(r)'
  <2>1. CountInv' <=> (TableInPolarity => \A r \in Rules : Counted(r)')
    BY DEF CountInv, CopiesBounded, Counted
  <2>2. QED
    BY <2>1, CountedByRule
<1>1. QED
  BY ChangeMemoryCounts, CommitCounts, FaultCounts, QuietCounts DEF Next, CallStep

(* Each fault, and no call that succeeds, can leave one more copy of a     *)
(* rule in the table.                                                      *)
THEOREM StoreCopiesBounded == Spec => []CopiesBounded
<1>1. Init => CountInv
  <2> SUFFICES ASSUME Init, NEW r \in Rules PROVE Counted(r)
    BY CountedByRule
  <2>1. rows[r] \in 0 .. 1 /\ memory[r] = 0 /\ pc = "down" /\ faults = 0
    BY DEF Init, None
  <2>2. QED
    BY <2>1 DEF Counted, Pending
<1>2. IInv /\ CountInv /\ [Next]_vars => CountInv'
  BY StepCounts
<1>3. CountInv => CopiesBounded
  BY DEF CountInv
<1>4. QED
  BY <1>1, <1>2, <1>3, StoreIInv, PTL DEF Spec
=============================================================================
