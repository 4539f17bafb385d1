-------------------------- MODULE CasbinNifProofs ---------------------------
(***************************************************************************)
(* Proofs about the NIF layer of module CasbinNif for every number of      *)
(* threads, enforcers, rules and requests: which calls may overlap without *)
(* harm to the global pointer, and which without harm to the cache.        *)
(***************************************************************************)
EXTENDS CasbinNif, RbacProofs

-----------------------------------------------------------------------------
(* Calls.                                                                  *)

(* What a call does: the thread is at the first location of its handler.   *)
LEMMA CallStarts ==
  ASSUME NEW t \in Threads, Call(t)
  PROVE  \E loc \in {"enforce", "query", "mutate", "create", "destroy"} :
            /\ Start(t, loc)
            /\ req' = req \/ \E q \in Requests : req' = [req EXCEPT ![t] = q]
            /\ \/ loc # "mutate" /\ todo' = todo
               \/ \E op \in MutatorOps : todo' = [todo EXCEPT ![t] = op]
<1>1. CASE Enforce(t)
  BY <1>1 DEF Enforce
<1>2. CASE Query(t)
  BY <1>2 DEF Query
<1>3. CASE CreateEnforcer(t)
  BY <1>3 DEF CreateEnforcer
<1>4. CASE DestroyEnforcer(t)
  BY <1>4 DEF DestroyEnforcer
<1>5. ASSUME NEW ops \in SUBSET MutatorOps, Mutate(t, ops)
      PROVE  /\ Start(t, "mutate") /\ req' = req
             /\ \E op \in MutatorOps : todo' = [todo EXCEPT ![t] = op]
  BY <1>5 DEF Mutate
<1>6. QED
  BY <1>1, <1>2, <1>3, <1>4, <1>5
     DEF Call, MutatorOps, AddPolicy, RemovePolicy, RemoveFilteredPolicy,
         AddGroupingPolicy, AddRoleForUser, AddRolesForUser, DeleteRoleForUser,
         DeleteRolesForUser, DeleteRole

-----------------------------------------------------------------------------
(* Type correctness.                                                       *)

LEMMA NoOpType == NoOp \in Ops
BY EmptySeq DEF NoOp, Op, Ops

LEMMA ApplyType ==
  ASSUME NEW op \in Ops, op.parts # <<>>, NEW S \in SUBSET Rules
  PROVE  Apply(op, S) \in SUBSET Rules
<1>1. Head(op.parts) \in SUBSET Rules
  BY HeadTailProperties DEF Ops
<1>2. QED
  BY <1>1 DEF Apply

LEMMA NothingCachedType ==
  NothingCached \in [Requests -> {"miss", "allow", "deny"}]
BY DEF NothingCached

LEMMA InitTypeOK == Init => TypeOK
BY NifAssumption, NoOpType, NothingCachedType
   DEF Init, TypeOK, HeapTypeOK, Location

(* The parts the handlers' steps are made of keep the types.               *)
LEMMA GotoType ==
  ASSUME TypeOK, NEW t \in Threads, NEW from, NEW to \in Location,
         Goto(t, from, to)
  PROVE  pc' \in [Threads -> Location]
BY DEF TypeOK, Goto

LEMMA LeaveType ==
  ASSUME TypeOK, NEW t \in Threads, NEW from, Leave(t, from),
         HeapTypeOK', dec' \in [Threads -> {"none", "allow", "deny", "error"}]
  PROVE  TypeOK'
<1>1. pc' \in [Threads -> Location]
  BY GotoType DEF Leave, Location
<1>2. todo' \in [Threads -> Ops]
  BY NoOpType DEF Leave, TypeOK
<1>3. QED
  BY <1>1, <1>2 DEF Leave, TypeOK

LEMMA HeapUnchanged == HeapTypeOK /\ UNCHANGED heap => HeapTypeOK'
BY DEF HeapTypeOK, heap

LEMMA UndefinedType ==
  ASSUME TypeOK, NEW t \in Threads, NEW from,
         NEW what \in {"null", "dangling", "race"}, Undefined(t, from, what)
  PROVE  TypeOK'
<1>1. pc' \in [Threads -> Location]
  BY GotoType DEF Undefined, Location
<1>2. QED
  BY <1>1, HeapUnchanged DEF Undefined, TypeOK

LEMMA GuardType ==
  ASSUME TypeOK, NEW t \in Threads, NEW from, NEW to \in Location,
         Guard(t, from, to)
  PROVE  TypeOK'
<1>1. CASE Leave(t, from) /\ dec' = [dec EXCEPT ![t] = "error"] /\ UNCHANGED heap
  BY <1>1, LeaveType, HeapUnchanged DEF TypeOK
<1>2. CASE Goto(t, from, to) /\ UNCHANGED <<enforcer, heap, this, req, todo, dec, vm>>
  BY <1>2, GotoType, HeapUnchanged DEF TypeOK
<1>3. QED
  BY <1>1, <1>2 DEF Guard

LEMMA AccessType ==
  ASSUME TypeOK, NEW t \in Threads, NEW from, NEW to \in Location,
         NEW o \in Objects \cup {NULL}, NEW others, Access(t, from, to, o, others)
  PROVE  TypeOK'
<1>1. CASE Undefined(t, from, "race")
  BY <1>1, UndefinedType
<1>2. CASE /\ Goto(t, from, to)
           /\ this' = [this EXCEPT ![t] = o]
           /\ UNCHANGED <<enforcer, heap, req, todo, dec, vm>>
  BY <1>2, GotoType, HeapUnchanged DEF TypeOK
<1>3. QED
  BY <1>1, <1>2 DEF Access

LEMMA EditDoneType ==
  ASSUME TypeOK, NEW t \in Threads, NEW from, EditDone(t, from),
         HeapTypeOK', dec' = dec
  PROVE  TypeOK'
<1>1. CASE Leave(t, from)
  BY <1>1, LeaveType DEF TypeOK
<1>2. CASE /\ Len(todo[t].parts) > 1
           /\ Goto(t, from, "again")
           /\ todo' = [todo EXCEPT ![t] = Op(todo[t].how, Tail(todo[t].parts))]
           /\ UNCHANGED <<enforcer, this, req, vm>>
  <2>1. todo' \in [Threads -> Ops]
    BY <1>2, RestOfOp DEF TypeOK, Ops, Op
  <2>2. pc' \in [Threads -> Location]
    BY <1>2, GotoType DEF Location, WriterLocs
  <2>3. QED
    BY <1>2, <2>1, <2>2 DEF TypeOK
<1>3. QED
  BY <1>1, <1>2 DEF EditDone

LEMMA CallType == ASSUME TypeOK, NEW t \in Threads, Call(t) PROVE TypeOK'
<1>1. PICK loc \in {"enforce", "query", "mutate", "create", "destroy"} :
            /\ Start(t, loc)
            /\ req' = req \/ \E q \in Requests : req' = [req EXCEPT ![t] = q]
            /\ \/ loc # "mutate" /\ todo' = todo
               \/ \E op \in MutatorOps : todo' = [todo EXCEPT ![t] = op]
  BY CallStarts
<1>2. loc \in Location
  BY DEF Location, ReaderLocs, WriterLocs, LifecycleLocs
<1>3. todo' \in [Threads -> Ops] /\ req' \in [Threads -> Requests]
  BY <1>1, MutatorOpsTyped DEF TypeOK
<1>4. QED
  BY <1>1, <1>2, <1>3, HeapUnchanged DEF Start, TypeOK

LEMMA ReaderType ==
  ASSUME TypeOK, CallInv, NEW t \in Threads, ReaderStep(t)
  PROVE  TypeOK'
<1> USE DEF Location, ReaderLocs
<1>1. CASE EnforceGuard(t) \/ QueryGuard(t)
  BY <1>1, GuardType DEF EnforceGuard, QueryGuard
<1>2. CASE BadUse(t, "lookup") \/ BadUse(t, "find")
  BY <1>2, UndefinedType DEF BadUse
<1>3. CASE Usable /\ (\/ Access(t, "lookup", "evaluating", enforcer, Writing(enforcer))
                      \/ Access(t, "find", "reading", enforcer, Writing(enforcer)))
  BY <1>3, AccessType DEF Usable, TypeOK
<1>4. CASE /\ Usable
           /\ cache[enforcer][req[t]] # "miss"
           /\ Leave(t, "lookup")
           /\ dec' = [dec EXCEPT ![t] = cache[enforcer][req[t]]]
           /\ UNCHANGED heap
  <2>1. cache[enforcer][req[t]] \in {"allow", "deny"}
    BY <1>4 DEF Usable, TypeOK, HeapTypeOK
  <2>2. dec' \in [Threads -> {"none", "allow", "deny", "error"}]
    BY <1>4, <2>1 DEF TypeOK
  <2>3. QED
    BY <1>4, <2>2, LeaveType, HeapUnchanged DEF TypeOK
<1>5. CASE Evaluate(t)
  <2>1. pc' \in [Threads -> Location]
    BY <1>5, GotoType DEF Evaluate
  <2>2. QED
    BY <1>5, <2>1, HeapUnchanged DEF Evaluate, TypeOK, Decision
<1>6. CASE Store(t)
  <2>1. HeapTypeOK'
    BY <1>6 DEF Store, Goto, Leave, CallInv, TypeOK, HeapTypeOK
  <2>2. QED
    BY <1>6, <2>1, LeaveType DEF Store, TypeOK
<1>7. CASE Read(t)
  BY <1>7, LeaveType, HeapUnchanged DEF Read, TypeOK
<1>8. QED
  BY <1>1, <1>2, <1>3, <1>4, <1>5, <1>6, <1>7 DEF ReaderStep, Lookup, Find

LEMMA WriterType ==
  ASSUME TypeOK, CallInv, NEW t \in Threads, WriterStep(t)
  PROVE  TypeOK'
<1> USE DEF Location, WriterLocs
<1>1. CASE MutateGuard(t)
  BY <1>1, GuardType DEF MutateGuard
<1>2. CASE BadUse(t, "invalidate") \/ BadUse(t, "enter")
  BY <1>2, UndefinedType DEF BadUse
<1>3. CASE /\ Usable
           /\ Access(t, "enter", "editing", enforcer,
                     Reading(enforcer) \cup Writing(enforcer))
  BY <1>3, AccessType DEF Usable, TypeOK
<1>4. CASE /\ Usable
           /\ Goto(t, "invalidate", "enter")
           /\ cache' = [cache EXCEPT ![enforcer] = NothingCached]
           /\ UNCHANGED <<enforcer, status, policy, rows, this, req, todo, dec, vm>>
  <2>1. pc' \in [Threads -> Location]
    BY <1>4, GotoType
  <2>2. HeapTypeOK'
    BY <1>4, NothingCachedType DEF TypeOK, HeapTypeOK
  <2>3. QED
    BY <1>4, <2>1, <2>2 DEF TypeOK
<1>5. CASE EnterAgain(t)
  <2>1. this[t] \in Objects \/ this[t] = NULL
    BY DEF TypeOK
  <2>2. QED
    BY <1>5, AccessType, <2>1 DEF EnterAgain
<1>6. CASE Edit(t)
  <2>1. pc[t] = "editing"
    BY <1>6 DEF Edit
  <2>2. todo[t] \in Ops /\ todo[t].parts # <<>>
    BY <2>1 DEF TypeOK, CallInv
  <2>3. CASE EditDone(t, "editing") /\ UNCHANGED <<heap, dec>>
    BY <2>3, EditDoneType, HeapUnchanged DEF TypeOK
  <2>4. CASE /\ Goto(t, "editing", "persist")
             /\ policy' = [policy EXCEPT ![this[t]] =
                              Apply(todo[t], policy[this[t]])]
             /\ UNCHANGED <<enforcer, status, cache, rows, this, req, todo, dec, vm>>
    <3>1. pc' \in [Threads -> Location]
      BY <2>4, GotoType
    <3>2. \A S \in SUBSET Rules : Apply(todo[t], S) \in SUBSET Rules
      BY <2>2, ApplyType
    <3>3. policy' \in [Objects -> SUBSET Rules]
      BY <2>4, <3>2 DEF TypeOK, HeapTypeOK
    <3>4. QED
      BY <2>4, <3>1, <3>3 DEF TypeOK, HeapTypeOK
  <2>5. QED
    BY <1>6, <2>3, <2>4 DEF Edit
<1>7. CASE Persist(t)
  <2>1. CASE Leave(t, "persist") /\ dec' = [dec EXCEPT ![t] = "error"]
             /\ UNCHANGED heap
    BY <2>1, LeaveType, HeapUnchanged DEF TypeOK
  <2>2. CASE /\ EditDone(t, "persist")
             /\ rows' = Apply(todo[t], rows)
             /\ UNCHANGED <<status, policy, cache, dec>>
    <3>1. pc[t] = "persist"
      BY <2>2 DEF EditDone, Goto, Leave
    <3>2. todo[t] \in Ops /\ todo[t].parts # <<>>
      BY <3>1 DEF TypeOK, CallInv
    <3>3. HeapTypeOK'
      BY <2>2, <3>2, ApplyType DEF TypeOK, HeapTypeOK
    <3>4. QED
      BY <2>2, <3>3, EditDoneType
  <2>3. QED
    BY <1>7, <2>1, <2>2 DEF Persist
<1>8. QED
  BY <1>1, <1>2, <1>3, <1>4, <1>5, <1>6, <1>7
     DEF WriterStep, Invalidate, Enter

LEMMA LifecycleType ==
  ASSUME TypeOK, NEW t \in Threads, LifecycleStep(t)
  PROVE  TypeOK'
<1> USE DEF Location, LifecycleLocs
<1>1. CASE Construct(t)
  <2>1. CASE Leave(t, "create") /\ dec' = [dec EXCEPT ![t] = "error"]
             /\ UNCHANGED heap
    BY <2>1, LeaveType, HeapUnchanged DEF TypeOK
  <2>2. ASSUME NEW o \in Objects,
               /\ Goto(t, "create", "publish")
               /\ status' = [status EXCEPT ![o] = "alive"]
               /\ policy' = [policy EXCEPT ![o] = rows]
               /\ this' = [this EXCEPT ![t] = o]
               /\ UNCHANGED <<enforcer, cache, rows, req, todo, dec, vm>>
        PROVE  TypeOK'
    <3>1. pc' \in [Threads -> Location]
      BY <2>2, GotoType
    <3>2. HeapTypeOK'
      BY <2>2 DEF TypeOK, HeapTypeOK
    <3>3. QED
      BY <2>2, <3>1, <3>2 DEF TypeOK
  <2>3. QED
    BY <1>1, <2>1, <2>2 DEF Construct
<1>2. CASE Publish(t) \/ Clear(t)
  <2>1. pc' \in [Threads -> Location]
    BY <1>2, GotoType DEF Publish, Clear
  <2>2. QED
    BY <1>2, <2>1, HeapUnchanged DEF Publish, Clear, TypeOK
<1>3. CASE DestroyGuard(t)
  <2>1. pc' \in [Threads -> Location]
    BY <1>3, GotoType DEF DestroyGuard
  <2>2. QED
    BY <1>3, <2>1, HeapUnchanged DEF DestroyGuard, TypeOK
<1>4. CASE Delete(t)
  <2>1. CASE Undefined(t, "delete", "dangling")
    BY <2>1, UndefinedType
  <2>2. CASE /\ Goto(t, "delete", "clear")
             /\ status' = [status EXCEPT ![this[t]] = "deleted"]
             /\ policy' = [policy EXCEPT ![this[t]] = {}]
             /\ cache' = [cache EXCEPT ![this[t]] = NothingCached]
             /\ UNCHANGED <<enforcer, rows, this, req, todo, dec, vm>>
    <3>1. pc' \in [Threads -> Location]
      BY <2>2, GotoType
    <3>2. HeapTypeOK'
      BY <2>2, NothingCachedType DEF TypeOK, HeapTypeOK
    <3>3. QED
      BY <2>2, <3>1, <3>2 DEF TypeOK
  <2>3. QED
    BY <1>4, <2>1, <2>2 DEF Delete
<1>5. QED
  BY <1>1, <1>2, <1>3, <1>4 DEF LifecycleStep

-----------------------------------------------------------------------------
(* What the threads carry with them.                                       *)

LEMMA StepCallInv == TypeOK /\ CallInv /\ [Next]_vars => CallInv'
<1> SUFFICES ASSUME TypeOK, CallInv, [Next]_vars PROVE CallInv'
  OBVIOUS
<1> USE DEF CallInv, WriterLocs, Goto, Leave, Undefined
<1> TypeOK
  OBVIOUS
<1>1. CASE UNCHANGED vars
  BY <1>1 DEF vars, locals
<1>2. ASSUME NEW t \in Threads, Call(t) PROVE CallInv'
  BY <1>2, CallStarts, MutatorOpsTyped DEF Start, TypeOK
<1>3. ASSUME NEW t \in Threads, ReaderStep(t) PROVE CallInv'
  BY <1>3 DEF ReaderStep, EnforceGuard, QueryGuard, Guard, Lookup, Find, Read,
              BadUse, Access, Evaluate, Decision, Store, TypeOK
<1>4. ASSUME NEW t \in Threads, MutateGuard(t) \/ Invalidate(t) PROVE CallInv'
  BY <1>4 DEF MutateGuard, Guard, Invalidate, BadUse, TypeOK
<1>5. ASSUME NEW t \in Threads, Enter(t) \/ EnterAgain(t) PROVE CallInv'
  BY <1>5 DEF Enter, EnterAgain, BadUse, Access, TypeOK
<1>6. ASSUME NEW t \in Threads, Edit(t) \/ Persist(t) PROVE CallInv'
  BY <1>6, RestOfOp DEF Ops, Op, Edit, Persist, EditDone, TypeOK
<1>7. ASSUME NEW t \in Threads, LifecycleStep(t) PROVE CallInv'
  BY <1>7 DEF LifecycleStep, Construct, Publish, DestroyGuard, Delete, Clear,
              TypeOK
<1>8. QED
  BY <1>1, <1>2, <1>3, <1>4, <1>5, <1>6, <1>7 DEF Next, Step, WriterStep

LEMMA StepTypeOK == TypeOK /\ CallInv /\ [Next]_vars => TypeOK'
<1> SUFFICES ASSUME TypeOK, CallInv, [Next]_vars PROVE TypeOK'
  OBVIOUS
<1>1. CASE UNCHANGED vars
  BY <1>1, HeapUnchanged DEF vars, locals, TypeOK
<1>2. QED
  BY <1>1, CallType, ReaderType, WriterType, LifecycleType DEF Next, Step

LEMMA NifTyped == Spec => [](TypeOK /\ CallInv)
<1>1. Init => CallInv
  BY DEF Init, CallInv, WriterLocs
<1>2. QED
  BY <1>1, InitTypeOK, StepTypeOK, StepCallInv, PTL DEF Spec

(* The variables of the NIF layer keep their types, whatever overlaps.     *)
THEOREM NifTypeOK == Spec => []TypeOK
BY NifTyped, PTL

-----------------------------------------------------------------------------
(* Which calls run at the same time.                                       *)

(* A step of a handler keeps its thread in the handler or ends the call.   *)
LEMMA StepMoves ==
  ASSUME TypeOK, NEW t \in Threads, Step(t)
  PROVE  /\ pc[t] # "idle" /\ vm = "up"
         /\ \E loc \in Location :
               /\ pc' = [pc EXCEPT ![t] = loc]
               /\ loc = "idle" \/ KindOf(loc) = KindOf(pc[t])
<1> USE DEF Location, ReaderLocs, WriterLocs, LifecycleLocs, KindOf, Goto,
        Leave, Undefined
<1>1. CASE ReaderStep(t)
  BY <1>1 DEF ReaderStep, EnforceGuard, QueryGuard, Guard, Lookup, Find, Read,
              BadUse, Access, Evaluate, Store
<1>2. CASE WriterStep(t)
  BY <1>2 DEF WriterStep, MutateGuard, Guard, Invalidate, Enter, EnterAgain,
              BadUse, Access, Edit, Persist, EditDone
<1>3. CASE LifecycleStep(t)
  BY <1>3 DEF LifecycleStep, Construct, Publish, DestroyGuard, Delete, Clear
<1>4. QED
  BY <1>1, <1>2, <1>3 DEF Step

LEMMA StepOverlapInv == TypeOK /\ OverlapInv /\ [Next]_vars => OverlapInv'
<1> SUFFICES ASSUME TypeOK, OverlapInv, [Next]_vars PROVE OverlapInv'
  OBVIOUS
<1>1. CASE UNCHANGED vars
  BY <1>1 DEF vars, locals, OverlapInv
<1>2. ASSUME NEW t \in Threads, Call(t) PROVE OverlapInv'
  <2>1. PICK loc \in {"enforce", "query", "mutate", "create", "destroy"} :
               Start(t, loc)
    BY <1>2, CallStarts
  <2>2. pc' = [pc EXCEPT ![t] = loc] /\ MayStart(KindOf(loc))
    BY <2>1 DEF Start
  <2>3. QED
    BY <2>2 DEF OverlapInv, MayStart, TypeOK
<1>3. ASSUME NEW t \in Threads, Step(t) PROVE OverlapInv'
  <2>1. pc[t] # "idle"
    BY <1>3, StepMoves
  <2>2. PICK loc \in Location :
               /\ pc' = [pc EXCEPT ![t] = loc]
               /\ loc = "idle" \/ KindOf(loc) = KindOf(pc[t])
    BY <1>3, StepMoves
  <2>3. QED
    BY <2>1, <2>2 DEF OverlapInv, TypeOK
<1>4. QED
  BY <1>1, <1>2, <1>3 DEF Next

LEMMA LifecycleAlone ==
  ASSUME LifecycleExclusive, TypeOK, OverlapInv,
         NEW t \in Threads, pc[t] \in LifecycleLocs, NEW u \in Threads, u # t
  PROVE  pc[u] = "idle"
<1>1. KindOf(pc[t]) = "lifecycle" /\ pc[t] # "idle"
  BY DEF KindOf, ReaderLocs, WriterLocs, LifecycleLocs
<1>2. KindOf(pc[u]) \in Kinds
  BY DEF KindOf, Kinds
<1>3. QED
  BY <1>1, <1>2 DEF OverlapInv, LifecycleExclusive

LEMMA WriterAlone ==
  ASSUME OnlyReadersOverlap, TypeOK, OverlapInv,
         NEW t \in Threads, pc[t] \in WriterLocs \cup LifecycleLocs,
         NEW u \in Threads, u # t
  PROVE  pc[u] = "idle"
<1>1. KindOf(pc[t]) # "reader" /\ pc[t] # "idle"
  BY DEF KindOf, ReaderLocs, WriterLocs, LifecycleLocs
<1>2. QED
  BY <1>1 DEF OverlapInv, OnlyReadersOverlap

LEMMA ReadersLeaveLifecycleAlone == OnlyReadersOverlap => LifecycleExclusive
BY DEF OnlyReadersOverlap, LifecycleExclusive

-----------------------------------------------------------------------------
(* The pointer is safe while lifecycle calls run alone.                    *)

PointerSafe == TypeOK /\ OverlapInv /\ PointerInv /\ NoBadPointer

LEMMA StepPointer ==
  ASSUME LifecycleExclusive, PointerSafe, [Next]_vars
  PROVE  PointerInv' /\ NoBadPointer'
<1> USE DEF PointerSafe, PointerInv, NoBadPointer
<1>1. CASE UNCHANGED vars
  BY <1>1 DEF vars, locals, heap, GlobalInv, RegisterInv, Usable
<1>2. ASSUME NEW t \in Threads, Call(t) PROVE PointerInv' /\ NoBadPointer'
  <2>1. PICK loc \in {"enforce", "query", "mutate", "create", "destroy"} :
               Start(t, loc)
    BY <1>2, CallStarts
  <2>2. QED
    BY <2>1 DEF Start, heap, ReaderLocs, WriterLocs, TypeOK, GlobalInv,
                RegisterInv, Usable
<1>3. ASSUME NEW t \in Threads, NEW from \in {"enforce", "query", "mutate"},
             NEW to \in {"lookup", "find", "invalidate"}, Guard(t, from, to)
      PROVE  PointerInv' /\ NoBadPointer'
  <2>1. pc[t] = from
    BY <1>3 DEF Guard, Goto, Leave
  <2>2. \A u \in Threads : pc[u] # "clear"
    BY <2>1, LifecycleAlone DEF LifecycleLocs
  <2>3. QED
    BY <1>3, <2>1, <2>2 DEF Guard, Goto, Leave, heap, ReaderLocs, WriterLocs,
                            TypeOK, GlobalInv, RegisterInv, Usable
<1>4. ASSUME NEW t \in Threads, ReaderStep(t) \/ WriterStep(t),
             ~EnforceGuard(t), ~QueryGuard(t), ~MutateGuard(t)
      PROVE  PointerInv' /\ NoBadPointer'
  <2>1. pc[t] \in (ReaderLocs \cup WriterLocs) \ {"enforce", "query", "mutate"}
    BY <1>4 DEF ReaderStep, WriterStep, Lookup, Evaluate, Store, Find, Read,
         Invalidate, Enter, EnterAgain, Edit, Persist, EditDone, Access, BadUse,
         Goto, Leave, Undefined, ReaderLocs, WriterLocs
  <2>2. Usable
    BY <2>1 DEF RegisterInv
  <2>3. enforcer' = enforcer /\ status' = status /\ vm' \in {vm, "race"}
    BY <1>4, <2>2 DEF ReaderStep, WriterStep, Lookup, Evaluate, Store, Find,
         Read, Invalidate, Enter, EnterAgain, Edit, Persist, EditDone, Access,
         BadUse, Goto, Leave, Undefined, heap
  <2>4. Usable'
    BY <2>2, <2>3 DEF Usable
  <2>5. \A u \in Threads \ {t} : pc'[u] = pc[u] /\ this'[u] = this[u]
    BY <1>4, <2>2 DEF ReaderStep, WriterStep, Lookup, Evaluate, Store, Find,
         Read, Invalidate, Enter, EnterAgain, Edit, Persist, EditDone, Access,
         BadUse, Goto, Leave, Undefined, TypeOK
  <2>6. /\ pc'[t] \notin {"publish", "delete"}
        /\ pc'[t] \in {"evaluating", "store", "reading", "editing", "persist",
                       "again"} => this'[t] = enforcer
    <3>1. RegisterInv(t)
      OBVIOUS
    <3>2. CASE ReaderStep(t)
      BY <1>4, <2>2, <3>1, <3>2 DEF ReaderStep, Lookup, Evaluate, Store, Find,
         Read, Access, BadUse, Goto, Leave, Undefined, TypeOK, RegisterInv
    <3>3. CASE WriterStep(t)
      BY <1>4, <2>2, <3>1, <3>3 DEF WriterStep, Invalidate, Enter, EnterAgain,
         Edit, Persist, EditDone, Access, BadUse, Goto, Leave, Undefined,
         TypeOK, RegisterInv
    <3>4. QED
      BY <1>4, <3>2, <3>3
  <2>7. \A u \in Threads : RegisterInv(u)'
    BY <2>3, <2>4, <2>5, <2>6 DEF RegisterInv
  <2>8. QED
    BY <2>3, <2>4, <2>7 DEF GlobalInv, Usable
<1>5. ASSUME NEW t \in Threads, LifecycleStep(t)
      PROVE  PointerInv' /\ NoBadPointer'
  <2>1. pc[t] \in LifecycleLocs
    BY <1>5 DEF LifecycleStep, Construct, Publish, DestroyGuard, Delete, Clear,
                Goto, Leave, Undefined, LifecycleLocs
  <2>2. \A u \in Threads \ {t} : pc[u] = "idle"
    BY <2>1, LifecycleAlone
  <2>3. GlobalInv /\ RegisterInv(t)
    OBVIOUS
  <2>4. CASE pc[t] = "delete"
    <3>1. Inside(this[t]) = {}
      BY <2>2, <2>4 DEF Inside
    <3>2. /\ pc' = [pc EXCEPT ![t] = "clear"]
          /\ enforcer' = enforcer /\ vm' = vm
      BY <1>5, <2>3, <2>4, <3>1 DEF LifecycleStep, Construct, Publish,
         DestroyGuard, Delete, Clear, Goto, Leave, RegisterInv
    <3>3. QED
      BY <2>2, <3>2 DEF GlobalInv, RegisterInv, ReaderLocs, WriterLocs, TypeOK
  <2>5. CASE pc[t] # "delete"
    <3>1. /\ \A u \in Threads \ {t} : pc'[u] = "idle"
          /\ vm' = vm
      BY <1>5, <2>2, <2>5 DEF LifecycleStep, Construct, Publish, DestroyGuard,
         Delete, Clear, Goto, Leave, TypeOK
    <3>2. GlobalInv'
      BY <1>5, <2>2, <2>3, <2>5 DEF LifecycleStep, Construct, Publish,
         DestroyGuard, Delete, Clear, Goto, Leave, heap, TypeOK, HeapTypeOK,
         GlobalInv, RegisterInv
    <3>3. RegisterInv(t)'
      <4> USE DEF Goto, Leave, RegisterInv, ReaderLocs, WriterLocs, TypeOK
      <4>1. CASE Construct(t)
        BY NifAssumption, <4>1 DEF Construct, HeapTypeOK
      <4>2. CASE DestroyGuard(t)
        <5>1. enforcer # NULL => status[enforcer] = "alive"
          BY <2>2, <2>3, <4>2 DEF DestroyGuard, GlobalInv
        <5>2. QED
          BY <4>2, <5>1 DEF DestroyGuard, heap
      <4>3. CASE Publish(t) \/ Clear(t)
        BY <4>3 DEF Publish, Clear
      <4>4. QED
        BY <1>5, <2>5, <4>1, <4>2, <4>3 DEF LifecycleStep, Delete
    <3>4. QED
      BY <3>1, <3>2, <3>3 DEF RegisterInv, ReaderLocs, WriterLocs
  <2>6. QED
    BY <2>4, <2>5
<1>6. QED
  BY <1>1, <1>2, <1>3, <1>4, <1>5
     DEF Next, Step, ReaderStep, WriterStep, EnforceGuard, QueryGuard, MutateGuard

LEMMA NifPointerSafe ==
  ASSUME LifecycleExclusive
  PROVE  Spec => []PointerSafe
<1>1. Init => OverlapInv /\ PointerInv /\ NoBadPointer
  BY DEF Init, OverlapInv, PointerInv, GlobalInv, RegisterInv, NoBadPointer,
         ReaderLocs, WriterLocs
<1>2. PointerSafe /\ [Next]_vars => PointerInv' /\ NoBadPointer'
  BY StepPointer
<1>3. TypeOK /\ OverlapInv /\ [Next]_vars => OverlapInv'
  BY StepOverlapInv
<1>4. PointerSafe <=> TypeOK /\ OverlapInv /\ PointerInv /\ NoBadPointer
  BY DEF PointerSafe
<1>5. QED
  BY <1>1, <1>2, <1>3, <1>4, NifTypeOK, PTL DEF Spec

(* Creating and destroying the enforcer while no other call runs is enough *)
(* for the if(!enforcer) of the handlers to keep every use of the pointer  *)
(* sound, however readers and writers overlap.                             *)
THEOREM NifNoBadPointer ==
  ASSUME LifecycleExclusive
  PROVE  Spec => []NoBadPointer
<1>1. PointerSafe => NoBadPointer
  BY DEF PointerSafe
<1>2. QED
  BY <1>1, NifPointerSafe, PTL

(* In particular a call made without an enforcer is always refused.        *)
THEOREM NifNullNeverUsed ==
  ASSUME LifecycleExclusive
  PROVE  Spec => []NullNeverUsed
<1>1. NoBadPointer => NullNeverUsed
  BY DEF NoBadPointer, NullNeverUsed
<1>2. QED
  BY <1>1, NifNoBadPointer, PTL

-----------------------------------------------------------------------------
(* The pointer never dangles between calls, whatever overlaps: what a      *)
(* thread is about to publish is an enforcer that no other thread knows.   *)

FreshInv ==
    vm = "up" =>
      /\ enforcer # NULL => status[enforcer] # "unused"
      /\ \A u \in Threads : this[u] # NULL => status[this[u]] # "unused"
      /\ \A t \in Threads : pc[t] = "publish" =>
           /\ this[t] # NULL /\ status[this[t]] = "alive"
           /\ enforcer # this[t]
           /\ \A u \in Threads \ {t} : this[u] # this[t]

Fresh == TypeOK /\ FreshInv /\ PublishedAlive

(* Readers and writers create, delete and publish nothing.                 *)
LEMMA MethodStep ==
  ASSUME TypeOK, NEW t \in Threads, ReaderStep(t) \/ WriterStep(t)
  PROVE  /\ enforcer' = enforcer /\ status' = status /\ vm = "up"
         /\ pc[t] \notin {"create", "publish", "clear"}
         /\ \E loc \in Location \ {"create", "publish", "clear"} :
               pc' = [pc EXCEPT ![t] = loc]
         /\ \E o \in {NULL, this[t], enforcer} : this' = [this EXCEPT ![t] = o]
<1> USE DEF Location, ReaderLocs, WriterLocs, Goto, Leave, Undefined, Access,
        BadUse, Guard, heap, TypeOK
<1>1. CASE ReaderStep(t)
  BY <1>1 DEF ReaderStep, EnforceGuard, QueryGuard, Lookup, Find, Read,
              Evaluate, Store
<1>2. CASE WriterStep(t)
  BY <1>2 DEF WriterStep, MutateGuard, Invalidate, Enter, EnterAgain, Edit,
              Persist, EditDone
<1>3. QED
  BY <1>1, <1>2

LEMMA StepFresh ==
  ASSUME Fresh, [Next]_vars
  PROVE  FreshInv' /\ PublishedAlive'
<1> USE DEF Fresh, FreshInv, PublishedAlive
<1>1. CASE UNCHANGED vars
  BY <1>1 DEF vars, locals, heap
<1>2. ASSUME NEW t \in Threads, Call(t) PROVE FreshInv' /\ PublishedAlive'
  <2>1. PICK loc \in {"enforce", "query", "mutate", "create", "destroy"} :
               Start(t, loc)
    BY <1>2, CallStarts
  <2>2. QED
    BY <2>1 DEF Start, heap, TypeOK
<1>3. ASSUME NEW t \in Threads, ReaderStep(t) \/ WriterStep(t)
      PROVE  FreshInv' /\ PublishedAlive'
  <2>1. /\ enforcer' = enforcer /\ status' = status /\ vm = "up"
        /\ pc[t] \notin {"publish", "clear"}
    BY <1>3, MethodStep
  <2>2. PICK loc \in Location \ {"create", "publish", "clear"} :
               pc' = [pc EXCEPT ![t] = loc]
    BY <1>3, MethodStep
  <2>3. PICK o \in {NULL, this[t], enforcer} : this' = [this EXCEPT ![t] = o]
    BY <1>3, MethodStep
  <2>4. FreshInv'
    BY <2>1, <2>2, <2>3 DEF TypeOK
  <2>5. PublishedAlive'
    BY <2>1, <2>2, <2>3 DEF TypeOK
  <2>6. QED
    BY <2>4, <2>5
<1>4. ASSUME NEW t \in Threads, Construct(t) PROVE FreshInv' /\ PublishedAlive'
  <2>1. CASE Leave(t, "create") /\ UNCHANGED heap
    BY <2>1 DEF Leave, Goto, heap, TypeOK
  <2>2. ASSUME NEW o \in Objects,
               /\ status[o] = "unused"
               /\ Goto(t, "create", "publish")
               /\ status' = [status EXCEPT ![o] = "alive"]
               /\ this' = [this EXCEPT ![t] = o]
               /\ UNCHANGED <<enforcer, vm>>
        PROVE  FreshInv' /\ PublishedAlive'
    <3>1. o # NULL
      BY NifAssumption
    <3>2. QED
      BY <2>2, <3>1 DEF Goto, TypeOK, HeapTypeOK
  <2>3. QED
    BY <1>4, <2>1, <2>2 DEF Construct
<1>5. ASSUME NEW t \in Threads, Publish(t) PROVE FreshInv' /\ PublishedAlive'
  <2>1. /\ vm = "up" /\ pc[t] = "publish" /\ enforcer' = this[t]
        /\ pc' = [pc EXCEPT ![t] = "idle"] /\ this' = [this EXCEPT ![t] = NULL]
        /\ status' = status
    BY <1>5 DEF Publish, Goto, heap
  <2>2. QED
    BY <2>1 DEF TypeOK
<1>6. ASSUME NEW t \in Threads, DestroyGuard(t) \/ Clear(t)
      PROVE  FreshInv' /\ PublishedAlive'
  BY <1>6 DEF DestroyGuard, Clear, Goto, heap, TypeOK
<1>7. ASSUME NEW t \in Threads, Delete(t) PROVE FreshInv' /\ PublishedAlive'
  <2>1. CASE Undefined(t, "delete", "dangling")
    BY <2>1 DEF Undefined
  <2>2. CASE /\ Goto(t, "delete", "clear")
             /\ status[this[t]] = "alive"
             /\ status' = [status EXCEPT ![this[t]] = "deleted"]
             /\ UNCHANGED <<enforcer, this, vm>>
    BY <2>2 DEF Goto, TypeOK, HeapTypeOK
  <2>3. QED
    BY <1>7, <2>1, <2>2 DEF Delete
<1>8. QED
  BY <1>1, <1>2, <1>3, <1>4, <1>5, <1>6, <1>7 DEF Next, Step, LifecycleStep

(* An enforcer that is published is alive, but for the moment between      *)
(* delete and the assignment of nullptr.                                   *)
THEOREM NifPublishedAlive == Spec => []PublishedAlive
<1>1. Init => FreshInv /\ PublishedAlive
  BY DEF Init, FreshInv, PublishedAlive
<1>2. Fresh /\ [Next]_vars => FreshInv' /\ PublishedAlive'
  BY StepFresh
<1>3. Fresh <=> TypeOK /\ FreshInv /\ PublishedAlive
  BY DEF Fresh
<1>4. QED
  BY <1>1, <1>2, <1>3, NifTypeOK, PTL DEF Spec

-----------------------------------------------------------------------------
(* What nothing lets through stays denied, whatever calls overlap.         *)

(* A thread evaluates a request inside some object.                        *)
EvaluatingInv == \A t \in Threads : pc[t] = "evaluating" => this[t] \in Objects

LEMMA StepEvaluating == TypeOK /\ EvaluatingInv /\ [Next]_vars => EvaluatingInv'
<1> SUFFICES ASSUME TypeOK, EvaluatingInv, [Next]_vars PROVE EvaluatingInv'
  OBVIOUS
<1> USE DEF EvaluatingInv, TypeOK
<1>1. CASE UNCHANGED vars
  BY <1>1 DEF vars, locals
<1>2. ASSUME NEW t \in Threads, Call(t) PROVE EvaluatingInv'
  <2>1. PICK loc \in {"enforce", "query", "mutate", "create", "destroy"} :
               Start(t, loc)
    BY <1>2, CallStarts
  <2>2. QED
    BY <2>1 DEF Start
<1>3. ASSUME NEW t \in Threads, Lookup(t) PROVE EvaluatingInv'
  BY <1>3 DEF Lookup, Access, BadUse, Usable, Undefined, Leave, Goto
<1>4. ASSUME NEW t \in Threads, Step(t), ~Lookup(t) PROVE EvaluatingInv'
  <2>1. /\ pc'[t] # "evaluating"
        /\ \A u \in Threads \ {t} : pc'[u] = pc[u] /\ this'[u] = this[u]
    BY <1>4 DEF Step, ReaderStep, WriterStep, LifecycleStep, EnforceGuard,
       QueryGuard, MutateGuard, Guard, Evaluate, Store, Find, Read, Invalidate,
       Enter, EnterAgain, Edit, EditDone, Persist, Construct, Publish,
       DestroyGuard, Delete, Clear, Access, BadUse, Undefined, Leave, Goto
  <2>2. QED
    BY <2>1
<1>5. QED
  BY <1>1, <1>2, <1>3, <1>4 DEF Next

(* What lets a request through after a step did so before.                 *)
LEMMA GrantedBefore ==
  ASSUME NEW q, Granted(q)',
         rows' \subseteq rows,
         \A o \in Objects : policy'[o] \subseteq policy[o] \/ policy'[o] \subseteq rows,
         \A o \in Objects : cache'[o][q] = "allow" => Granted(q),
         \A t \in Threads : req'[t] = q /\ dec'[t] = "allow" => Granted(q)
  PROVE  Granted(q)
<1>1. CASE Allowed(q, rows')
  BY <1>1, AllowedMonotone DEF Granted
<1>2. ASSUME NEW o \in Objects, Allowed(q, policy'[o]) PROVE Granted(q)
  BY <1>2, AllowedMonotone DEF Granted
<1>3. QED
  BY <1>1, <1>2 DEF Granted

Adding(t) == pc[t] \in {"editing", "persist"} /\ todo[t].how = "add"

LEMMA ReaderGrants ==
  ASSUME TypeOK, EvaluatingInv, NEW t \in Threads, ReaderStep(t),
         NEW q \in Requests, Granted(q)'
  PROVE  Granted(q)
<1>1. rows' = rows /\ policy' = policy /\ req' = req
  BY DEF ReaderStep, EnforceGuard, QueryGuard, Guard, Lookup, Evaluate, Store,
     Find, Read, Access, BadUse, Undefined, Leave, heap
<1>2. \A o \in Objects : cache'[o][q] = "allow" => Granted(q)
  <2>1. CASE Store(t)
    BY <2>1 DEF Store, Leave, Granted, TypeOK, HeapTypeOK
  <2>2. CASE ~Store(t)
    <3>1. cache' = cache
      BY <2>2 DEF ReaderStep, EnforceGuard, QueryGuard, Guard, Lookup, Evaluate,
         Find, Read, Access, BadUse, Undefined, Leave, heap
    <3>2. QED
      BY <3>1 DEF Granted
  <2>3. QED
    BY <2>1, <2>2
<1>3. \A u \in Threads : req'[u] = q /\ dec'[u] = "allow" => Granted(q)
  <2>1. CASE dec' = dec
    BY <1>1, <2>1 DEF Granted
  <2>2. CASE dec' = [dec EXCEPT ![t] = "error"]
    BY <1>1, <2>2 DEF Granted, TypeOK
  <2>3. CASE Usable /\ dec' = [dec EXCEPT ![t] = cache[enforcer][req[t]]]
    BY <1>1, <2>3 DEF Granted, Usable, TypeOK
  <2>4. CASE Evaluate(t)
    <3>1. this[t] \in Objects
      BY <2>4 DEF Evaluate, Goto, EvaluatingInv
    <3>2. dec' = [dec EXCEPT ![t] = Decision(req[t], policy[this[t]])]
      BY <2>4 DEF Evaluate
    <3>3. Decision(req[t], policy[this[t]]) = "allow"
            => Allowed(req[t], policy[this[t]])
      BY DEF Decision
    <3>4. QED
      BY <1>1, <3>1, <3>2, <3>3 DEF Granted, TypeOK
  <2>5. QED
    BY <2>1, <2>2, <2>3, <2>4 DEF ReaderStep, EnforceGuard, QueryGuard, Guard,
       Lookup, Store, Find, Read, Access, BadUse, Undefined
<1>4. QED
  BY <1>1, <1>2, <1>3, GrantedBefore

LEMMA WriterGrants ==
  ASSUME TypeOK, NEW t \in Threads, WriterStep(t), ~Adding(t),
         NEW q \in Requests, Granted(q)'
  PROVE  Granted(q)
<1>1. req' = req
  BY DEF WriterStep, MutateGuard, Guard, Invalidate, Enter, EnterAgain, Edit,
     EditDone, Persist, Access, BadUse, Undefined, Leave
<1>2. \A u \in Threads : dec'[u] = "allow" => dec[u] = "allow"
  BY DEF WriterStep, MutateGuard, Guard, Invalidate, Enter, EnterAgain, Edit,
     EditDone, Persist, Access, BadUse, Undefined, Leave, TypeOK
<1>3. \A S : pc[t] \in {"editing", "persist"} => Apply(todo[t], S) \subseteq S
  BY DEF Adding, Apply
<1>4. rows' \subseteq rows
  BY <1>3 DEF WriterStep, MutateGuard, Guard, Invalidate, Enter, EnterAgain,
     Edit, EditDone, Persist, Access, BadUse, Undefined, Leave, Goto, heap
<1>5. \A o \in Objects : policy'[o] \subseteq policy[o]
  BY <1>3 DEF WriterStep, MutateGuard, Guard, Invalidate, Enter, EnterAgain,
     Edit, EditDone, Persist, Access, BadUse, Undefined, Leave, Goto, heap,
     TypeOK, HeapTypeOK
<1>6. \A o \in Objects : cache'[o][q] = "allow" => cache[o][q] = "allow"
  BY DEF WriterStep, MutateGuard, Guard, Invalidate, Enter, EnterAgain,
     Edit, EditDone, Persist, Access, BadUse, Undefined, Leave, Goto, heap,
     TypeOK, HeapTypeOK, NothingCached
<1>7. QED
  BY <1>1, <1>2, <1>4, <1>5, <1>6, GrantedBefore DEF Granted

LEMMA LifecycleGrants ==
  ASSUME TypeOK, NEW t \in Threads, LifecycleStep(t),
         NEW q \in Requests, Granted(q)'
  PROVE  Granted(q)
<1>1. rows' = rows /\ req' = req
  BY DEF LifecycleStep, Construct, Publish, DestroyGuard, Delete, Clear,
     Undefined, Leave, heap
<1>2. \A u \in Threads : dec'[u] = "allow" => dec[u] = "allow"
  BY DEF LifecycleStep, Construct, Publish, DestroyGuard, Delete, Clear,
     Undefined, Leave, TypeOK
<1>3. \A o \in Objects : policy'[o] \subseteq policy[o] \/ policy'[o] \subseteq rows
  BY DEF LifecycleStep, Construct, Publish, DestroyGuard, Delete, Clear,
     Undefined, Leave, heap, TypeOK, HeapTypeOK
<1>4. \A o \in Objects : cache'[o][q] = "allow" => cache[o][q] = "allow"
  BY DEF LifecycleStep, Construct, Publish, DestroyGuard, Delete, Clear,
     Undefined, Leave, heap, TypeOK, HeapTypeOK, NothingCached
<1>5. QED
  BY <1>1, <1>2, <1>3, <1>4, GrantedBefore DEF Granted

LEMMA CallGrants ==
  ASSUME TypeOK, NEW t \in Threads, Call(t), NEW q \in Requests, Granted(q)'
  PROVE  Granted(q)
<1>1. PICK loc \in {"enforce", "query", "mutate", "create", "destroy"} :
             /\ Start(t, loc)
             /\ req' = req \/ \E r \in Requests : req' = [req EXCEPT ![t] = r]
  BY CallStarts
<1>2. UNCHANGED heap /\ dec' = [dec EXCEPT ![t] = "none"]
  BY <1>1 DEF Start
<1>3. \A u \in Threads : dec'[u] = "allow" => u # t /\ dec[u] = "allow"
  BY <1>2 DEF TypeOK
<1>4. \A u \in Threads \ {t} : req'[u] = req[u]
  BY <1>1 DEF TypeOK
<1>5. QED
  BY <1>2, <1>3, <1>4, GrantedBefore DEF heap, Granted

(* Whatever overlaps and whatever fails, a request that no policy, no row, *)
(* no cached decision and no answer lets through is let through only after *)
(* a mutator has added a rule.                                             *)
THEOREM NifNoEscalation == Spec => NoEscalation
<1>1. Init => EvaluatingInv
  BY DEF Init, EvaluatingInv
<1>2. TypeOK /\ EvaluatingInv /\ [Next]_vars =>
        [\A q \in Requests : Granted(q)' /\ ~Granted(q) =>
           \E t \in Threads : pc[t] \in {"editing", "persist"} /\ todo[t].how = "add"]_vars
  BY ReaderGrants, WriterGrants, LifecycleGrants, CallGrants
     DEF Next, Step, Adding
<1>3. QED
  BY <1>1, <1>2, StepEvaluating, NifTypeOK, PTL DEF Spec, NoEscalation

-----------------------------------------------------------------------------
(* No enforcer is lost while lifecycle calls run alone and in pairs: the   *)
(* pointer is null when one is created, and dead when it is cleared.       *)

LeakInv ==
    /\ NoLeak
    /\ \A t \in Threads :
         /\ pc[t] \in {"create", "publish"} => enforcer = NULL
         /\ pc[t] = "clear" => enforcer = NULL \/ status[enforcer] # "alive"

LEMMA StepLeak ==
  ASSUME LifecycleExclusive, PairedLifecycle, PointerSafe, LeakInv, [Next]_vars
  PROVE  LeakInv'
<1> USE DEF PointerSafe, LeakInv, NoLeak
<1>1. CASE UNCHANGED vars
  BY <1>1 DEF vars, locals, heap
<1>2. ASSUME NEW t \in Threads, Call(t) PROVE LeakInv'
  <2>1. PICK loc \in {"enforce", "query", "mutate", "create", "destroy"} :
               Start(t, loc)
    BY <1>2, CallStarts
  <2>2. CASE loc # "create"
    BY <2>1, <2>2 DEF Start, heap, TypeOK
  <2>3. CASE loc = "create"
    <3>1. enforcer = NULL
      BY <1>2, <2>1, <2>3 DEF Call, Enforce, Query, Mutate, AddPolicy,
         RemovePolicy, RemoveFilteredPolicy, AddGroupingPolicy, AddRoleForUser,
         AddRolesForUser, DeleteRoleForUser, DeleteRolesForUser, DeleteRole,
         CreateEnforcer, DestroyEnforcer, Start, TypeOK
    <3>2. QED
      BY <2>1, <2>3, <3>1 DEF Start, heap, TypeOK
  <2>4. QED
    BY <2>2, <2>3
<1>3. ASSUME NEW t \in Threads, ReaderStep(t) \/ WriterStep(t) PROVE LeakInv'
  <2>1. /\ enforcer' = enforcer /\ status' = status /\ vm = "up"
        /\ pc[t] \notin {"create", "publish", "clear"}
    BY <1>3, MethodStep
  <2>2. PICK loc \in Location \ {"create", "publish", "clear"} :
               pc' = [pc EXCEPT ![t] = loc]
    BY <1>3, MethodStep
  <2>3. PICK o \in {NULL, this[t], enforcer} : this' = [this EXCEPT ![t] = o]
    BY <1>3, MethodStep
  <2>4. QED
    BY <2>1, <2>2, <2>3 DEF TypeOK
<1>4. ASSUME NEW t \in Threads, LifecycleStep(t) PROVE LeakInv'
  <2>1. pc[t] \in LifecycleLocs /\ vm = "up"
    BY <1>4 DEF LifecycleStep, Construct, Publish, DestroyGuard, Delete, Clear,
                Goto, Leave, Undefined, LifecycleLocs
  <2>2. \A u \in Threads \ {t} : pc[u] = "idle"
    BY <2>1, LifecycleAlone
  <2>3. \A u \in Threads \ {t} : pc'[u] = "idle"
    BY <1>4, <2>2 DEF LifecycleStep, Construct, Publish, DestroyGuard, Delete,
       Clear, Goto, Leave, Undefined, TypeOK
  <2>4. CASE Construct(t)
    BY <2>1, <2>2, <2>3, <2>4
       DEF Construct, Goto, Leave, heap, TypeOK, HeapTypeOK
  <2>5. CASE Publish(t)
    BY NifAssumption, <2>2, <2>3, <2>5 DEF Publish, Goto, heap, TypeOK
  <2>6. CASE DestroyGuard(t)
    BY <2>2, <2>3, <2>6 DEF DestroyGuard, Goto, heap, TypeOK
  <2>7. CASE Clear(t)
    BY <2>2, <2>3, <2>7 DEF Clear, Goto, heap, TypeOK
  <2>8. CASE Delete(t)
    <3>1. this[t] = enforcer /\ this[t] # NULL /\ Inside(this[t]) = {}
      BY <2>2, <2>8 DEF Delete, Goto, Undefined, PointerInv, RegisterInv, Inside
    <3>2. QED
      BY <2>1, <2>2, <2>3, <2>8, <3>1
         DEF Delete, Goto, Undefined, PointerInv, RegisterInv, TypeOK, HeapTypeOK
  <2>9. QED
    BY <1>4, <2>4, <2>5, <2>6, <2>7, <2>8 DEF LifecycleStep
<1>5. QED
  BY <1>1, <1>2, <1>3, <1>4 DEF Next, Step

(* So the enforcers that are alive, each with four connections, are never  *)
(* more than one that a later call can still destroy.                      *)
THEOREM NifNoLeak ==
  ASSUME LifecycleExclusive, PairedLifecycle
  PROVE  Spec => []NoLeak
<1>1. Init => LeakInv
  BY DEF Init, LeakInv, NoLeak
<1>2. PointerSafe /\ LeakInv /\ [Next]_vars => LeakInv'
  BY StepLeak
<1>3. LeakInv => NoLeak
  BY DEF LeakInv
<1>4. QED
  BY <1>1, <1>2, <1>3, NifPointerSafe, PTL DEF Spec

-----------------------------------------------------------------------------
(* No policy is touched by two threads while only readers overlap.         *)

RaceSafe == PointerSafe /\ NoUndefinedBehaviour

(* A mutator past the invalidation, or a lifecycle call, runs alone; so no *)
(* policy is read or written while another thread writes it.               *)
LEMMA NobodyWrites ==
  ASSUME OnlyReadersOverlap, PointerSafe, NEW t \in Threads, pc[t] # "idle",
         pc[t] # "editing", NEW o
  PROVE  /\ Writing(o) = {}
         /\ pc[t] \in WriterLocs => Reading(o) = {}
<1> USE DEF PointerSafe
<1>1. Writing(o) = {}
  BY WriterAlone DEF Writing, Inside, WriterLocs
<1>2. ASSUME pc[t] \in WriterLocs PROVE Reading(o) = {}
  <2>1. \A u \in Threads \ {t} : pc[u] = "idle"
    BY <1>2, WriterAlone
  <2>2. QED
    BY <1>2, <2>1 DEF Reading, Inside, WriterLocs
<1>3. QED
  BY <1>1, <1>2

LEMMA StepNoRace ==
  ASSUME OnlyReadersOverlap, RaceSafe, [Next]_vars
  PROVE  NoUndefinedBehaviour'
<1> USE DEF RaceSafe, PointerSafe, NoUndefinedBehaviour
<1>1. CASE UNCHANGED vars
  BY <1>1 DEF vars
<1>2. ASSUME NEW t \in Threads, Call(t) PROVE vm' = vm
  BY <1>2, CallStarts DEF Start
<1>3. ASSUME NEW t \in Threads, Step(t) PROVE vm' = vm
  <2>1. RegisterInv(t)
    BY DEF PointerInv
  <2>2. CASE ReaderStep(t)
    <3>1. pc[t] \in ReaderLocs
      BY <2>2 DEF ReaderStep, EnforceGuard, QueryGuard, Guard, Lookup, Find,
         Read, Access, BadUse, Evaluate, Store, Goto, Leave, Undefined, ReaderLocs
    <3>2. Writing(enforcer) = {}
      BY <3>1, NobodyWrites DEF ReaderLocs
    <3>3. QED
      BY <2>1, <2>2, <3>2 DEF ReaderStep, EnforceGuard, QueryGuard, Guard,
         Lookup, Find, Read, Access, BadUse, Evaluate, Store, Goto, Leave,
         Undefined, RegisterInv, ReaderLocs
  <2>3. CASE WriterStep(t)
    <3>1. pc[t] \in WriterLocs
      BY <2>3 DEF WriterStep, MutateGuard, Guard, Invalidate, Enter, EnterAgain,
         Edit, Persist, EditDone, Access, BadUse, Goto, Leave, Undefined,
         WriterLocs
    <3>2. pc[t] # "editing" => \A o : Reading(o) = {} /\ Writing(o) = {}
      BY <3>1, NobodyWrites DEF WriterLocs
    <3>3. QED
      BY <2>1, <2>3, <3>2 DEF WriterStep, MutateGuard, Guard, Invalidate, Enter,
         EnterAgain, Edit, Persist, EditDone, Access, BadUse, Goto, Leave,
         Undefined, RegisterInv, WriterLocs
  <2>4. CASE LifecycleStep(t)
    <3>1. pc[t] \in LifecycleLocs
      BY <2>4 DEF LifecycleStep, Construct, Publish, DestroyGuard, Delete, Clear,
         Goto, Leave, Undefined, LifecycleLocs
    <3>2. pc[t] = "delete" => Inside(this[t]) = {}
      BY <3>1, WriterAlone DEF Inside
    <3>3. QED
      BY <2>1, <2>4, <3>2 DEF LifecycleStep, Construct, Publish, DestroyGuard,
         Delete, Clear, Leave, Undefined, RegisterInv
  <2>5. QED
    BY <1>3, <2>2, <2>3, <2>4 DEF Step
<1>4. QED
  BY <1>1, <1>2, <1>3 DEF Next

(* As long as callers let nothing but readers overlap, the handlers need   *)
(* no lock: no use of the pointer is unsound and no policy is touched by   *)
(* two threads.                                                            *)
THEOREM NifNoUndefinedBehaviour ==
  ASSUME OnlyReadersOverlap
  PROVE  Spec => []NoUndefinedBehaviour
<1>1. Init => NoUndefinedBehaviour
  BY DEF Init, NoUndefinedBehaviour
<1>2. RaceSafe /\ [Next]_vars => NoUndefinedBehaviour'
  BY StepNoRace
<1>3. RaceSafe <=> PointerSafe /\ NoUndefinedBehaviour
  BY DEF RaceSafe
<1>4. Spec => []PointerSafe
  BY NifPointerSafe, ReadersLeaveLifecycleAlone
<1>5. QED
  BY <1>1, <1>2, <1>3, <1>4, PTL DEF Spec

-----------------------------------------------------------------------------
(* The cache is coherent while no reader overlaps a writer.  Two writers   *)
(* may be at the policy at once, which is a data race, but up to it each   *)
(* of them keeps the cache empty for both.                                 *)

CacheSafe == PointerSafe /\ CacheInv

(* Who is in a call while a reader, or a writer, is in one.                *)
LEMMA KindsApart ==
  ASSUME ReadersApart, TypeOK, OverlapInv, NEW t \in Threads,
         NEW u \in Threads, u # t
  PROVE  /\ pc[t] \in ReaderLocs => pc[u] \in {"idle"} \cup ReaderLocs
         /\ pc[t] \in WriterLocs => pc[u] \in {"idle"} \cup WriterLocs
         /\ pc[t] \in LifecycleLocs => pc[u] = "idle"
<1>1. pc[u] \in Location
  BY DEF TypeOK
<1>2. ASSUME pc[t] \in ReaderLocs PROVE pc[u] \in {"idle"} \cup ReaderLocs
  BY <1>1, <1>2 DEF OverlapInv, ReadersApart, LifecycleExclusive, Kinds, KindOf,
     Location, ReaderLocs, WriterLocs, LifecycleLocs
<1>3. ASSUME pc[t] \in WriterLocs PROVE pc[u] \in {"idle"} \cup WriterLocs
  BY <1>1, <1>3 DEF OverlapInv, ReadersApart, LifecycleExclusive, Kinds, KindOf,
     Location, ReaderLocs, WriterLocs, LifecycleLocs
<1>4. ASSUME pc[t] \in LifecycleLocs PROVE pc[u] = "idle"
  BY <1>4, LifecycleAlone DEF ReadersApart
<1>5. QED
  BY <1>2, <1>3, <1>4

LEMMA StepReaderCache ==
  ASSUME ReadersApart, CacheSafe, NEW t \in Threads, ReaderStep(t)
  PROVE  CacheInv'
<1> USE DEF CacheSafe, PointerSafe
<1>1. pc[t] \in ReaderLocs
  BY DEF ReaderStep, EnforceGuard, QueryGuard, Guard, Lookup, Find, Read, Access,
         BadUse, Evaluate, Store, Goto, Leave, Undefined, ReaderLocs
<1>2. RegisterInv(t)
  BY DEF PointerInv
<1>3. \A u \in Threads : pc[u] \notin {"enter", "editing", "persist", "again"}
  BY <1>1, KindsApart DEF ReaderLocs
<1>4. pc'[t] \notin {"enter", "editing", "persist", "again"}
  BY <1>2 DEF ReaderStep, EnforceGuard, QueryGuard, Guard, Lookup, Find, Read,
         Access, BadUse, Evaluate, Store, Goto, Leave, Undefined, TypeOK
<1>5. \A u \in Threads \ {t} : /\ pc'[u] = pc[u] /\ dec'[u] = dec[u]
                               /\ req'[u] = req[u] /\ this'[u] = this[u]
  BY <1>2 DEF ReaderStep, EnforceGuard, QueryGuard, Guard, Lookup, Find, Read,
         Access, BadUse, Evaluate, Store, Goto, Leave, Undefined, TypeOK
<1>6. policy' = policy /\ status' = status /\ req' = req
  BY <1>2 DEF ReaderStep, EnforceGuard, QueryGuard, Guard, Lookup, Find, Read,
         Access, BadUse, Evaluate, Store, Goto, Leave, Undefined, heap
<1>7. pc'[t] = "store" => dec'[t] = Decision(req[t], policy[this'[t]])
  BY <1>2 DEF ReaderStep, EnforceGuard, QueryGuard, Guard, Lookup, Find, Read,
         Access, BadUse, Evaluate, Store, Goto, Leave, Undefined, TypeOK
<1>8. CASE Store(t)
  <2>1. /\ this[t] = enforcer /\ status[enforcer] = "alive"
        /\ cache' = [cache EXCEPT ![enforcer][req[t]] =
                                     Decision(req[t], policy[enforcer])]
    BY <1>2, <1>8 DEF Store, Goto, Leave, RegisterInv, Usable, CacheInv,
                      ReaderLocs
  <2>2. CacheCoherent'
    BY <1>6, <2>1 DEF CacheInv, CacheCoherent, TypeOK, HeapTypeOK
  <2>3. \A o \in Objects : status[o] = "unused" => cache'[o] = cache[o]
    BY <2>1 DEF TypeOK, HeapTypeOK
  <2>4. QED
    BY <1>3, <1>4, <1>5, <1>6, <1>7, <2>2, <2>3 DEF CacheInv
<1>9. CASE ~Store(t)
  <2>1. cache' = cache
    BY <1>2, <1>9 DEF ReaderStep, EnforceGuard, QueryGuard, Guard, Lookup, Find,
         Read, Access, BadUse, Evaluate, Goto, Leave, Undefined, heap
  <2>2. CacheCoherent'
    BY <1>6, <2>1 DEF CacheInv, CacheCoherent
  <2>3. QED
    BY <1>3, <1>4, <1>5, <1>6, <1>7, <2>1, <2>2 DEF CacheInv
<1>10. QED
  BY <1>8, <1>9

LEMMA StepWriterCache ==
  ASSUME ReadersApart, CacheSafe, NEW t \in Threads, WriterStep(t)
  PROVE  CacheInv'
<1> USE DEF CacheSafe, PointerSafe
<1>1. pc[t] \in WriterLocs
  BY DEF WriterStep, MutateGuard, Guard, Invalidate, Enter, EnterAgain, Edit,
         Persist, EditDone, Access, BadUse, Goto, Leave, Undefined, WriterLocs
<1>2. RegisterInv(t)
  BY DEF PointerInv
<1>3. \A u \in Threads \ {t} : pc[u] \in {"idle"} \cup WriterLocs
  BY <1>1, KindsApart
<1>4. status' = status /\ enforcer' = enforcer
  BY <1>2 DEF WriterStep, MutateGuard, Guard, Invalidate, Enter,
     EnterAgain, Edit, Persist, EditDone, Access, BadUse, Goto, Leave, Undefined,
     heap
<1>5. \A u \in Threads \ {t} : pc'[u] = pc[u]
  BY DEF WriterStep, MutateGuard, Guard, Invalidate, Enter, EnterAgain,
     Edit, Persist, EditDone, Access, BadUse, Goto, Leave, Undefined, TypeOK
<1>6. \A u \in Threads : pc'[u] # "store"
  <2>1. pc'[t] # "store"
    BY DEF WriterStep, MutateGuard, Guard, Invalidate, Enter, EnterAgain,
       Edit, Persist, EditDone, Access, BadUse, Goto, Leave, Undefined, TypeOK
  <2>2. QED
    BY <1>3, <1>5, <2>1 DEF WriterLocs
<1>7. CASE Invalidate(t)
  <2>1. /\ enforcer \in Objects /\ policy' = policy
        /\ cache' = [cache EXCEPT ![enforcer] = NothingCached]
    BY <1>2, <1>7 DEF Invalidate, BadUse, Undefined, Goto, RegisterInv, Usable,
                      TypeOK, WriterLocs
  <2>2. QED
    BY <1>4, <1>6, <2>1 DEF CacheInv, CacheCoherent, NothingCached, TypeOK,
                            HeapTypeOK
<1>8. CASE ~Invalidate(t)
  <2>1. cache' = cache
    BY <1>8 DEF WriterStep, MutateGuard, Guard, Enter, EnterAgain, Edit, Persist,
       EditDone, Access, BadUse, Goto, Leave, Undefined, heap
  <2>2. pc'[t] \in {"enter", "editing", "persist", "again"}
          => pc[t] \in {"enter", "editing", "persist", "again"}
    BY <1>8 DEF WriterStep, MutateGuard, Guard, Enter, EnterAgain, Edit, Persist,
       EditDone, Access, BadUse, Goto, Leave, Undefined, TypeOK
  <2>3. \A u \in Threads : pc'[u] \in {"enter", "editing", "persist", "again"}
          => cache'[enforcer] = NothingCached
    BY <1>5, <2>1, <2>2 DEF CacheInv
  <2>4. CASE policy' = policy
    BY <1>4, <1>6, <2>1, <2>3, <2>4 DEF CacheInv, CacheCoherent
  <2>5. CASE policy' # policy
    <3>1. /\ pc[t] = "editing" /\ this[t] = enforcer
          /\ \A o \in Objects \ {enforcer} : policy'[o] = policy[o]
      BY <1>2, <1>8, <2>5 DEF WriterStep, MutateGuard, Guard, Enter, EnterAgain,
         Edit, Persist, EditDone, Access, BadUse, Goto, Leave, Undefined, heap,
         RegisterInv, TypeOK, HeapTypeOK
    <3>2. cache[enforcer] = NothingCached
      BY <3>1 DEF CacheInv
    <3>3. CacheCoherent'
      BY <2>1, <3>1, <3>2 DEF CacheInv, CacheCoherent, NothingCached
    <3>4. QED
      BY <1>4, <1>6, <2>1, <2>3, <3>3 DEF CacheInv
  <2>6. QED
    BY <2>4, <2>5
<1>9. QED
  BY <1>7, <1>8

LEMMA StepLifecycleCache ==
  ASSUME ReadersApart, CacheSafe, NEW t \in Threads, LifecycleStep(t)
  PROVE  CacheInv'
<1> USE DEF CacheSafe, PointerSafe
<1>1. pc[t] \in LifecycleLocs
  BY DEF LifecycleStep, Construct, Publish, DestroyGuard, Delete, Clear, Goto,
         Leave, Undefined, LifecycleLocs
<1>2. RegisterInv(t)
  BY DEF PointerInv
<1>3. \A u \in Threads \ {t} : pc[u] = "idle"
  BY <1>1, KindsApart
<1>4. pc[t] = "delete" => Inside(this[t]) = {}
  BY <1>3 DEF Inside
<1>5. \A u \in Threads : pc'[u] \in {"idle"} \cup LifecycleLocs
  <2>1. pc'[t] \in {"idle"} \cup LifecycleLocs
    BY DEF LifecycleStep, Construct, Publish, DestroyGuard, Delete, Clear, Goto,
       Leave, Undefined, TypeOK, LifecycleLocs
  <2>2. \A u \in Threads \ {t} : pc'[u] = "idle"
    BY <1>3 DEF LifecycleStep, Construct, Publish, DestroyGuard, Delete, Clear,
       Goto, Leave, Undefined, TypeOK
  <2>3. QED
    BY <2>1, <2>2
<1>6. CASE UNCHANGED heap
  BY <1>5, <1>6 DEF heap, CacheInv, CacheCoherent, LifecycleLocs
<1>7. CASE Construct(t) /\ ~UNCHANGED heap
  <2>1. PICK o \in Objects : /\ status[o] = "unused"
                             /\ status' = [status EXCEPT ![o] = "alive"]
                             /\ policy' = [policy EXCEPT ![o] = rows]
                             /\ cache' = cache
    BY <1>7 DEF Construct
  <2>2. cache[o] = NothingCached
    BY <2>1 DEF CacheInv
  <2>3. CacheCoherent'
    BY <2>1, <2>2 DEF CacheInv, CacheCoherent, NothingCached, TypeOK, HeapTypeOK
  <2>4. QED
    BY <1>5, <2>1, <2>3 DEF CacheInv, LifecycleLocs, TypeOK, HeapTypeOK
<1>8. CASE Delete(t)
  <2>1. PICK o : /\ status' = [status EXCEPT ![o] = "deleted"]
                 /\ policy' = [policy EXCEPT ![o] = {}]
                 /\ cache' = [cache EXCEPT ![o] = NothingCached]
    BY <1>2, <1>4, <1>8 DEF Delete, RegisterInv
  <2>2. CacheCoherent'
    BY <2>1 DEF CacheInv, CacheCoherent, NothingCached, TypeOK, HeapTypeOK
  <2>3. QED
    BY <1>5, <2>1, <2>2 DEF CacheInv, LifecycleLocs, TypeOK, HeapTypeOK
<1>9. QED
  BY <1>6, <1>7, <1>8 DEF LifecycleStep, Publish, DestroyGuard, Clear

LEMMA StepCache ==
  ASSUME ReadersApart, CacheSafe, [Next]_vars
  PROVE  CacheInv'
<1>1. CASE UNCHANGED vars
  BY <1>1 DEF CacheSafe, CacheInv, CacheCoherent, vars, heap, locals
<1>2. ASSUME NEW t \in Threads, Call(t) PROVE CacheInv'
  <2>1. PICK loc \in {"enforce", "query", "mutate", "create", "destroy"} :
               Start(t, loc)
    BY <1>2, CallStarts
  <2>2. /\ pc' = [pc EXCEPT ![t] = loc] /\ pc[t] = "idle"
        /\ dec' = [dec EXCEPT ![t] = "none"]
        /\ UNCHANGED <<enforcer, heap, this, vm>>
    BY <2>1 DEF Start
  <2>3. \A u \in Threads \ {t} : req'[u] = req[u]
    <3>1. req' = req \/ \E q \in Requests : req' = [req EXCEPT ![t] = q]
      BY <1>2, CallStarts
    <3>2. QED
      BY <3>1 DEF CacheSafe, PointerSafe, TypeOK
  <2>4. QED
    BY <2>2, <2>3 DEF CacheSafe, PointerSafe, CacheInv, CacheCoherent, heap,
                      TypeOK
<1>3. QED
  BY <1>1, <1>2, StepReaderCache, StepWriterCache, StepLifecycleCache
     DEF Next, Step

LEMMA NifCacheSafe ==
  ASSUME ReadersApart
  PROVE  Spec => []CacheSafe
<1>1. Init => CacheInv
  BY DEF Init, CacheInv, CacheCoherent, NothingCached
<1>2. CacheSafe /\ [Next]_vars => CacheInv'
  BY StepCache
<1>3. CacheSafe <=> PointerSafe /\ CacheInv
  BY DEF CacheSafe
<1>4. Spec => []PointerSafe
  BY NifPointerSafe DEF ReadersApart
<1>5. QED
  BY <1>1, <1>2, <1>3, <1>4, PTL DEF Spec

(* What is cached is always what the policy decides, though the cache is   *)
(* emptied before the policy changes and filled without a lock on both.    *)
THEOREM NifCacheCoherent ==
  ASSUME ReadersApart
  PROVE  Spec => []CacheCoherent
<1>1. CacheSafe => CacheCoherent
  BY DEF CacheSafe, CacheInv
<1>2. QED
  BY <1>1, NifCacheSafe, PTL

(* So once a removal is over nothing that it took away is answered from    *)
(* the cache: only a reader that overlaps the removal can keep it there.   *)
THEOREM NifDeniedOnceRemoved ==
  ASSUME ReadersApart
  PROVE  Spec => []DeniedOnceRemoved
<1>1. CacheCoherent => DeniedOnceRemoved
  BY DEF CacheCoherent, DeniedOnceRemoved, Decision
<1>2. QED
  BY <1>1, NifCacheCoherent, PTL

(* The step that answers an Enforce call.                                  *)
LEMMA StepAnswer ==
  ASSUME CacheSafe, [Next]_vars, NEW t \in Threads, pc[t] \in {"lookup", "store"},
         pc'[t] = "idle", vm' = "up"
  PROVE  enforcer # NULL /\ dec'[t] = Decision(req[t], policy[enforcer])
<1> USE DEF CacheSafe, PointerSafe
<1>1. Usable /\ enforcer \in Objects /\ (pc[t] = "store" => this[t] = enforcer)
  BY DEF PointerInv, RegisterInv, ReaderLocs, Usable, TypeOK
<1>2. PICK u \in Threads : Call(u) \/ Step(u)
  BY DEF Next, vars, locals
<1>3. u = t
  <2>1. CASE Call(u)
    BY <2>1, CallStarts DEF Start, TypeOK
  <2>2. CASE Step(u)
    BY <2>2, StepMoves DEF TypeOK
  <2>3. QED
    BY <1>2, <2>1, <2>2
<1>4. ~Call(t)
  BY CallStarts DEF Start
<1>5. Lookup(t) \/ Store(t)
  BY <1>2, <1>3, <1>4 DEF Step, ReaderStep, WriterStep, LifecycleStep,
     EnforceGuard, QueryGuard, MutateGuard, Guard, Evaluate, Find, Read,
     Invalidate, Enter, EnterAgain, Edit, Persist, EditDone, Construct, Publish,
     DestroyGuard, Delete, Clear, Access, BadUse, Goto, Leave, Undefined
<1>6. CASE Lookup(t)
  <2>1. /\ cache[enforcer][req[t]] # "miss"
        /\ dec' = [dec EXCEPT ![t] = cache[enforcer][req[t]]]
    BY <1>1, <1>6 DEF Lookup, Access, BadUse, Goto, Undefined, TypeOK
  <2>2. cache[enforcer][req[t]] \in {"miss", Decision(req[t], policy[enforcer])}
    BY <1>1 DEF CacheInv, CacheCoherent, TypeOK
  <2>3. QED
    BY <1>1, <2>1, <2>2 DEF Usable, TypeOK
<1>7. CASE Store(t)
  <2>1. pc[t] = "store" /\ dec' = dec
    BY <1>7 DEF Store, Goto, Leave
  <2>2. QED
    BY <1>1, <2>1 DEF Usable, CacheInv
<1>8. QED
  BY <1>5, <1>6, <1>7

(* And every answer is the decision of the current enforcer's policy.      *)
THEOREM NifAnswerCurrent ==
  ASSUME ReadersApart
  PROVE  Spec => AnswerCurrent
<1>1. CacheSafe /\ [Next]_vars =>
        [\A t \in Threads :
           pc[t] \in {"lookup", "store"} /\ pc'[t] = "idle" /\ vm' = "up"
             => enforcer # NULL /\ dec'[t] = Decision(req[t], policy[enforcer])]_vars
  BY StepAnswer
<1>2. QED
  BY <1>1, NifCacheSafe, PTL DEF Spec, AnswerCurrent
-----------------------------------------------------------------------------
(* While only reads overlap, the NIF layer implements RuleService.         *)

ServiceSafe == CacheSafe /\ NoUndefinedBehaviour /\ CallInv /\ LoadInv

LEMMA StepLoadInv ==
  ASSUME LifecycleExclusive, PointerSafe, LoadInv, [Next]_vars
  PROVE  LoadInv'
<1> USE DEF PointerSafe, PointerInv
<1>1. CASE UNCHANGED vars
  BY <1>1 DEF vars, heap, locals, LoadInv, Usable
<1>2. ASSUME NEW t \in Threads, Call(t) PROVE LoadInv'
  <2>1. PICK loc \in {"enforce", "query", "mutate", "create", "destroy"} :
               Start(t, loc)
    BY <1>2, CallStarts
  <2>2. QED
    BY <2>1 DEF Start, heap, LoadInv, Usable, TypeOK
<1>3. ASSUME NEW t \in Threads, ReaderStep(t) \/ WriterStep(t) PROVE LoadInv'
  <2>1. pc[t] \in ReaderLocs \cup WriterLocs
    BY <1>3 DEF ReaderStep, WriterStep, EnforceGuard, QueryGuard, MutateGuard,
         Guard, Lookup, Evaluate, Store, Find, Read, Invalidate, Enter,
         EnterAgain, Edit, Persist, EditDone, Access, BadUse, Goto, Leave,
         Undefined, ReaderLocs, WriterLocs
  <2>2. \A u \in Threads : pc[u] \notin LifecycleLocs
    BY <2>1, LifecycleAlone DEF ReaderLocs, WriterLocs, LifecycleLocs
  <2>3. PICK loc \in Location : /\ pc' = [pc EXCEPT ![t] = loc]
                                /\ loc = "idle" \/ KindOf(loc) = KindOf(pc[t])
    BY <1>3, StepMoves DEF Step
  <2>4. loc \notin LifecycleLocs
    BY <2>1, <2>3 DEF KindOf, ReaderLocs, WriterLocs, LifecycleLocs
  <2>5. QED
    BY <2>2, <2>3, <2>4 DEF LoadInv, LifecycleLocs, TypeOK
<1>4. ASSUME NEW t \in Threads, LifecycleStep(t) PROVE LoadInv'
  <2>1. pc[t] \in LifecycleLocs
    BY <1>4 DEF LifecycleStep, Construct, Publish, DestroyGuard, Delete, Clear,
                Goto, Leave, Undefined, LifecycleLocs
  <2>2. \A u \in Threads \ {t} : pc[u] = "idle"
    BY <2>1, LifecycleAlone
  <2>3. \A u \in Threads \ {t} : pc'[u] = "idle"
    BY <1>4, <2>2 DEF LifecycleStep, Construct, Publish, DestroyGuard, Delete,
       Clear, Goto, Leave, Undefined, TypeOK
  <2>4. RegisterInv(t)
    OBVIOUS
  <2>5. pc'[t] = "publish" => policy'[this'[t]] = rows'
    BY <1>4 DEF LifecycleStep, Construct, Publish, DestroyGuard, Delete, Clear,
       Goto, Leave, Undefined, TypeOK, HeapTypeOK
  <2>6. pc'[t] = "clear" => ~Usable'
    <3>1. CASE DestroyGuard(t)
      BY <3>1 DEF DestroyGuard, Goto, Usable, TypeOK
    <3>2. CASE Delete(t)
      BY <2>4, <3>2 DEF Delete, Goto, Undefined, Usable, RegisterInv, TypeOK,
                        HeapTypeOK
    <3>3. CASE Construct(t) \/ Publish(t) \/ Clear(t)
      BY <3>3 DEF Construct, Publish, Clear, Goto, Leave, TypeOK
    <3>4. QED
      BY <1>4, <3>1, <3>2, <3>3 DEF LifecycleStep
  <2>7. QED
    BY <2>3, <2>5, <2>6 DEF LoadInv
<1>5. QED
  BY <1>1, <1>2, <1>3, <1>4 DEF Next, Step

LEMMA NifServiceSafe ==
  ASSUME OnlyReadersOverlap
  PROVE  Spec => []ServiceSafe
<1>1. ReadersApart
  BY DEF OnlyReadersOverlap, ReadersApart, LifecycleExclusive
<1>2. Init => LoadInv
  BY DEF Init, LoadInv
<1>3. LoadInv /\ PointerSafe /\ [Next]_vars => LoadInv'
  BY <1>1, StepLoadInv DEF ReadersApart
<1>4. CacheSafe => PointerSafe
  BY DEF CacheSafe
<1>5. ServiceSafe <=> CacheSafe /\ NoUndefinedBehaviour /\ CallInv /\ LoadInv
  BY DEF ServiceSafe
<1>6. Spec => []CacheSafe
  BY <1>1, NifCacheSafe
<1>7. Spec => []NoUndefinedBehaviour
  BY NifNoUndefinedBehaviour
<1>8. QED
  BY <1>2, <1>3, <1>4, <1>5, <1>6, <1>7, NifTyped, PTL DEF Spec

LEMMA InitImplements == Init => RS!Init
BY DEF Init, RS!Init, Usable, RulesInForce, Asking, Unsaved, RS!Unchanged

(* What the steps of one thread leave alone.                               *)
LEMMA ServiceUnchanged ==
  ASSUME enforcer' = enforcer, status' = status, policy' = policy
  PROVE  Usable' = Usable /\ RulesInForce' = RulesInForce
BY DEF Usable, RulesInForce

LEMMA AskingUnchanged ==
  ASSUME TypeOK, NEW t \in Threads, NEW loc, pc' = [pc EXCEPT ![t] = loc],
         loc \notin {"enforce", "lookup", "evaluating"}
  PROVE  Asking' = Asking \ {t}
BY DEF Asking, TypeOK

LEMMA AskingGoesOn ==
  ASSUME TypeOK, NEW t \in Threads, NEW loc, pc' = [pc EXCEPT ![t] = loc],
         loc \in {"enforce", "lookup", "evaluating"}
  PROVE  Asking' = Asking \cup {t}
BY DEF Asking, TypeOK

LEMMA UnsavedUnchanged ==
  ASSUME TypeOK, NEW t \in Threads, NEW loc, pc' = [pc EXCEPT ![t] = loc],
         pc[t] # "persist", loc # "persist",
         \A u \in Threads \ {t} : todo'[u] = todo[u]
  PROVE  Unsaved' = Unsaved /\ Unsaved[t] = RS!Unchanged
BY DEF Unsaved, RS!Unchanged, TypeOK

LEMMA CallImplements ==
  ASSUME ServiceSafe, NEW t \in Threads, Call(t)
  PROVE  [RS!Next]_RS!vars
<1> USE DEF ServiceSafe, CacheSafe, PointerSafe
<1>1. PICK loc \in {"enforce", "query", "mutate", "create", "destroy"} :
             /\ Start(t, loc)
             /\ \/ todo' = todo
                \/ \E op \in MutatorOps : todo' = [todo EXCEPT ![t] = op]
  BY CallStarts
<1>2. /\ pc[t] = "idle" /\ pc' = [pc EXCEPT ![t] = loc]
      /\ dec' = [dec EXCEPT ![t] = "none"]
      /\ enforcer' = enforcer /\ status' = status /\ policy' = policy
      /\ rows' = rows
  BY <1>1 DEF Start, heap
<1>3. Unsaved' = Unsaved
  BY <1>1, <1>2, UnsavedUnchanged DEF TypeOK
<1>4. t \notin Asking
  BY <1>2 DEF Asking
<1>5. CASE Enforce(t)
  <2>1. loc = "enforce"
    BY <1>2, <1>5 DEF Enforce, Start, TypeOK
  <2>2. Asking' = Asking \cup {t}
    BY <1>2, <2>1, AskingGoesOn
  <2>3. \E q \in Requests : req' = [req EXCEPT ![t] = q]
    BY <1>5 DEF Enforce
  <2>4. RS!Ask(t)
    BY <1>2, <1>3, <1>4, <2>2, <2>3, ServiceUnchanged DEF RS!Ask, RS!Answer
  <2>5. QED
    BY <2>4 DEF RS!Next
<1>6. CASE ~Enforce(t)
  <2>1. req' = req
    BY <1>6 DEF Call, Query, Mutate, AddPolicy, RemovePolicy,
       RemoveFilteredPolicy, AddGroupingPolicy, AddRoleForUser, AddRolesForUser,
       DeleteRoleForUser, DeleteRolesForUser, DeleteRole, CreateEnforcer,
       DestroyEnforcer
  <2>2. pc'[t] # "enforce"
    BY <1>6 DEF Call, Query, Mutate, AddPolicy, RemovePolicy,
       RemoveFilteredPolicy, AddGroupingPolicy, AddRoleForUser, AddRolesForUser,
       DeleteRoleForUser, DeleteRolesForUser, DeleteRole, CreateEnforcer,
       DestroyEnforcer, Start, TypeOK
  <2>3. loc # "enforce"
    BY <1>2, <2>2 DEF TypeOK
  <2>4. Asking' = Asking
    BY <1>2, <1>4, <2>3, AskingUnchanged
  <2>5. RS!Begin(t)
    BY <1>2, <1>3, <1>4, <2>1, <2>4, ServiceUnchanged DEF RS!Begin, RS!Answer
  <2>6. QED
    BY <2>5 DEF RS!Next
<1>7. QED
  BY <1>5, <1>6
(* A step that touches neither enforcer nor answers, and leaves its thread *)
(* before or after the decision it waits for, is not to be seen.           *)
LEMMA StutterImplements ==
  ASSUME enforcer' = enforcer, status' = status, policy' = policy, rows' = rows,
         req' = req, dec' = dec, Asking' = Asking, Unsaved' = Unsaved
  PROVE  [RS!Next]_RS!vars
BY ServiceUnchanged DEF RS!vars

(* A step of a thread without a change to write that answers "error".      *)
LEMMA RefuseImplements ==
  ASSUME TypeOK, NEW t \in Threads, pc' = [pc EXCEPT ![t] = "idle"],
         pc[t] \notin {"enforce", "lookup", "evaluating", "persist"},
         \A u \in Threads \ {t} : todo'[u] = todo[u],
         enforcer' = enforcer, status' = status, policy' = policy, rows' = rows,
         req' = req, dec' = [dec EXCEPT ![t] = "error"]
  PROVE  [RS!Next]_RS!vars
<1>1. t \notin Asking
  BY DEF Asking
<1>2. Asking' = Asking
  BY <1>1, AskingUnchanged
<1>3. Unsaved' = Unsaved /\ Unsaved[t] = RS!Unchanged
  BY UnsavedUnchanged
<1>4. RS!Refuse(t)
  BY <1>1, <1>2, <1>3, ServiceUnchanged DEF RS!Refuse, RS!Answer
<1>5. QED
  BY <1>4 DEF RS!Next

LEMMA ReaderImplements ==
  ASSUME ServiceSafe, NEW t \in Threads, ReaderStep(t), NoUndefinedBehaviour'
  PROVE  [RS!Next]_RS!vars
<1> USE DEF ServiceSafe, CacheSafe, PointerSafe, NoUndefinedBehaviour
<1>1. RegisterInv(t) /\ TypeOK
  BY DEF PointerInv
<1>2. /\ enforcer' = enforcer /\ status' = status /\ policy' = policy
      /\ rows' = rows /\ req' = req /\ pc[t] \in ReaderLocs
      /\ \A u \in Threads \ {t} : todo'[u] = todo[u]
  BY <1>1 DEF ReaderStep, EnforceGuard, QueryGuard, Guard, Lookup, Find, Read,
     Access, BadUse, Evaluate, Store, Goto, Leave, Undefined, heap, ReaderLocs,
     TypeOK
<1>3. PICK loc \in Location : /\ pc' = [pc EXCEPT ![t] = loc]
                              /\ loc = "idle" \/ loc \in ReaderLocs
  <2>1. PICK l \in Location : /\ pc' = [pc EXCEPT ![t] = l]
                              /\ l = "idle" \/ KindOf(l) = KindOf(pc[t])
    BY <1>1, StepMoves DEF Step
  <2>2. l = "idle" \/ l \in ReaderLocs
    BY <1>2, <2>1 DEF KindOf
  <2>3. QED
    BY <2>1, <2>2
<1>4. Unsaved' = Unsaved
  BY <1>1, <1>2, <1>3, UnsavedUnchanged DEF ReaderLocs
(* The steps that answer an Enforce call.                                  *)
<1>5. ASSUME pc[t] \in {"enforce", "lookup", "evaluating"},
             pc'[t] \notin {"enforce", "lookup", "evaluating"},
             dec' = [dec EXCEPT ![t] = IF Usable
                                       THEN Decision(req[t], policy[enforcer])
                                       ELSE "error"]
      PROVE  RS!Decided(t)
  <2>1. t \in Asking
    BY <1>5 DEF Asking
  <2>2. Asking' = Asking \ {t}
    BY <1>1, <1>3, <1>5, AskingUnchanged DEF TypeOK
  <2>3. dec' = [dec EXCEPT ![t] = IF Usable
                                  THEN Decision(req[t], RulesInForce)
                                  ELSE "error"]
    BY <1>5 DEF RulesInForce
  <2>4. QED
    BY <1>2, <1>4, <2>1, <2>2, <2>3, ServiceUnchanged DEF RS!Decided, RS!Answer
<1>6. CASE EnforceGuard(t) /\ enforcer = NULL
  <2>1. /\ pc[t] = "enforce" /\ pc'[t] = "idle"
        /\ dec' = [dec EXCEPT ![t] = "error"]
    BY <1>1, <1>6 DEF EnforceGuard, Guard, Goto, Leave, TypeOK
  <2>2. ~Usable
    BY <1>6 DEF Usable
  <2>3. QED
    BY <1>5, <2>1, <2>2 DEF RS!Next
<1>7. CASE Lookup(t) /\ cache[enforcer][req[t]] # "miss"
  <2>1. /\ Usable /\ pc[t] = "lookup" /\ pc'[t] = "idle"
        /\ dec' = [dec EXCEPT ![t] = cache[enforcer][req[t]]]
    BY <1>1, <1>7 DEF Lookup, BadUse, Goto, Leave, Undefined, TypeOK
  <2>2. cache[enforcer][req[t]] = Decision(req[t], policy[enforcer])
    BY <1>1, <1>7, <2>1 DEF CacheInv, CacheCoherent, Usable, TypeOK
  <2>3. QED
    BY <1>5, <2>1, <2>2 DEF RS!Next
<1>8. CASE Evaluate(t)
  <2>1. pc[t] = "evaluating" /\ pc'[t] = "store"
    BY <1>1, <1>8 DEF Evaluate, Goto, TypeOK
  <2>2. Usable /\ this[t] = enforcer
    BY <1>1, <2>1 DEF RegisterInv, ReaderLocs
  <2>3. dec' = [dec EXCEPT ![t] = Decision(req[t], policy[enforcer])]
    BY <1>8, <2>2 DEF Evaluate
  <2>4. QED
    BY <1>5, <2>1, <2>2, <2>3 DEF RS!Next
(* The steps before and after it.                                          *)
<1>9. CASE \/ EnforceGuard(t) /\ enforcer # NULL
           \/ Lookup(t) /\ cache[enforcer][req[t]] = "miss"
  <2>1. /\ pc[t] \in {"enforce", "lookup"} /\ dec' = dec
        /\ pc'[t] \in {"lookup", "evaluating"}
    BY <1>1, <1>9 DEF EnforceGuard, Guard, TakesIndex, Lookup, BadUse, Access,
                      Goto, Leave, Undefined, TypeOK
  <2>2. Asking' = Asking
    <3>1. Asking' = Asking \cup {t}
      BY <1>1, <1>3, <2>1, AskingGoesOn DEF TypeOK
    <3>2. t \in Asking
      BY <2>1 DEF Asking
    <3>3. QED
      BY <3>1, <3>2
  <2>3. QED
    BY <1>2, <1>4, <2>1, <2>2, StutterImplements
<1>10. CASE QueryGuard(t) /\ pc'[t] = "idle"
  <2>1. /\ pc[t] = "query" /\ pc' = [pc EXCEPT ![t] = "idle"]
        /\ dec' = [dec EXCEPT ![t] = "error"]
    BY <1>1, <1>10 DEF QueryGuard, Guard, Goto, Leave, TypeOK
  <2>2. QED
    BY <1>1, <1>2, <2>1, RefuseImplements
<1>11. CASE \/ Store(t) \/ Find(t) \/ Read(t)
            \/ QueryGuard(t) /\ pc'[t] # "idle"
  <2>1. /\ pc[t] \notin {"enforce", "lookup", "evaluating"} /\ dec' = dec
        /\ pc'[t] \notin {"enforce", "lookup", "evaluating"}
    BY <1>1, <1>11 DEF Store, Find, Read, QueryGuard, Guard, BadUse, Access,
                       Goto, Leave, Undefined, TypeOK
  <2>2. Asking' = Asking
    <3>1. Asking' = Asking \ {t}
      BY <1>1, <1>3, <2>1, AskingUnchanged DEF TypeOK
    <3>2. t \notin Asking
      BY <2>1 DEF Asking
    <3>3. QED
      BY <3>1, <3>2
  <2>3. QED
    BY <1>2, <1>4, <2>1, <2>2, StutterImplements
<1>12. QED
  BY <1>6, <1>7, <1>8, <1>9, <1>10, <1>11 DEF ReaderStep
LEMMA WriterImplements ==
  ASSUME ServiceSafe, NEW t \in Threads, WriterStep(t), NoUndefinedBehaviour'
  PROVE  [RS!Next]_RS!vars
<1> USE DEF ServiceSafe, CacheSafe, PointerSafe, NoUndefinedBehaviour
<1>1. RegisterInv(t) /\ TypeOK
  BY DEF PointerInv
<1>2. /\ enforcer' = enforcer /\ status' = status /\ req' = req
      /\ pc[t] \in WriterLocs
      /\ \A u \in Threads \ {t} : todo'[u] = todo[u]
  BY <1>1 DEF WriterStep, MutateGuard, Guard, Invalidate, Enter, EnterAgain,
     Edit, Persist, EditDone, Access, BadUse, Goto, Leave, Undefined, heap,
     WriterLocs, TypeOK
<1>3. PICK loc \in Location : /\ pc' = [pc EXCEPT ![t] = loc]
                              /\ loc = "idle" \/ loc \in WriterLocs
  <2>1. PICK l \in Location : /\ pc' = [pc EXCEPT ![t] = l]
                              /\ l = "idle" \/ KindOf(l) = KindOf(pc[t])
    BY <1>1, StepMoves DEF Step
  <2>2. pc[t] \notin ReaderLocs
    BY <1>2 DEF ReaderLocs, WriterLocs
  <2>3. l = "idle" \/ l \in WriterLocs
    BY <1>2, <2>1, <2>2 DEF KindOf
  <2>4. QED
    BY <2>1, <2>3
<1>4. Asking' = Asking /\ t \notin Asking
  <2>1. pc[t] \notin {"enforce", "lookup", "evaluating"}
    BY <1>2 DEF WriterLocs
  <2>2. loc \notin {"enforce", "lookup", "evaluating"}
    BY <1>3 DEF WriterLocs
  <2>3. t \notin Asking
    BY <2>1 DEF Asking
  <2>4. QED
    BY <1>1, <1>3, <2>2, <2>3, AskingUnchanged
<1>5. CASE MutateGuard(t) /\ pc'[t] = "idle"
  <2>1. /\ pc[t] = "mutate" /\ pc' = [pc EXCEPT ![t] = "idle"]
        /\ dec' = [dec EXCEPT ![t] = "error"]
        /\ policy' = policy /\ rows' = rows
    BY <1>1, <1>5 DEF MutateGuard, Guard, Goto, Leave, heap, TypeOK
  <2>2. QED
    BY <1>1, <1>2, <2>1, RefuseImplements
<1>6. CASE \/ MutateGuard(t) /\ pc'[t] # "idle"
           \/ Invalidate(t) \/ Enter(t) \/ EnterAgain(t)
  <2>1. /\ pc[t] # "persist" /\ pc'[t] # "persist"
        /\ policy' = policy /\ rows' = rows /\ dec' = dec
    BY <1>1, <1>6 DEF MutateGuard, Guard, Invalidate, Enter, EnterAgain, Access,
                      BadUse, Goto, Leave, Undefined, heap, TypeOK
  <2>2. Unsaved' = Unsaved
    BY <1>1, <1>2, <1>3, <2>1, UnsavedUnchanged DEF TypeOK
  <2>3. QED
    BY <1>2, <1>4, <2>1, <2>2, StutterImplements
<1>7. CASE Edit(t)
  <2>1. pc[t] = "editing" /\ Usable /\ this[t] = enforcer
    BY <1>1, <1>7 DEF Edit, RegisterInv, WriterLocs, ReaderLocs
  <2> DEFINE op  == todo[t]
             old == policy[enforcer]
             new == Apply(op, old)
             change == [how |-> IF op.how = "add" THEN "add" ELSE "remove",
                        part |-> Head(op.parts)]
  <2>2. CASE EditDone(t, "editing") /\ UNCHANGED <<heap, dec>>
    <3>1. pc'[t] # "persist"
      BY <1>1, <2>1, <2>2 DEF EditDone, Goto, Leave, TypeOK
    <3>2. Unsaved' = Unsaved
      BY <1>1, <1>2, <1>3, <2>1, <3>1, UnsavedUnchanged DEF TypeOK
    <3>3. QED
      BY <1>2, <1>4, <2>2, <3>2, StutterImplements DEF heap
  <2>3. CASE /\ new # old
             /\ Goto(t, "editing", "persist")
             /\ policy' = [policy EXCEPT ![enforcer] = new]
             /\ UNCHANGED <<rows, todo, dec>>
    <3>1. /\ op \in Ops /\ op.parts # <<>> /\ enforcer \in Objects
          /\ old \in SUBSET Rules
      BY <1>1, <2>1 DEF CallInv, Usable, WriterLocs, TypeOK, HeapTypeOK
    <3>2. change \in RS!Changes
      BY <3>1, HeadTailProperties DEF RS!Changes, Ops
    <3>3. RulesInForce = old /\ RulesInForce' = new /\ Usable' = Usable
      BY <1>1, <1>2, <2>1, <2>3, <3>1 DEF RulesInForce, Usable, TypeOK, HeapTypeOK
    <3>4. RulesInForce' = RS!After(change, RulesInForce)
      BY <3>3 DEF RS!After, Apply
    <3>5. /\ Unsaved[t] = RS!Unchanged
          /\ Unsaved' = [Unsaved EXCEPT ![t] = change]
      BY <1>1, <2>1, <2>3 DEF Unsaved, RS!Unchanged, Goto, TypeOK
    <3>6. RulesInForce' # RulesInForce
      BY <2>3, <3>3
    <3> HIDE DEF change
    <3>7. RS!Alter(t)
      BY <1>2, <1>4, <2>1, <2>3, <3>2, <3>3, <3>4, <3>5, <3>6 DEF RS!Alter
    <3>8. QED
      BY <3>7 DEF RS!Next
  <2>4. QED
    BY <1>7, <2>1, <2>2, <2>3 DEF Edit
<1>8. CASE Persist(t)
  <2>1. pc[t] = "persist" /\ pc'[t] # "persist" /\ policy' = policy
    BY <1>1, <1>8 DEF Persist, EditDone, Goto, Leave, heap, TypeOK
  <2>2. /\ Unsaved[t] = [how |-> IF todo[t].how = "add" THEN "add" ELSE "remove",
                         part |-> Head(todo[t].parts)]
        /\ Unsaved' = [Unsaved EXCEPT ![t] = RS!Unchanged]
    BY <1>1, <1>2, <1>3, <2>1 DEF Unsaved, RS!Unchanged, TypeOK
  <2>3. Unsaved[t] # RS!Unchanged
    BY <2>2 DEF RS!Unchanged
  <2>4. CASE rows' = Apply(todo[t], rows) /\ dec' = dec
    <3>1. rows' = RS!After(Unsaved[t], rows)
      BY <2>2, <2>4 DEF RS!After, Apply
    <3>2. RS!Save(t)
      BY <1>2, <1>4, <2>1, <2>2, <2>3, <2>4, <3>1, ServiceUnchanged DEF RS!Save
    <3>3. QED
      BY <3>2 DEF RS!Next
  <2>5. CASE dec' = [dec EXCEPT ![t] = "error"] /\ rows' = rows
    <3>1. RS!Lose(t)
      BY <1>2, <1>4, <2>1, <2>2, <2>3, <2>5, ServiceUnchanged
         DEF RS!Lose, RS!Answer
    <3>2. QED
      BY <3>1 DEF RS!Next
  <2>6. QED
    BY <1>8, <2>4, <2>5 DEF Persist, heap
<1>9. QED
  BY <1>5, <1>6, <1>7, <1>8 DEF WriterStep

LEMMA LifecycleImplements ==
  ASSUME LifecycleExclusive, ServiceSafe, NEW t \in Threads, LifecycleStep(t),
         NoUndefinedBehaviour'
  PROVE  [RS!Next]_RS!vars
<1> USE DEF ServiceSafe, CacheSafe, PointerSafe, NoUndefinedBehaviour
<1>1. RegisterInv(t) /\ TypeOK
  BY DEF PointerInv
<1>2. /\ rows' = rows /\ req' = req /\ pc[t] \in LifecycleLocs
      /\ \A u \in Threads \ {t} : todo'[u] = todo[u]
  BY <1>1 DEF LifecycleStep, Construct, Publish, DestroyGuard, Delete, Clear,
              Goto, Leave, Undefined, heap, LifecycleLocs, TypeOK
<1>3. PICK loc \in Location : /\ pc' = [pc EXCEPT ![t] = loc]
                              /\ loc = "idle" \/ loc \in LifecycleLocs
  <2>1. PICK l \in Location : /\ pc' = [pc EXCEPT ![t] = l]
                              /\ l = "idle" \/ KindOf(l) = KindOf(pc[t])
    BY <1>1, StepMoves DEF Step
  <2>2. KindOf(pc[t]) = "lifecycle"
    BY <1>2 DEF KindOf, ReaderLocs, WriterLocs, LifecycleLocs
  <2>3. l = "idle" \/ l \in LifecycleLocs
    BY <2>1, <2>2 DEF KindOf, Location
  <2>4. QED
    BY <2>1, <2>3
<1>4. Asking' = Asking /\ t \notin Asking
  <2>1. loc \notin {"enforce", "lookup", "evaluating"}
    BY <1>3 DEF LifecycleLocs
  <2>2. t \notin Asking
    BY <1>2 DEF Asking, LifecycleLocs
  <2>3. QED
    BY <1>1, <1>3, <2>1, <2>2, AskingUnchanged
<1>5. Unsaved' = Unsaved /\ Unsaved[t] = RS!Unchanged
  <2>1. pc[t] # "persist" /\ loc # "persist"
    BY <1>2, <1>3 DEF LifecycleLocs
  <2>2. QED
    BY <1>1, <1>2, <1>3, <2>1, UnsavedUnchanged
<1>6. CASE Construct(t)
  <2>1. CASE Leave(t, "create") /\ dec' = [dec EXCEPT ![t] = "error"]
             /\ UNCHANGED heap
    BY <1>1, <1>2, <2>1, RefuseImplements DEF Goto, Leave, heap
  <2>2. ASSUME NEW o \in Objects,
               /\ status[o] = "unused"
               /\ Goto(t, "create", "publish")
               /\ status' = [status EXCEPT ![o] = "alive"]
               /\ policy' = [policy EXCEPT ![o] = rows]
               /\ UNCHANGED <<enforcer, dec>>
        PROVE  [RS!Next]_RS!vars
    <3>1. \A u \in Threads : pc[u] # "clear"
      BY <1>2, <2>2, LifecycleAlone DEF Goto
    <3>2. enforcer # NULL => status[enforcer] = "alive"
      BY <3>1 DEF PointerInv, GlobalInv
    <3>3. Usable' = Usable /\ RulesInForce' = RulesInForce
      BY <1>1, <2>2, <3>2 DEF Usable, RulesInForce, TypeOK, HeapTypeOK
    <3>4. UNCHANGED RS!vars
      BY <1>2, <1>4, <1>5, <2>2, <3>3 DEF RS!vars
    <3>5. QED
      BY <3>4
  <2>3. QED
    BY <1>6, <2>1, <2>2 DEF Construct
<1>7. CASE Publish(t)
  <2>1. /\ enforcer' = this[t] /\ status' = status /\ policy' = policy
        /\ dec' = dec /\ pc[t] = "publish"
    BY <1>7 DEF Publish, Goto, heap
  <2>2. this[t] # NULL /\ status[this[t]] = "alive" /\ policy[this[t]] = rows
    BY <1>1, <2>1 DEF RegisterInv, LoadInv
  <2>3. Usable' = TRUE /\ RulesInForce' = rows
    BY <2>1, <2>2 DEF Usable, RulesInForce
  <2>4. RS!Open
    BY <1>2, <1>4, <1>5, <2>1, <2>3 DEF RS!Open
  <2>5. QED
    BY <2>4 DEF RS!Next
<1>8. CASE DestroyGuard(t)
  <2>1. /\ enforcer' = enforcer /\ status' = status /\ policy' = policy
        /\ dec' = dec
    BY <1>8 DEF DestroyGuard, heap
  <2>2. QED
    BY <1>2, <1>4, <1>5, <2>1, StutterImplements
<1>9. CASE Delete(t)
  <2>1. /\ pc[t] = "delete" /\ enforcer' = enforcer /\ dec' = dec
        /\ status' = [status EXCEPT ![this[t]] = "deleted"]
    BY <1>9 DEF Delete, Undefined
  <2>2. this[t] = enforcer /\ enforcer # NULL
    BY <1>1, <2>1 DEF RegisterInv
  <2>3. Usable' = FALSE /\ RulesInForce' = {}
    BY <1>1, <2>1, <2>2 DEF Usable, RulesInForce, TypeOK, HeapTypeOK
  <2>4. RS!Close
    BY <1>2, <1>4, <1>5, <2>1, <2>3 DEF RS!Close
  <2>5. QED
    BY <2>4 DEF RS!Next
<1>10. CASE Clear(t)
  <2>1. enforcer' = NULL /\ dec' = dec /\ pc[t] = "clear"
    BY <1>10 DEF Clear, Goto
  <2>2. ~Usable /\ ~Usable'
    BY <2>1 DEF LoadInv, Usable
  <2>3. (Usable' = Usable) /\ (RulesInForce' = RulesInForce)
    BY <2>2 DEF RulesInForce, Usable
  <2>4. UNCHANGED RS!vars
    BY <1>2, <1>4, <1>5, <2>1, <2>3 DEF RS!vars
  <2>5. QED
    BY <2>4
<1>11. QED
  BY <1>6, <1>7, <1>8, <1>9, <1>10 DEF LifecycleStep

(* As long as nothing but reads overlap, the unlocked pointer, the objects *)
(* behind it and the cache are not to be told from one set of rules: each  *)
(* request is decided in one step between call and answer, each change is  *)
(* one step, and a new enforcer has the rules of the database.             *)
THEOREM NifImplementsRuleService ==
  ASSUME OnlyReadersOverlap
  PROVE  Spec => ImplementsRuleService
<1>1. ServiceSafe /\ ServiceSafe' /\ [Next]_vars => [RS!Next]_RS!vars
  <2> SUFFICES ASSUME ServiceSafe, NoUndefinedBehaviour', [Next]_vars
               PROVE  [RS!Next]_RS!vars
    BY DEF ServiceSafe
  <2>1. CASE UNCHANGED vars
    <3>1. UNCHANGED <<Usable, RulesInForce, Asking, Unsaved, rows, req, dec>>
      BY <2>1 DEF vars, heap, locals, Usable, RulesInForce, Asking, Unsaved
    <3>2. QED
      BY <3>1 DEF RS!vars
  <2>2. ASSUME NEW t \in Threads, Call(t) \/ Step(t)
        PROVE  [RS!Next]_RS!vars
    BY <2>2, CallImplements, ReaderImplements, WriterImplements,
       LifecycleImplements, ReadersLeaveLifecycleAlone DEF Step
  <2>3. QED
    BY <2>1, <2>2 DEF Next
<1>2. QED
  BY <1>1, InitImplements, NifServiceSafe, PTL
     DEF Spec, ImplementsRuleService, RS!Spec
=============================================================================
