----------------------------- MODULE CasbinNif ------------------------------
(***************************************************************************)
(* The NIF layer (c_src/casbin_nif.cpp): one enforcer behind a global      *)
(* pointer, used by every scheduler thread of the VM without any lock.     *)
(* Each step is what one thread does between two points where the others   *)
(* may run.  The handlers read the global pointer again at each use, as    *)
(* the compiled code does: a call into the VM or into casbin lies between  *)
(* any two uses.                                                           *)
(*                                                                         *)
(* casbin is external: its CachedEnforcer looks a decision up, evaluates   *)
(* the policy and stores the decision in three steps, its cache map has a  *)
(* lock of its own, and its policy has none.                               *)
(***************************************************************************)
EXTENDS Rbac, FiniteSets

CONSTANTS Threads,          \* scheduler threads that run NIF calls
          Objects,          \* bound: the enforcers that can be created
          NULL,             \* nullptr
          Requests,         \* the <<subject, resource>> pairs asked about
          Overlap,          \* pairs of kinds of call the callers let overlap
          PairedLifecycle   \* callers create only after they have destroyed

Kinds == {"reader", "writer", "lifecycle"}

ASSUME NifAssumption == /\ NULL \notin Objects
                        /\ Requests \subseteq (Subjects \cup {Superuser}) \X Resources
                        /\ Overlap \subseteq Kinds \X Kinds
                        /\ PairedLifecycle \in BOOLEAN

VARIABLES enforcer,   \* the global pointer
          status,     \* per object: "unused", "alive" or "deleted"
          policy,     \* per object: the rules in its memory
          cache,      \* per object: the decision cached for each request
          rows,       \* the rules in the database
          pc,         \* where each thread is
          this,       \* the object a thread is in, or has in a register
          req,        \* the request of an Enforce call
          todo,       \* what a mutator has still to do
          dec,        \* the decision an Enforce call computed or answered
          vm          \* "up", or the first undefined behaviour met

heap    == <<status, policy, cache, rows>>
locals  == <<pc, this, req, todo, dec>>
vars    == <<enforcer, heap, locals, vm>>

ReaderLocs    == {"enforce", "lookup", "evaluating", "store",
                  "query", "find", "reading"}
WriterLocs    == {"mutate", "invalidate", "enter", "editing", "persist",
                  "again"}
LifecycleLocs == {"create", "publish", "destroy", "delete", "clear"}
Location      == {"idle"} \cup ReaderLocs \cup WriterLocs \cup LifecycleLocs

KindOf(loc) == IF loc \in ReaderLocs THEN "reader"
               ELSE IF loc \in WriterLocs THEN "writer" ELSE "lifecycle"

NothingCached == [q \in Requests |-> "miss"]

Init == /\ enforcer = NULL
        /\ status = [o \in Objects |-> "unused"]
        /\ policy = [o \in Objects |-> {}]
        /\ cache = [o \in Objects |-> NothingCached]
        /\ rows \in SUBSET Rules
        /\ pc = [t \in Threads |-> "idle"]
        /\ this = [t \in Threads |-> NULL]
        /\ req \in [Threads -> Requests]
        /\ todo = [t \in Threads |-> NoOp]
        /\ dec = [t \in Threads |-> "none"]
        /\ vm = "up"

-----------------------------------------------------------------------------
(* What the callers do.  lib/casbinex.ex passes every call straight on, so *)
(* which calls overlap is the application's choice.                        *)

MayStart(kind) == \A u \in Threads :
                     pc[u] # "idle" => <<kind, KindOf(pc[u])>> \in Overlap

Start(t, loc) == /\ vm = "up"
                 /\ pc[t] = "idle"
                 /\ MayStart(KindOf(loc))
                 /\ pc' = [pc EXCEPT ![t] = loc]
                 /\ dec' = [dec EXCEPT ![t] = "none"]
                 /\ UNCHANGED <<enforcer, heap, this, vm>>

Enforce(t) == /\ Start(t, "enforce")
              /\ \E q \in Requests : req' = [req EXCEPT ![t] = q]
              /\ UNCHANGED todo

(* GetUsersForRole, GetRolesForUser, GetFilteredPolicy.                    *)
Query(t) == Start(t, "query") /\ UNCHANGED <<req, todo>>

Mutate(t, ops) == /\ Start(t, "mutate")
                  /\ \E op \in ops : todo' = [todo EXCEPT ![t] = op]
                  /\ UNCHANGED req

AddPolicy(t)            == Mutate(t, AddPolicyOps)
RemovePolicy(t)         == Mutate(t, RemovePolicyOps)
RemoveFilteredPolicy(t) == Mutate(t, RemoveFilteredPolicyOps)
AddGroupingPolicy(t)    == Mutate(t, AddGroupingPolicyOps)
AddRoleForUser(t)       == Mutate(t, AddRoleForUserOps)
AddRolesForUser(t)      == Mutate(t, AddRolesForUserOps)
DeleteRoleForUser(t)    == Mutate(t, DeleteRoleForUserOps)
DeleteRolesForUser(t)   == Mutate(t, DeleteRolesForUserOps)
DeleteRole(t)           == Mutate(t, DeleteRoleOps)

CreateEnforcer(t) == /\ PairedLifecycle => enforcer = NULL
                     /\ Start(t, "create")
                     /\ UNCHANGED <<req, todo>>

DestroyEnforcer(t) == Start(t, "destroy") /\ UNCHANGED <<req, todo>>

-----------------------------------------------------------------------------
(* The steps of the handlers.                                              *)

(* Threads inside a method of object o, and those among them that read or  *)
(* write its policy at this moment.                                        *)
Inside(o) == {u \in Threads : /\ this[u] = o
                              /\ pc[u] \in {"evaluating", "store", "reading",
                                            "editing", "persist", "again"}}
Reading(o) == {u \in Inside(o) : pc[u] \in {"evaluating", "reading"}}
Writing(o) == {u \in Inside(o) : pc[u] = "editing"}

Goto(t, from, to) == /\ vm = "up"
                     /\ pc[t] = from
                     /\ pc' = [pc EXCEPT ![t] = to]

(* The call is over: its registers are gone.                               *)
Leave(t, from) == /\ Goto(t, from, "idle")
                  /\ this' = [this EXCEPT ![t] = NULL]
                  /\ todo' = [todo EXCEPT ![t] = NoOp]
                  /\ UNCHANGED <<enforcer, req, vm>>

(* Nothing is said of what the process does after undefined behaviour.     *)
Undefined(t, from, what) == /\ Goto(t, from, "idle")
                            /\ vm' = what
                            /\ UNCHANGED <<enforcer, heap, this, req, todo, dec>>

(* Calls with an index of a field, which may turn out to be no int.        *)
TakesIndex(t, from) ==
    \/ from = "query"
    \/ from = "mutate" /\ todo[t] \in RemoveFilteredPolicyOps

(* if(!enforcer) return error; and badarg for what is no index.            *)
Guard(t, from, to) ==
    \/ /\ enforcer = NULL \/ TakesIndex(t, from)
       /\ Leave(t, from)
       /\ dec' = [dec EXCEPT ![t] = "error"]
       /\ UNCHANGED heap
    \/ /\ enforcer # NULL
       /\ Goto(t, from, to)
       /\ UNCHANGED <<enforcer, heap, this, req, todo, dec, vm>>

(* Mutant: Enforce without the test.                                       *)
EnforceUnguarded(t) == /\ Goto(t, "enforce", "lookup")
                       /\ UNCHANGED <<enforcer, heap, this, req, todo, dec, vm>>

EnforceGuard(t) == Guard(t, "enforce", "lookup")
QueryGuard(t)   == Guard(t, "query", "find")

(* Mutant: a mutator without InvalidateCache.                              *)
MutateKeepsCache(t) == Guard(t, "mutate", "enter")

MutateGuard(t)  == Guard(t, "mutate", "invalidate")

(* A method is called through the global pointer.                          *)
Usable == enforcer # NULL /\ status[enforcer] = "alive"

BadUse(t, from) == /\ ~Usable
                   /\ Undefined(t, from, IF enforcer = NULL THEN "null"
                                                            ELSE "dangling")

(* The policy of the object is read or written from here until the thread  *)
(* moves on; doing so while one of others is at it as well is a data race. *)
Access(t, from, to, o, others) ==
    \/ /\ others = {}
       /\ Goto(t, from, to)
       /\ this' = [this EXCEPT ![t] = o]
       /\ UNCHANGED <<enforcer, heap, req, todo, dec, vm>>
    \/ /\ others # {}
       /\ Undefined(t, from, "race")

(* CachedEnforcer::Enforce: the decision is in the cache, or is evaluated  *)
(* and stored.                                                             *)
Lookup(t) ==
    \/ BadUse(t, "lookup")
    \/ /\ Usable
       /\ cache[enforcer][req[t]] # "miss"
       /\ Leave(t, "lookup")
       /\ dec' = [dec EXCEPT ![t] = cache[enforcer][req[t]]]
       /\ UNCHANGED heap
    \/ /\ Usable
       /\ cache[enforcer][req[t]] = "miss"
       /\ Access(t, "lookup", "evaluating", enforcer, Writing(enforcer))

Evaluate(t) == /\ Goto(t, "evaluating", "store")
               /\ dec' = [dec EXCEPT ![t] = Decision(req[t], policy[this[t]])]
               /\ UNCHANGED <<enforcer, heap, this, req, todo, vm>>

(* Mutant: the decisions are cached without the request.                   *)
StoreForAll(t) == /\ Leave(t, "store")
                  /\ cache' = [cache EXCEPT ![this[t]] = [q \in Requests |-> dec[t]]]
                  /\ UNCHANGED <<status, policy, rows, dec>>

Store(t) == /\ Leave(t, "store")
            /\ cache' = [cache EXCEPT ![this[t]][req[t]] = dec[t]]
            /\ UNCHANGED <<status, policy, rows, dec>>

Find(t) == \/ BadUse(t, "find")
           \/ /\ Usable
              /\ Access(t, "find", "reading", enforcer, Writing(enforcer))

Read(t) == Leave(t, "reading") /\ UNCHANGED <<heap, dec>>

(* Mutant: the cache is not emptied.                                       *)
InvalidateNothing(t) ==
    \/ BadUse(t, "invalidate")
    \/ /\ Usable
       /\ Goto(t, "invalidate", "enter")
       /\ UNCHANGED <<enforcer, heap, this, req, todo, dec, vm>>

(* enforcer->InvalidateCache()                                             *)
Invalidate(t) ==
    \/ BadUse(t, "invalidate")
    \/ /\ Usable
       /\ Goto(t, "invalidate", "enter")
       /\ cache' = [cache EXCEPT ![enforcer] = NothingCached]
       /\ UNCHANGED <<enforcer, status, policy, rows, this, req, todo, dec, vm>>

(* enforcer->AddPolicy(...) and the like: the first part, or the next one. *)
Enter(t) == \/ BadUse(t, "enter")
            \/ /\ Usable
               /\ Access(t, "enter", "editing", enforcer,
                         Reading(enforcer) \cup Writing(enforcer))

EnterAgain(t) == Access(t, "again", "editing", this[t],
                        Reading(this[t]) \cup Writing(this[t]))

Apply(op, rules) == IF op.how = "add" THEN rules \cup Head(op.parts)
                                     ELSE rules \ Head(op.parts)

(* The part is done: on to the next one, or back to the caller.            *)
EditDone(t, from) ==
    \/ /\ Len(todo[t].parts) > 1
       /\ Goto(t, from, "again")
       /\ todo' = [todo EXCEPT ![t] = Op(todo[t].how, Tail(todo[t].parts))]
       /\ UNCHANGED <<enforcer, this, req, vm>>
    \/ /\ Len(todo[t].parts) <= 1
       /\ Leave(t, from)

(* The memory is changed first; what changes nothing is not written.       *)
Edit(t) ==
    LET old == policy[this[t]]
        new == Apply(todo[t], old)
    IN  \/ /\ pc[t] = "editing" /\ new # old
           /\ Goto(t, "editing", "persist")
           /\ policy' = [policy EXCEPT ![this[t]] = new]
           /\ UNCHANGED <<enforcer, status, cache, rows, this, req, todo, dec, vm>>
        \/ /\ pc[t] = "editing" /\ new = old
           /\ EditDone(t, "editing")
           /\ UNCHANGED <<heap, dec>>

(* The adapter writes the part, or throws: the rest of the call is dropped *)
(* and the memory stays changed.                                           *)
Persist(t) ==
    \/ /\ EditDone(t, "persist")
       /\ rows' = Apply(todo[t], rows)
       /\ UNCHANGED <<status, policy, cache, dec>>
    \/ /\ Leave(t, "persist")
       /\ dec' = [dec EXCEPT ![t] = "error"]
       /\ UNCHANGED heap

(* new CachedEnforcer(...) loads the rules, or throws.  The path of the    *)
(* policy is a database's; an enforcer on a file is not modelled.          *)
Construct(t) ==
    \/ \E o \in Objects :
          /\ status[o] = "unused"
          /\ Goto(t, "create", "publish")
          /\ status' = [status EXCEPT ![o] = "alive"]
          /\ policy' = [policy EXCEPT ![o] = rows]
          /\ this' = [this EXCEPT ![t] = o]
          /\ UNCHANGED <<enforcer, cache, rows, req, todo, dec, vm>>
    \/ /\ Leave(t, "create")
       /\ dec' = [dec EXCEPT ![t] = "error"]
       /\ UNCHANGED heap

(* enforcer = ...; whatever it pointed to before is not deleted.           *)
Publish(t) == /\ Goto(t, "publish", "idle")
              /\ enforcer' = this[t]
              /\ this' = [this EXCEPT ![t] = NULL]
              /\ UNCHANGED <<heap, req, todo, dec, vm>>

(* Mutant: the pointer is set to nullptr without deleting the enforcer.    *)
DestroyWithoutDelete(t) ==
    /\ Goto(t, "destroy", "clear")
    /\ UNCHANGED <<enforcer, heap, this, req, todo, dec, vm>>

(* if(enforcer) delete enforcer; one read of the pointer serves both.      *)
DestroyGuard(t) ==
    \/ /\ enforcer = NULL
       /\ Goto(t, "destroy", "clear")
       /\ UNCHANGED <<enforcer, heap, this, req, todo, dec, vm>>
    \/ /\ enforcer # NULL
       /\ Goto(t, "destroy", "delete")
       /\ this' = [this EXCEPT ![t] = enforcer]
       /\ UNCHANGED <<enforcer, heap, req, todo, dec, vm>>

(* Deleting an object twice, or while threads are in it, is undefined.     *)
Delete(t) ==
    LET o == this[t]
    IN  \/ /\ pc[t] = "delete" /\ status[o] = "alive" /\ Inside(o) = {}
           /\ Goto(t, "delete", "clear")
           /\ status' = [status EXCEPT ![o] = "deleted"]
           /\ policy' = [policy EXCEPT ![o] = {}]
           /\ cache' = [cache EXCEPT ![o] = NothingCached]
           /\ UNCHANGED <<enforcer, rows, this, req, todo, dec, vm>>
        \/ /\ pc[t] = "delete" /\ (status[o] # "alive" \/ Inside(o) # {})
           /\ Undefined(t, "delete", "dangling")

(* Mutant: the pointer is left as it was after delete.                     *)
ClearNothing(t) == /\ Goto(t, "clear", "idle")
                   /\ this' = [this EXCEPT ![t] = NULL]
                   /\ UNCHANGED <<enforcer, heap, req, todo, dec, vm>>

(* enforcer = nullptr;                                                     *)
Clear(t) == /\ Goto(t, "clear", "idle")
            /\ enforcer' = NULL
            /\ this' = [this EXCEPT ![t] = NULL]
            /\ UNCHANGED <<heap, req, todo, dec, vm>>

-----------------------------------------------------------------------------
Call(t) == \/ Enforce(t) \/ Query(t)
           \/ AddPolicy(t) \/ RemovePolicy(t) \/ RemoveFilteredPolicy(t)
           \/ AddGroupingPolicy(t) \/ AddRoleForUser(t) \/ AddRolesForUser(t)
           \/ DeleteRoleForUser(t) \/ DeleteRolesForUser(t) \/ DeleteRole(t)
           \/ CreateEnforcer(t) \/ DestroyEnforcer(t)

ReaderStep(t) == \/ EnforceGuard(t) \/ Lookup(t) \/ Evaluate(t) \/ Store(t)
                 \/ QueryGuard(t) \/ Find(t) \/ Read(t)

WriterStep(t) == \/ MutateGuard(t) \/ Invalidate(t) \/ Enter(t) \/ EnterAgain(t)
                 \/ Edit(t) \/ Persist(t)

LifecycleStep(t) == \/ Construct(t) \/ Publish(t)
                    \/ DestroyGuard(t) \/ Delete(t) \/ Clear(t)

Step(t) == ReaderStep(t) \/ WriterStep(t) \/ LifecycleStep(t)

Next == \E t \in Threads : Call(t) \/ Step(t)

Spec == Init /\ [][Next]_vars

-----------------------------------------------------------------------------
(* The variables' types; an answer is never an entry that is a "miss".     *)
HeapTypeOK == /\ status \in [Objects -> {"unused", "alive", "deleted"}]
              /\ policy \in [Objects -> SUBSET Rules]
              /\ cache \in [Objects -> [Requests -> {"miss", "allow", "deny"}]]
              /\ rows \in SUBSET Rules

TypeOK == /\ enforcer \in Objects \cup {NULL}
          /\ HeapTypeOK
          /\ pc \in [Threads -> Location]
          /\ this \in [Threads -> Objects \cup {NULL}]
          /\ req \in [Threads -> Requests]
          /\ todo \in [Threads -> Ops]
          /\ dec \in [Threads -> {"none", "allow", "deny", "error"}]
          /\ vm \in {"up", "null", "dangling", "race"}

(* No call is made through a null or dangling enforcer, and no enforcer is *)
(* deleted twice or under a thread that is in it, whatever calls the       *)
(* if(!enforcer) of the handlers lets through.                             *)
NoBadPointer == vm \notin {"null", "dangling"}

(* Nor is a policy read or written while another thread writes it: the     *)
(* handlers need no lock.                                                  *)
NoUndefinedBehaviour == vm = "up"

(* A call made without an enforcer is refused ("Must create and enforcer   *)
(* first."), never carried out on a null pointer.                          *)
NullNeverUsed == vm # "null"

(* What is cached is what the policy decides, at every moment: the cache   *)
(* of an object is emptied before its policy changes, and nothing computed *)
(* from the old policy is stored after that.                               *)
CacheCoherent ==
    \A o \in Objects, q \in Requests :
       cache[o][q] \in {"miss", Decision(q, policy[o])}

(* Once a removal has been answered, and no other call is under way, the   *)
(* next Enforce does not answer from a decision the removed rule allowed.  *)
DeniedOnceRemoved ==
    vm = "up" /\ (\A t \in Threads : pc[t] = "idle") =>
        \A o \in Objects, q \in Requests :
            cache[o][q] = "allow" => Allowed(q, policy[o])

(* An Enforce call answers what the policy of the enforcer then current    *)
(* decides at the moment of the answer, from the cache or not.             *)
AnswerCurrent ==
    [][\A t \in Threads :
          pc[t] \in {"lookup", "store"} /\ pc'[t] = "idle" /\ vm' = "up"
             => enforcer # NULL /\ dec'[t] = Decision(req[t], policy[enforcer])]_vars

(* The pointer never dangles: an enforcer it points to is alive, but for   *)
(* the moment between delete and the assignment of nullptr.                *)
PublishedAlive ==
    vm = "up" /\ enforcer # NULL =>
        \/ status[enforcer] = "alive"
        \/ \E t \in Threads : pc[t] = "clear" /\ this[t] = enforcer

(* No enforcer, and with it its four connections, is lost: one that is     *)
(* alive can be reached through the pointer or is about to be.             *)
NoLeak ==
    vm = "up" => \A o \in Objects : status[o] = "alive" =>
        \/ enforcer = o
        \/ \E t \in Threads : pc[t] = "publish" /\ this[t] = o

(* Whether anything lets the request through: a policy, the database, a    *)
(* cached decision, or one that a thread has made or answered.             *)
Granted(q) == \/ Allowed(q, rows)
              \/ \E o \in Objects : Allowed(q, policy[o]) \/ cache[o][q] = "allow"
              \/ \E t \in Threads : req[t] = q /\ dec[t] = "allow"

(* Whatever calls overlap: a stale decision may outlive the rule that      *)
(* allowed it, but what nothing lets through stays denied until some       *)
(* mutator adds a rule; no race, no failure of the adapter and no new      *)
(* enforcer grants anything by itself.                                     *)
NoEscalation ==
    [][\A q \in Requests : Granted(q)' /\ ~Granted(q) =>
          \E t \in Threads : pc[t] \in {"editing", "persist"} /\ todo[t].how = "add"]_vars

-----------------------------------------------------------------------------
(* What the callers may do for the handlers to be safe.                    *)
LifecycleExclusive == \A k \in Kinds : /\ <<"lifecycle", k>> \notin Overlap
                                       /\ <<k, "lifecycle">> \notin Overlap

OnlyReadersOverlap == Overlap \subseteq {<<"reader", "reader">>}

ReadersApart == /\ LifecycleExclusive
                /\ <<"reader", "writer">> \notin Overlap
                /\ <<"writer", "reader">> \notin Overlap

(* A mutator has parts left until it is back, and what an Enforce call is  *)
(* about to store is a decision.                                           *)
CallInv == \A t \in Threads :
              /\ pc[t] \in WriterLocs => todo[t].parts # <<>>
              /\ pc[t] = "store" => dec[t] \in {"allow", "deny"}

(* Calls overlap only as Overlap says.                                     *)
OverlapInv ==
    \A t, u \in Threads : t # u /\ pc[t] # "idle" /\ pc[u] # "idle" =>
        \/ <<KindOf(pc[t]), KindOf(pc[u])>> \in Overlap
        \/ <<KindOf(pc[u]), KindOf(pc[t])>> \in Overlap

(* Where the pointer and the threads' registers point while lifecycle      *)
(* calls run alone.                                                        *)
GlobalInv == enforcer # NULL => \/ status[enforcer] = "alive"
                                \/ \E t \in Threads : pc[t] = "clear"

RegisterInv(t) ==
    /\ pc[t] \in (ReaderLocs \cup WriterLocs) \ {"enforce", "query", "mutate"}
         => Usable
    /\ pc[t] \in {"evaluating", "store", "reading", "editing", "persist",
                  "again", "delete"} => this[t] = enforcer
    /\ pc[t] \in {"publish", "delete"}
         => this[t] # NULL /\ status[this[t]] = "alive"

PointerInv == GlobalInv /\ \A t \in Threads : RegisterInv(t)

(* What keeps the cache coherent while no reader overlaps a writer: a      *)
(* decision on its way to the cache is still right, and the cache stays    *)
(* empty for a mutator past the invalidation.                              *)
CacheInv ==
    /\ CacheCoherent
    /\ \A o \in Objects : status[o] = "unused" => cache[o] = NothingCached
    /\ \A t \in Threads :
         /\ pc[t] = "store" => dec[t] = Decision(req[t], policy[this[t]])
         /\ pc[t] \in {"enter", "editing", "persist", "again"}
              => cache[enforcer] = NothingCached

(* While lifecycle calls run alone, what a new enforcer has loaded is      *)
(* still what the database holds when it is published, and once it is      *)
(* deleted nobody gets through to it.                                      *)
LoadInv == \A t \in Threads :
              /\ pc[t] = "publish" => policy[this[t]] = rows
              /\ pc[t] = "clear" => ~Usable

-----------------------------------------------------------------------------
(* The handlers implement the rules as one set that is read and changed in *)
(* single steps: a decision is the step that evaluates it or finds it in   *)
(* the cache.                                                              *)
RulesInForce == IF Usable THEN policy[enforcer] ELSE {}

Asking == {t \in Threads : pc[t] \in {"enforce", "lookup", "evaluating"}}

Unsaved == [t \in Threads |->
              IF pc[t] = "persist"
              THEN [how |-> IF todo[t].how = "add" THEN "add" ELSE "remove",
                    part |-> Head(todo[t].parts)]
              ELSE [how |-> "none", part |-> {}]]

RS == INSTANCE RuleService
         WITH serving <- Usable, rules <- RulesInForce, asking <- Asking,
              unsaved <- Unsaved, answer <- dec, Decide <- Decision

(* As long as nothing but reads overlap, no caller can tell the unlocked   *)
(* pointer and the cache from one set of rules (every handler of           *)
(* casbin_nif.cpp goes on without any lock).                               *)
ImplementsRuleService == RS!Spec
=============================================================================
