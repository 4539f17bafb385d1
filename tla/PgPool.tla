------------------------------- MODULE PgPool -------------------------------
(***************************************************************************)
(* The connection pool of the Postgres adapter (c_src/pg_pool.h,           *)
(* c_src/pg_pool.cpp) as every PgAdapter operation uses it                 *)
(* (c_src/pg_adapter.cpp): a PoolConnection is constructed, a pqxx::work   *)
(* is opened on its connection, and both are destroyed in reverse order    *)
(* when the operation returns or throws.                                   *)
(*                                                                         *)
(* Each step is what one thread does between two points where another      *)
(* thread may run.  The queue is read (front) and shortened (pop) in two   *)
(* steps, so that the exclusion of other threads in between is the         *)
(* mutex's doing and not the model's.                                      *)
(***************************************************************************)
EXTENDS Naturals, Sequences, FiniteSets

CONSTANTS Threads,       \* threads that may run adapter operations
          Connections,   \* the POOL_SIZE connections createPool opens
          NoThread,      \* "m_mutex is not locked"
          NoConnection,  \* "_connection is not set"
          MaxSpurious    \* bound: spurious wake-ups in a behaviour

ASSUME PoolAssumption == /\ IsFiniteSet(Threads)
                         /\ IsFiniteSet(Connections) /\ Connections # {}
                         /\ NoThread \notin Threads
                         /\ NoConnection \notin Connections
                         /\ MaxSpurious \in Nat

VARIABLES m_mutex,       \* the thread that owns m_mutex, or NoThread
          m_condition,   \* threads blocked in m_condition.wait
          m_pool,        \* the queue of connections
          conn,          \* the connection of each thread's PoolConnection
          txn,           \* connections on which a pqxx::work is open
          pc,            \* where each thread is
          spurious       \* spurious wake-ups so far

vars == <<m_mutex, m_condition, m_pool, conn, txn, pc, spurious>>

Location == {"idle", "lock", "test", "wait", "reacquire", "pop", "return",
             "begin", "work", "free", "push", "unlock", "notify"}

Queued(c) == \E i \in 1 .. Len(m_pool) : m_pool[i] = c

NoneQueuedTwice == \A i, j \in 1 .. Len(m_pool) : m_pool[i] = m_pool[j] => i = j

(* createPool opened POOL_SIZE connections and queued each of them.        *)
Init == /\ m_mutex = NoThread
        /\ m_condition = {}
        /\ m_pool \in [1 .. Cardinality(Connections) -> Connections]
        /\ NoneQueuedTwice
        /\ \A c \in Connections : Queued(c)
        /\ conn = [t \in Threads |-> NoConnection]
        /\ txn = {}
        /\ pc = [t \in Threads |-> "idle"]
        /\ spurious = 0

Goto(t, from, to) == /\ pc[t] = from
                     /\ pc' = [pc EXCEPT ![t] = to]

-----------------------------------------------------------------------------
(* PGPool::connection                                                      *)

(* An adapter operation starts and constructs its PoolConnection.          *)
Call(t) == /\ Goto(t, "idle", "lock")
           /\ UNCHANGED <<m_mutex, m_condition, m_pool, conn, txn, spurious>>

(* Mutant: without the lock.                                               *)
AcquiresAnyway(t) == m_mutex' = t

Acquires(t) == /\ m_mutex = NoThread
               /\ m_mutex' = t

Releases(t) == m_mutex' = NoThread

Lock(t) == /\ Goto(t, "lock", "test")
           /\ Acquires(t)
           /\ UNCHANGED <<m_condition, m_pool, conn, txn, spurious>>

(* Mutant: the thread polls the queue instead of blocking.                 *)
WaitBusy(t) == /\ m_pool = <<>>
               /\ Goto(t, "test", "lock")
               /\ Releases(t)
               /\ UNCHANGED <<m_condition, m_pool, conn, txn, spurious>>

(* The queue is empty: release the mutex and block, in one step.           *)
Wait(t) == /\ m_pool = <<>>
           /\ Goto(t, "test", "wait")
           /\ Releases(t)
           /\ m_condition' = m_condition \cup {t}
           /\ UNCHANGED <<m_pool, conn, txn, spurious>>

(* A notified thread owns the mutex again and goes back to the loop test.  *)
Reacquire(t) == /\ Goto(t, "reacquire", "test")
                /\ Acquires(t)
                /\ UNCHANGED <<m_condition, m_pool, conn, txn, spurious>>

SpuriousWakeup(t) == /\ t \in m_condition
                     /\ spurious < MaxSpurious
                     /\ spurious' = spurious + 1
                     /\ Goto(t, "wait", "reacquire")
                     /\ m_condition' = m_condition \ {t}
                     /\ UNCHANGED <<m_mutex, m_pool, conn, txn>>

Front(t) == /\ m_pool # <<>>
            /\ Goto(t, "test", "pop")
            /\ conn' = [conn EXCEPT ![t] = Head(m_pool)]
            /\ UNCHANGED <<m_mutex, m_condition, m_pool, txn, spurious>>

Pop(t) == /\ Goto(t, "pop", "return")
          /\ m_pool' = Tail(m_pool)
          /\ UNCHANGED <<m_mutex, m_condition, conn, txn, spurious>>

(* Mutant: the mutex is not unlocked on the way out.                       *)
ReturnLocked(t) == /\ Goto(t, "return", "begin")
                   /\ UNCHANGED <<m_mutex, m_condition, m_pool, conn, txn, spurious>>

Return(t) == /\ Goto(t, "return", "begin")
             /\ Releases(t)
             /\ UNCHANGED <<m_condition, m_pool, conn, txn, spurious>>

-----------------------------------------------------------------------------
(* The operation itself.                                                   *)

(* pqxx::work txn{ c.connection() }                                        *)
Begin(t) == /\ Goto(t, "begin", "work")
            /\ txn' = txn \cup {conn[t]}
            /\ UNCHANGED <<m_mutex, m_condition, m_pool, conn, spurious>>

(* Mutant: the connection is checked in by hand, and not when a query      *)
(* throws.                                                                 *)
FinishWithoutCheckin(t) ==
    /\ \/ Goto(t, "work", "free")
       \/ Goto(t, "work", "idle")
    /\ txn' = txn \ {conn[t]}
    /\ UNCHANGED <<m_mutex, m_condition, m_pool, conn, spurious>>

(* The operation ends, by return or by an exception of any query: txn is   *)
(* declared after c and is destroyed before it.                            *)
Finish(t) == /\ Goto(t, "work", "free")
             /\ txn' = txn \ {conn[t]}
             /\ UNCHANGED <<m_mutex, m_condition, m_pool, conn, spurious>>

-----------------------------------------------------------------------------
(* PoolConnection's destructor and PGPool::freeConnection                  *)

LockFree(t) == /\ Goto(t, "free", "push")
               /\ Acquires(t)
               /\ UNCHANGED <<m_condition, m_pool, conn, txn, spurious>>

Push(t) == /\ Goto(t, "push", "unlock")
           /\ m_pool' = Append(m_pool, conn[t])
           /\ UNCHANGED <<m_mutex, m_condition, conn, txn, spurious>>

(* Mutant: freeConnection returns without notify_one.                      *)
UnlockSilently(t) == /\ Goto(t, "unlock", "idle")
                     /\ Releases(t)
                     /\ conn' = [conn EXCEPT ![t] = NoConnection]
                     /\ UNCHANGED <<m_condition, m_pool, txn, spurious>>

Unlock(t) == /\ Goto(t, "unlock", "notify")
             /\ Releases(t)
             /\ UNCHANGED <<m_condition, m_pool, conn, txn, spurious>>

(* Mutant: notify_one is called only when the queue had been empty.        *)
NotifyFirst(t) ==
    /\ pc[t] = "notify"
    /\ \/ /\ Len(m_pool) # 1 \/ m_condition = {}
          /\ pc' = [pc EXCEPT ![t] = "idle"]
          /\ UNCHANGED m_condition
       \/ \E w \in m_condition :
             /\ Len(m_pool) = 1
             /\ pc' = [pc EXCEPT ![t] = "idle", ![w] = "reacquire"]
             /\ m_condition' = m_condition \ {w}
    /\ conn' = [conn EXCEPT ![t] = NoConnection]
    /\ UNCHANGED <<m_mutex, m_pool, txn, spurious>>

(* notify_one wakes one blocked thread, which one is not specified; then   *)
(* the PoolConnection is gone.                                             *)
NotifyOne(t) ==
    /\ pc[t] = "notify"
    /\ \/ /\ m_condition = {}
          /\ pc' = [pc EXCEPT ![t] = "idle"]
          /\ UNCHANGED m_condition
       \/ \E w \in m_condition :
             /\ pc' = [pc EXCEPT ![t] = "idle", ![w] = "reacquire"]
             /\ m_condition' = m_condition \ {w}
    /\ conn' = [conn EXCEPT ![t] = NoConnection]
    /\ UNCHANGED <<m_mutex, m_pool, txn, spurious>>

-----------------------------------------------------------------------------
(* What a thread does once it has called: all of it runs without waiting   *)
(* for anything but the mutex and the condition variable.                  *)
Step(t) == \/ Lock(t) \/ Wait(t) \/ Reacquire(t) \/ Front(t) \/ Pop(t)
           \/ Return(t) \/ Begin(t) \/ Finish(t) \/ LockFree(t) \/ Push(t)
           \/ Unlock(t) \/ NotifyOne(t)

Next == \E t \in Threads : Call(t) \/ SpuriousWakeup(t) \/ Step(t)

SafetySpec == Init /\ [][Next]_vars

(* The operating system keeps running every thread that can run, and every *)
(* query returns or fails.                                                 *)
Spec == SafetySpec /\ \A t \in Threads : WF_vars(Step(t))

-----------------------------------------------------------------------------
(* From pop to push the connection belongs to the thread.                  *)
Holds(t) == pc[t] \in {"return", "begin", "work", "free", "push"}

(* Threads that own the mutex, have been woken, or are about to notify.    *)
Active == {t \in Threads : pc[t] \in {"test", "reacquire", "pop",
                                      "unlock", "notify"}}

(* The types of the pool's variables; m_condition holds exactly the        *)
(* threads blocked in wait.                                                *)
TypeOK == /\ m_mutex \in Threads \cup {NoThread}
          /\ m_condition = {t \in Threads : pc[t] = "wait"}
          /\ m_pool \in Seq(Connections)
          /\ conn \in [Threads -> Connections \cup {NoConnection}]
          /\ txn \in SUBSET Connections
          /\ pc \in [Threads -> Location]
          /\ spurious \in 0 .. MaxSpurious

(* A connection is never lent to two threads, never lent while it is still *)
(* queued, and never queued twice (connection and freeConnection under     *)
(* m_mutex).                                                               *)
ExclusiveUse ==
    /\ \A t, u \in Threads : Holds(t) /\ Holds(u) /\ conn[t] = conn[u] => t = u
    /\ \A t \in Threads : Holds(t) => ~Queued(conn[t])
    /\ NoneQueuedTwice

(* No connection is lost, whatever way the operations end: each is queued  *)
(* or held by a thread (the RAII check-in of PoolConnection).              *)
NoneLost == \A c \in Connections :
               Queued(c) \/ \E t \in Threads : Holds(t) /\ conn[t] = c

(* A transaction is open on a connection only while exactly one thread     *)
(* works with it: a connection goes back to the queue with no transaction  *)
(* open, and a second pqxx::work is never begun on one that has.           *)
CleanCheckin ==
    /\ \A c \in txn : \E t \in Threads : pc[t] = "work" /\ conn[t] = c
    /\ \A t \in Threads : pc[t] = "begin" => conn[t] \notin txn

(* Wake-ups are never lost: while threads are blocked in wait, each queued *)
(* connection is matched by a thread that will take it or is about to call *)
(* notify_one, though freeConnection notifies after it unlocked.           *)
NoLostWakeup == m_condition # {} => Len(m_pool) <= Cardinality(Active)

(* The pool conserves work: a thread is blocked in wait only while as many *)
(* others as there are connections have one or are at work in the pool.    *)
Holders == {t \in Threads : Holds(t)}

WorkConserving ==
    m_condition # {} => Cardinality(Connections) <= Cardinality(Holders \cup Active)

(* The threads that need not wait for another one to take their next step. *)
Runnable(t) == \/ pc[t] \in {"test", "pop", "return", "begin", "work", "push",
                             "unlock", "notify"}
               \/ pc[t] \in {"lock", "reacquire", "free"} /\ m_mutex = NoThread

(* Nobody waits for ever on everybody else: while operations are under     *)
(* way, one of them can go on, without a new call or a spurious wake-up.   *)
SomeoneRuns == (\E t \in Threads : pc[t] # "idle") => \E t \in Threads : Runnable(t)

(* A budget of steps for each thread, which it uses up on the way to       *)
(* "idle"; who calls notify_one has three left for the one step, so that   *)
(* the thread it wakes can be given two.                                   *)
StepsLeft == [loc \in Location |->
                CASE loc = "idle"      -> 0    [] loc = "begin"     -> 8
                  [] loc = "notify"    -> 3    [] loc = "return"    -> 9
                  [] loc = "unlock"    -> 4    [] loc = "pop"       -> 10
                  [] loc = "push"      -> 5    [] loc = "wait"      -> 10
                  [] loc = "free"      -> 6    [] loc = "test"      -> 11
                  [] loc = "work"      -> 7    [] OTHER             -> 12]

Budget == {tn \in Threads \X (1 .. 12) : tn[2] <= StepsLeft[pc[tn[1]]]}

(* The waiting and waking comes to an end: every step but a new call and a *)
(* spurious wake-up uses up some of the threads' budget (the loop around   *)
(* wait in connection does not go round without a freeConnection).  With   *)
(* SomeoneRuns, operations under way all finish if no new ones come.       *)
StepsRunOut ==
    [][/\ \A t \in Threads : pc[t] = "idle" => pc'[t] = "idle"
       /\ spurious' = spurious
       => Cardinality(Budget') < Cardinality(Budget)]_vars

(* Facts about single locations that make the invariants above inductive:  *)
(* the code between lock and unlock runs only with m_mutex owned, front's  *)
(* answer is still the head of the queue when pop runs, and a held         *)
(* connection is a real one.                                               *)
LocationInv ==
    \A t \in Threads :
        /\ m_mutex = t <=> pc[t] \in {"test", "pop", "return", "push", "unlock"}
        /\ pc[t] = "pop" => m_pool # <<>> /\ conn[t] = Head(m_pool)
        /\ Holds(t) => conn[t] \in Connections

(* The inductive invariant of the pool.                                    *)
IInv == /\ TypeOK
        /\ LocationInv
        /\ ExclusiveUse
        /\ NoneLost
        /\ CleanCheckin
        /\ NoLostWakeup

-----------------------------------------------------------------------------
(* The pool implements the abstract one: a thread owns its connection from *)
(* pop to push.                                                            *)
Wanting == {t \in Threads : pc[t] \in {"lock", "test", "wait",
                                       "reacquire", "pop"}}
Free  == {c \in Connections : Queued(c)}
Owner == [t \in Threads |-> IF Holds(t) THEN conn[t] ELSE NoConnection]

CP == INSTANCE ConnectionPool
        WITH wanting <- Wanting, free <- Free, owner <- Owner

(* connection and freeConnection implement Acquire and Release, and a free *)
(* connection does not stay free for ever while threads wait.              *)
ImplementsConnectionPool == CP!Spec

(* The safety part alone, the form that is proved.                         *)
ImplementsPoolSafety == CP!SafetySpec

(* PGPool does not serve threads in order, so a thread can be overtaken;   *)
(* but once the other threads make no new calls, a thread that waits for a *)
(* connection gets one.                                                    *)
ServedWhenOthersStop ==
    \A t \in Threads :
        <>[](\A u \in Threads \ {t} : pc[u] # "lock")
            => (pc[t] \in {"lock", "wait"} ~> pc[t] = "work")
=============================================================================
