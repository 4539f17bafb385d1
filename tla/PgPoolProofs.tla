---------------------------- MODULE PgPoolProofs ----------------------------
(***************************************************************************)
(* Proofs about the connection pool of module PgPool for every set of      *)
(* threads and connections: its invariants, by way of the inductive        *)
(* invariant IInv, and that it implements ConnectionPool.                  *)
(***************************************************************************)
EXTENDS PgPool, FiniteSetTheorems, SequenceTheorems, TLAPS

-----------------------------------------------------------------------------
(* What pop and push do to the queue.                                      *)

LEMMA PoppedQueue ==
  ASSUME m_pool \in Seq(Connections), m_pool # <<>>
  PROVE  /\ Len(m_pool) \in Nat \ {0}
         /\ Head(m_pool) = m_pool[1]
         /\ Tail(m_pool) \in Seq(Connections)
         /\ Len(Tail(m_pool)) = Len(m_pool) - 1
         /\ \A i \in 1 .. Len(m_pool) - 1 : Tail(m_pool)[i] = m_pool[i + 1]
  OBVIOUS

LEMMA PushedQueue ==
  ASSUME m_pool \in Seq(Connections), NEW c \in Connections
  PROVE  /\ Len(m_pool) \in Nat
         /\ Append(m_pool, c) \in Seq(Connections)
         /\ Append(m_pool, c) # <<>>
         /\ Len(Append(m_pool, c)) = Len(m_pool) + 1
         /\ \A i \in 1 .. Len(m_pool) : Append(m_pool, c)[i] = m_pool[i]
         /\ Append(m_pool, c)[Len(m_pool) + 1] = c
  OBVIOUS

-----------------------------------------------------------------------------
(* Type correctness and the facts about single locations.                  *)

LEMMA InitIInv == Init => IInv
<1> SUFFICES ASSUME Init PROVE IInv
  OBVIOUS
<1> USE PoolAssumption DEF Init
<1>1. TypeOK
  <2>1. Cardinality(Connections) \in Nat
    BY FS_CardinalityType
  <2>2. m_pool \in Seq(Connections)
    BY <2>1
  <2>3. QED
    BY <2>2 DEF TypeOK, Location
<1>2. LocationInv
  BY DEF LocationInv, Holds
<1>3. ExclusiveUse
  BY DEF ExclusiveUse, Holds
<1>4. NoneLost
  BY DEF NoneLost
<1>5. CleanCheckin
  BY DEF CleanCheckin
<1>6. NoLostWakeup
  BY DEF NoLostWakeup
<1>7. QED
  BY <1>1, <1>2, <1>3, <1>4, <1>5, <1>6 DEF IInv

LEMMA StepTypeOK == TypeOK /\ LocationInv /\ [Next]_vars => TypeOK'
<1> SUFFICES ASSUME TypeOK, LocationInv, [Next]_vars PROVE TypeOK'
  OBVIOUS
<1> USE PoolAssumption DEF TypeOK, Location, Goto, Acquires, Releases
<1>1. CASE UNCHANGED vars
  BY <1>1 DEF vars
<1>2. ASSUME NEW t \in Threads, Call(t) PROVE TypeOK'
  BY <1>2 DEF Call
<1>3. ASSUME NEW t \in Threads, SpuriousWakeup(t) PROVE TypeOK'
  BY <1>3 DEF SpuriousWakeup
<1>4. ASSUME NEW t \in Threads, Lock(t) PROVE TypeOK'
  BY <1>4 DEF Lock
<1>5. ASSUME NEW t \in Threads, Wait(t) PROVE TypeOK'
  BY <1>5 DEF Wait
<1>6. ASSUME NEW t \in Threads, Reacquire(t) PROVE TypeOK'
  BY <1>6 DEF Reacquire
<1>7. ASSUME NEW t \in Threads, Front(t) PROVE TypeOK'
  BY <1>7, PoppedQueue DEF Front
<1>8. ASSUME NEW t \in Threads, Pop(t) PROVE TypeOK'
  BY <1>8, PoppedQueue DEF Pop, LocationInv
<1>9. ASSUME NEW t \in Threads, Return(t) PROVE TypeOK'
  BY <1>9 DEF Return
<1>10. ASSUME NEW t \in Threads, Begin(t) PROVE TypeOK'
  BY <1>10 DEF Begin, LocationInv, Holds
<1>11. ASSUME NEW t \in Threads, Finish(t) PROVE TypeOK'
  BY <1>11 DEF Finish
<1>12. ASSUME NEW t \in Threads, LockFree(t) PROVE TypeOK'
  BY <1>12 DEF LockFree
<1>13. ASSUME NEW t \in Threads, Push(t) PROVE TypeOK'
  BY <1>13 DEF Push, LocationInv, Holds
<1>14. ASSUME NEW t \in Threads, Unlock(t) PROVE TypeOK'
  BY <1>14 DEF Unlock
<1>15. ASSUME NEW t \in Threads, NotifyOne(t) PROVE TypeOK'
  BY <1>15 DEF NotifyOne
<1>16. QED
  BY <1>1, <1>2, <1>3, <1>4, <1>5, <1>6, <1>7, <1>8, <1>9, <1>10, <1>11,
     <1>12, <1>13, <1>14, <1>15 DEF Next, Step

LEMMA StepLocationInv == TypeOK /\ LocationInv /\ [Next]_vars => LocationInv'
<1> SUFFICES ASSUME TypeOK, LocationInv, [Next]_vars PROVE LocationInv'
  OBVIOUS
<1> USE PoolAssumption DEF TypeOK, LocationInv, Holds, Goto, Acquires, Releases
<1>1. CASE UNCHANGED vars
  BY <1>1 DEF vars
<1>2. ASSUME NEW t \in Threads, Call(t) PROVE LocationInv'
  BY <1>2 DEF Call
<1>3. ASSUME NEW t \in Threads, SpuriousWakeup(t) PROVE LocationInv'
  BY <1>3 DEF SpuriousWakeup
<1>4. ASSUME NEW t \in Threads, Lock(t) PROVE LocationInv'
  BY <1>4 DEF Lock
<1>5. ASSUME NEW t \in Threads, Wait(t) PROVE LocationInv'
  BY <1>5 DEF Wait
<1>6. ASSUME NEW t \in Threads, Reacquire(t) PROVE LocationInv'
  BY <1>6 DEF Reacquire
<1>7. ASSUME NEW t \in Threads, Front(t) PROVE LocationInv'
  BY <1>7, PoppedQueue DEF Front
<1>8. ASSUME NEW t \in Threads, Pop(t) PROVE LocationInv'
  BY <1>8, PoppedQueue DEF Pop
<1>9. ASSUME NEW t \in Threads, Return(t) PROVE LocationInv'
  BY <1>9 DEF Return
<1>10. ASSUME NEW t \in Threads, Begin(t) PROVE LocationInv'
  BY <1>10 DEF Begin
<1>11. ASSUME NEW t \in Threads, Finish(t) PROVE LocationInv'
  BY <1>11 DEF Finish
<1>12. ASSUME NEW t \in Threads, LockFree(t) PROVE LocationInv'
  BY <1>12 DEF LockFree
<1>13. ASSUME NEW t \in Threads, Push(t) PROVE LocationInv'
  BY <1>13 DEF Push
<1>14. ASSUME NEW t \in Threads, Unlock(t) PROVE LocationInv'
  BY <1>14 DEF Unlock
<1>15. ASSUME NEW t \in Threads, NotifyOne(t) PROVE LocationInv'
  BY <1>15 DEF NotifyOne
<1>16. QED
  BY <1>1, <1>2, <1>3, <1>4, <1>5, <1>6, <1>7, <1>8, <1>9, <1>10,
     <1>11, <1>12, <1>13, <1>14, <1>15 DEF Next, Step

-----------------------------------------------------------------------------
(* Exclusive use.  Only Pop and Push move a connection; both run with      *)
(* m_mutex owned, so no other thread is between front and pop or about to  *)
(* push at the same time.                                                  *)

LEMMA StepExclusiveUse ==
  TypeOK /\ LocationInv /\ ExclusiveUse /\ [Next]_vars => ExclusiveUse'
<1> SUFFICES ASSUME TypeOK, LocationInv, ExclusiveUse, [Next]_vars
             PROVE  ExclusiveUse'
  OBVIOUS
<1> USE PoolAssumption DEF TypeOK, LocationInv, ExclusiveUse, NoneQueuedTwice,
        Queued, Holds, Goto
<1>1. CASE UNCHANGED vars
  BY <1>1 DEF vars
<1>2. ASSUME NEW t \in Threads, Call(t) PROVE ExclusiveUse'
  BY <1>2 DEF Call
<1>3. ASSUME NEW t \in Threads, SpuriousWakeup(t) PROVE ExclusiveUse'
  BY <1>3 DEF SpuriousWakeup
<1>4. ASSUME NEW t \in Threads, Lock(t) PROVE ExclusiveUse'
  BY <1>4 DEF Lock
<1>5. ASSUME NEW t \in Threads, Wait(t) PROVE ExclusiveUse'
  BY <1>5 DEF Wait
<1>6. ASSUME NEW t \in Threads, Reacquire(t) PROVE ExclusiveUse'
  BY <1>6 DEF Reacquire
<1>7. ASSUME NEW t \in Threads, Front(t) PROVE ExclusiveUse'
  BY <1>7 DEF Front
<1>8. ASSUME NEW t \in Threads, Pop(t) PROVE ExclusiveUse'
  BY <1>8, PoppedQueue DEF Pop
<1>9. ASSUME NEW t \in Threads, Return(t) PROVE ExclusiveUse'
  BY <1>9 DEF Return
<1>10. ASSUME NEW t \in Threads, Begin(t) PROVE ExclusiveUse'
  BY <1>10 DEF Begin
<1>11. ASSUME NEW t \in Threads, Finish(t) PROVE ExclusiveUse'
  BY <1>11 DEF Finish
<1>12. ASSUME NEW t \in Threads, LockFree(t) PROVE ExclusiveUse'
  BY <1>12 DEF LockFree
<1>13. ASSUME NEW t \in Threads, Push(t) PROVE ExclusiveUse'
  BY <1>13, PushedQueue DEF Push
<1>14. ASSUME NEW t \in Threads, Unlock(t) PROVE ExclusiveUse'
  BY <1>14 DEF Unlock
<1>15. ASSUME NEW t \in Threads, NotifyOne(t) PROVE ExclusiveUse'
  BY <1>15 DEF NotifyOne
<1>16. QED
  BY <1>1, <1>2, <1>3, <1>4, <1>5, <1>6, <1>7, <1>8, <1>9, <1>10,
     <1>11, <1>12, <1>13, <1>14, <1>15 DEF Next, Step

(* No connection is lost: Pop hands the head to its thread, Push hands it  *)
(* back, and no other step changes the queue or the holders.               *)
LEMMA StepNoneLost ==
  TypeOK /\ LocationInv /\ NoneLost /\ [Next]_vars => NoneLost'
<1> SUFFICES ASSUME TypeOK, LocationInv, NoneLost, [Next]_vars
             PROVE  NoneLost'
  OBVIOUS
<1> USE PoolAssumption DEF TypeOK, LocationInv, NoneLost, Queued, Holds, Goto
<1>1. CASE UNCHANGED vars
  BY <1>1 DEF vars
<1>2. ASSUME NEW t \in Threads, Call(t) PROVE NoneLost'
  BY <1>2 DEF Call
<1>3. ASSUME NEW t \in Threads, SpuriousWakeup(t) PROVE NoneLost'
  BY <1>3 DEF SpuriousWakeup
<1>4. ASSUME NEW t \in Threads, Lock(t) PROVE NoneLost'
  BY <1>4 DEF Lock
<1>5. ASSUME NEW t \in Threads, Wait(t) PROVE NoneLost'
  BY <1>5 DEF Wait
<1>6. ASSUME NEW t \in Threads, Reacquire(t) PROVE NoneLost'
  BY <1>6 DEF Reacquire
<1>7. ASSUME NEW t \in Threads, Front(t) PROVE NoneLost'
  BY <1>7 DEF Front
<1>8. ASSUME NEW t \in Threads, Pop(t) PROVE NoneLost'
  <2> SUFFICES ASSUME NEW c \in Connections
               PROVE  Queued(c)' \/ \E u \in Threads : (Holds(u) /\ conn[u] = c)'
    OBVIOUS
  <2>1. /\ m_pool # <<>> /\ conn[t] = Head(m_pool)
        /\ m_pool' = Tail(m_pool) /\ conn' = conn
        /\ Holds(t)'
    BY <1>8 DEF Pop
  <2>2. \A u \in Threads : Holds(u) => Holds(u)'
    BY <1>8 DEF Pop
  <2>3. CASE \E u \in Threads : Holds(u) /\ conn[u] = c
    BY <2>1, <2>2, <2>3
  <2>4. CASE m_pool[1] = c
    BY <2>1, <2>4, PoppedQueue
  <2>5. ASSUME NEW i \in 1 .. Len(m_pool), i # 1, m_pool[i] = c
        PROVE  Queued(c)'
    <3>1. i - 1 \in 1 .. Len(m_pool')
      BY <2>1, <2>5, PoppedQueue
    <3>2. m_pool'[i - 1] = c
      BY <2>1, <2>5, PoppedQueue
    <3>3. QED
      BY <3>1, <3>2
  <2>6. QED
    BY <2>3, <2>4, <2>5
<1>9. ASSUME NEW t \in Threads, Return(t) PROVE NoneLost'
  BY <1>9 DEF Return
<1>10. ASSUME NEW t \in Threads, Begin(t) PROVE NoneLost'
  BY <1>10 DEF Begin
<1>11. ASSUME NEW t \in Threads, Finish(t) PROVE NoneLost'
  BY <1>11 DEF Finish
<1>12. ASSUME NEW t \in Threads, LockFree(t) PROVE NoneLost'
  BY <1>12 DEF LockFree
<1>13. ASSUME NEW t \in Threads, Push(t) PROVE NoneLost'
  BY <1>13, PushedQueue DEF Push
<1>14. ASSUME NEW t \in Threads, Unlock(t) PROVE NoneLost'
  BY <1>14 DEF Unlock
<1>15. ASSUME NEW t \in Threads, NotifyOne(t) PROVE NoneLost'
  BY <1>15 DEF NotifyOne
<1>16. QED
  BY <1>1, <1>2, <1>3, <1>4, <1>5, <1>6, <1>7, <1>8, <1>9, <1>10,
     <1>11, <1>12, <1>13, <1>14, <1>15 DEF Next, Step

LEMMA StepCleanCheckin ==
  TypeOK /\ LocationInv /\ ExclusiveUse /\ CleanCheckin /\ [Next]_vars
     => CleanCheckin'
<1> SUFFICES ASSUME TypeOK, LocationInv, ExclusiveUse, CleanCheckin, [Next]_vars
             PROVE  CleanCheckin'
  OBVIOUS
<1> USE PoolAssumption DEF TypeOK, LocationInv, ExclusiveUse, CleanCheckin,
        Holds, Goto
<1>1. CASE UNCHANGED vars
  BY <1>1 DEF vars
<1>2. ASSUME NEW t \in Threads, Call(t) PROVE CleanCheckin'
  BY <1>2 DEF Call
<1>3. ASSUME NEW t \in Threads, SpuriousWakeup(t) PROVE CleanCheckin'
  BY <1>3 DEF SpuriousWakeup
<1>4. ASSUME NEW t \in Threads, Lock(t) PROVE CleanCheckin'
  BY <1>4 DEF Lock
<1>5. ASSUME NEW t \in Threads, Wait(t) PROVE CleanCheckin'
  BY <1>5 DEF Wait
<1>6. ASSUME NEW t \in Threads, Reacquire(t) PROVE CleanCheckin'
  BY <1>6 DEF Reacquire
<1>7. ASSUME NEW t \in Threads, Front(t) PROVE CleanCheckin'
  BY <1>7 DEF Front
<1>8. ASSUME NEW t \in Threads, Pop(t) PROVE CleanCheckin'
  BY <1>8 DEF Pop
<1>9. ASSUME NEW t \in Threads, Return(t) PROVE CleanCheckin'
  BY <1>9 DEF Return
<1>10. ASSUME NEW t \in Threads, Begin(t) PROVE CleanCheckin'
  BY <1>10 DEF Begin
<1>11. ASSUME NEW t \in Threads, Finish(t) PROVE CleanCheckin'
  BY <1>11 DEF Finish
<1>12. ASSUME NEW t \in Threads, LockFree(t) PROVE CleanCheckin'
  BY <1>12 DEF LockFree
<1>13. ASSUME NEW t \in Threads, Push(t) PROVE CleanCheckin'
  BY <1>13 DEF Push
<1>14. ASSUME NEW t \in Threads, Unlock(t) PROVE CleanCheckin'
  BY <1>14 DEF Unlock
<1>15. ASSUME NEW t \in Threads, NotifyOne(t) PROVE CleanCheckin'
  BY <1>15 DEF NotifyOne
<1>16. QED
  BY <1>1, <1>2, <1>3, <1>4, <1>5, <1>6, <1>7, <1>8, <1>9, <1>10,
     <1>11, <1>12, <1>13, <1>14, <1>15 DEF Next, Step

-----------------------------------------------------------------------------
(* No lost wake-up.  The threads that count are those of Active; a step    *)
(* adds one, removes one or exchanges one for another.                     *)

LEMMA ActiveIsFinite == IsFiniteSet(Active) /\ Cardinality(Active) \in Nat
<1>1. Active \in SUBSET Threads
  BY DEF Active
<1>2. QED
  BY <1>1, FS_Subset, FS_CardinalityType, PoolAssumption

LEMMA StepNoLostWakeup ==
  TypeOK /\ LocationInv /\ NoLostWakeup /\ [Next]_vars => NoLostWakeup'
<1> SUFFICES ASSUME TypeOK, LocationInv, NoLostWakeup, [Next]_vars
             PROVE  NoLostWakeup'
  OBVIOUS
<1> DEFINE n == Cardinality(Active)
<1> USE PoolAssumption DEF Goto
<1>1. IsFiniteSet(Active) /\ n \in Nat /\ Len(m_pool) \in Nat
  BY ActiveIsFinite DEF TypeOK
<1>2. CASE UNCHANGED vars
  BY <1>2 DEF vars, NoLostWakeup, Active
<1>3. ASSUME NEW t \in Threads, Lock(t) PROVE NoLostWakeup'
  <2>1. t \notin Active /\ Active' = Active \cup {t}
    BY <1>3 DEF Lock, Active, TypeOK
  <2>2. Cardinality(Active') = n + 1
    BY <1>1, <2>1, FS_AddElement
  <2>3. m_condition' = m_condition /\ m_pool' = m_pool
    BY <1>3 DEF Lock
  <2>4. QED
    BY <1>1, <2>2, <2>3 DEF NoLostWakeup
<1>4. ASSUME NEW t \in Threads, SpuriousWakeup(t) PROVE NoLostWakeup'
  <2>1. t \notin Active /\ Active' = Active \cup {t}
    BY <1>4 DEF SpuriousWakeup, Active, TypeOK
  <2>2. Cardinality(Active') = n + 1
    BY <1>1, <2>1, FS_AddElement
  <2>3. m_condition # {} /\ m_pool' = m_pool
    BY <1>4 DEF SpuriousWakeup
  <2>4. QED
    BY <1>1, <2>2, <2>3 DEF NoLostWakeup
<1>5. ASSUME NEW t \in Threads, Push(t) PROVE NoLostWakeup'
  <2>1. t \notin Active /\ Active' = Active \cup {t}
    BY <1>5 DEF Push, Active, TypeOK
  <2>2. Cardinality(Active') = n + 1
    BY <1>1, <2>1, FS_AddElement
  <2>3. m_condition' = m_condition /\ Len(m_pool') = Len(m_pool) + 1
    BY <1>5, PushedQueue DEF Push, TypeOK, LocationInv, Holds
  <2>4. QED
    BY <1>1, <2>2, <2>3 DEF NoLostWakeup
<1>6. ASSUME NEW t \in Threads, Wait(t) PROVE NoLostWakeup'
  <2>1. m_pool' = <<>> /\ Active' = Active \ {t}
    BY <1>6 DEF Wait, Active, TypeOK
  <2>2. Cardinality(Active') \in Nat
    BY <1>1, <2>1, FS_RemoveElement, FS_CardinalityType
  <2>3. QED
    BY <2>1, <2>2 DEF NoLostWakeup
<1>7. ASSUME NEW t \in Threads, Pop(t) PROVE NoLostWakeup'
  <2>1. t \in Active /\ Active' = Active \ {t}
    BY <1>7 DEF Pop, Active, TypeOK
  <2>2. Cardinality(Active') = n - 1
    BY <1>1, <2>1, FS_RemoveElement
  <2>3. m_condition' = m_condition /\ Len(m_pool') = Len(m_pool) - 1
    BY <1>7, PoppedQueue DEF Pop, TypeOK, LocationInv
  <2>4. QED
    BY <1>1, <2>2, <2>3 DEF NoLostWakeup
<1>8. ASSUME NEW t \in Threads, NotifyOne(t) PROVE NoLostWakeup'
  <2>1. CASE m_condition = {}
    BY <1>8, <2>1 DEF NotifyOne, NoLostWakeup
  <2>2. CASE m_condition # {}
    <3>1. PICK w \in m_condition :
               /\ pc' = [pc EXCEPT ![t] = "idle", ![w] = "reacquire"]
               /\ pc[t] = "notify"
      BY <1>8, <2>2 DEF NotifyOne
    <3>2. t \in Active /\ w \in Threads \ Active
      BY <3>1 DEF Active, TypeOK
    <3>3. Active' = (Active \ {t}) \cup {w}
      BY <3>1, <3>2 DEF Active, TypeOK
    <3>4. Cardinality(Active \ {t}) = n - 1 /\ IsFiniteSet(Active \ {t})
      BY <1>1, <3>2, FS_RemoveElement
    <3>5. w \notin Active \ {t}
      BY <3>2
    <3>6. Cardinality((Active \ {t}) \cup {w}) = Cardinality(Active \ {t}) + 1
      BY <3>4, <3>5, FS_AddElement
    <3>7. Cardinality(Active') = n
      BY <1>1, <3>3, <3>4, <3>6
    <3>8. m_pool' = m_pool
      BY <1>8 DEF NotifyOne
    <3>9. QED
      BY <1>1, <2>2, <3>7, <3>8 DEF NoLostWakeup
  <2>3. QED
    BY <2>1, <2>2
<1>9. ASSUME NEW t \in Threads,
              \/ Call(t) \/ Reacquire(t) \/ Front(t) \/ Return(t)
              \/ Begin(t) \/ Finish(t) \/ LockFree(t) \/ Unlock(t)
       PROVE  NoLostWakeup'
  <2>1. m_condition' = m_condition /\ m_pool' = m_pool
    BY <1>9 DEF Call, Reacquire, Front, Return, Begin, Finish, LockFree, Unlock
  <2>2. Active' = Active
    BY <1>9 DEF Call, Reacquire, Front, Return, Begin, Finish, LockFree,
                 Unlock, Active, TypeOK
  <2>3. QED
    BY <2>1, <2>2 DEF NoLostWakeup
<1>10. QED
  BY <1>2, <1>3, <1>4, <1>5, <1>6, <1>7, <1>8, <1>9 DEF Next, Step

-----------------------------------------------------------------------------
(* The inductive invariant and what follows from it.                       *)

LEMMA StepIInv == IInv /\ [Next]_vars => IInv'
BY StepTypeOK, StepLocationInv, StepExclusiveUse, StepNoneLost,
   StepCleanCheckin, StepNoLostWakeup DEF IInv

(* IInv holds in every reachable state of the pool.                        *)
THEOREM PoolIInv == SafetySpec => []IInv
BY InitIInv, StepIInv, PTL DEF SafetySpec

(* The pool's variables keep their types.                                  *)
THEOREM PoolTypeOK == SafetySpec => []TypeOK
<1>1. IInv => TypeOK
  BY DEF IInv
<1>2. QED
  BY <1>1, PoolIInv, PTL

(* No connection is ever used by two threads, or used while it is queued.  *)
THEOREM PoolExclusiveUse == SafetySpec => []ExclusiveUse
<1>1. IInv => ExclusiveUse
  BY DEF IInv
<1>2. QED
  BY <1>1, PoolIInv, PTL

(* No connection is ever lost, whatever way an operation ends.             *)
THEOREM PoolNoneLost == SafetySpec => []NoneLost
<1>1. IInv => NoneLost
  BY DEF IInv
<1>2. QED
  BY <1>1, PoolIInv, PTL

(* Connections are checked in without an open transaction.                 *)
THEOREM PoolCleanCheckin == SafetySpec => []CleanCheckin
<1>1. IInv => CleanCheckin
  BY DEF IInv
<1>2. QED
  BY <1>1, PoolIInv, PTL

(* notify_one after unlock loses no wake-up, for any number of waiters.    *)
THEOREM PoolNoLostWakeup == SafetySpec => []NoLostWakeup
<1>1. IInv => NoLostWakeup
  BY DEF IInv
<1>2. QED
  BY <1>1, PoolIInv, PTL

-----------------------------------------------------------------------------
(* Work conservation and progress: consequences of IInv that count the     *)
(* connections.                                                            *)

(* The queue holds every free connection once, so it is as long as they    *)
(* are many.                                                               *)
LEMMA FreeFitsQueue ==
  ASSUME TypeOK
  PROVE  Cardinality(Free) <= Len(m_pool)
<1>1. Len(m_pool) \in Nat
  BY DEF TypeOK
<1>2. m_pool \in [1 .. Len(m_pool) -> Connections]
  BY DEF TypeOK
<1> DEFINE q == [i \in 1 .. Len(m_pool) |-> m_pool[i]]
<1>3. \A i \in 1 .. Len(m_pool) : m_pool[i] \in Free
  BY <1>2 DEF Free, Queued
<1>4. q \in [1 .. Len(m_pool) -> Free]
  BY <1>3
<1>5. \A c \in Free : \E i \in 1 .. Len(m_pool) : q[i] = c
  BY DEF Free, Queued
<1>6. q \in Surjection(1 .. Len(m_pool), Free)
  BY <1>4, <1>5 DEF Surjection
<1>7. ExistsSurjection(1 .. Len(m_pool), Free)
  BY <1>6 DEF ExistsSurjection
<1>8. QED
  BY <1>1, <1>7, FS_SurjCardinalityBound

(* Every other connection is held, each by a thread of its own.            *)
LEMMA LentFitsHolders ==
  ASSUME NoneLost
  PROVE  Cardinality(Connections \ Free) <= Cardinality(Holders)
<1> DEFINE Lent == Connections \ Free
           holder == [c \in Lent |-> CHOOSE t \in Holders : conn[t] = c]
<1>1. \A c \in Lent : \E t \in Holders : conn[t] = c
  BY DEF NoneLost, Free, Holders
<1>2. \A c \in Lent : holder[c] \in Holders /\ conn[holder[c]] = c
  BY <1>1
<1>3. holder \in [Lent -> Holders]
  BY <1>2
<1>4. \A c, d \in Lent : holder[c] = holder[d] => c = d
  BY <1>2
<1> HIDE DEF holder, Lent
<1>5. holder \in Injection(Lent, Holders)
  BY <1>3, <1>4 DEF Injection, IsInjective
<1>6. IsFiniteSet(Holders)
  <2>1. Holders \in SUBSET Threads
    BY DEF Holders
  <2>2. QED
    BY <2>1, FS_Subset, PoolAssumption
<1>7. Cardinality(Lent) <= Cardinality(Holders)
  BY <1>5, <1>6, FS_Injection
<1>8. QED
  BY <1>7 DEF Lent

LEMMA IInvWorkConserving == IInv => WorkConserving
<1> SUFFICES ASSUME IInv, m_condition # {}
             PROVE  Cardinality(Connections) <= Cardinality(Holders \cup Active)
  BY DEF WorkConserving
<1>1. IsFiniteSet(Holders) /\ IsFiniteSet(Active) /\ IsFiniteSet(Connections)
  <2>1. Holders \in SUBSET Threads /\ Active \in SUBSET Threads
    BY DEF Holders, Active
  <2>2. QED
    BY <2>1, FS_Subset, PoolAssumption
<1>2. Free \in SUBSET Connections
  BY DEF Free
<1>3. IsFiniteSet(Free) /\ IsFiniteSet(Connections \ Free)
  BY <1>1, <1>2, FS_Subset
<1>4. Free \cap (Connections \ Free) = {}
  OBVIOUS
<1>5. Connections = Free \cup (Connections \ Free)
  BY <1>2
<1>6. Cardinality(Connections)
        = Cardinality(Free) + Cardinality(Connections \ Free)
  <2>1. Cardinality(Free \cup (Connections \ Free))
          = Cardinality(Free) + Cardinality(Connections \ Free)
              - Cardinality(Free \cap (Connections \ Free))
    BY <1>3, FS_Union
  <2>2. Cardinality(Free) \in Nat /\ Cardinality(Connections \ Free) \in Nat
    BY <1>3, FS_CardinalityType
  <2>3. Cardinality(Free \cap (Connections \ Free)) = 0
    BY <1>4, FS_EmptySet
  <2>4. QED
    BY <1>5, <2>1, <2>2, <2>3
<1>7. Holders \cap Active = {}
  BY DEF Holders, Holds, Active
<1>8. Cardinality(Holders \cup Active)
        = Cardinality(Holders) + Cardinality(Active)
  <2>1. Cardinality(Holders \cup Active)
          = Cardinality(Holders) + Cardinality(Active)
              - Cardinality(Holders \cap Active)
    BY <1>1, FS_Union
  <2>2. Cardinality(Holders) \in Nat /\ Cardinality(Active) \in Nat
    BY <1>1, FS_CardinalityType
  <2>3. Cardinality(Holders \cap Active) = 0
    BY <1>7, FS_EmptySet
  <2>4. QED
    BY <2>1, <2>2, <2>3
<1>9. /\ Cardinality(Free) <= Len(m_pool)
      /\ Len(m_pool) <= Cardinality(Active)
      /\ Cardinality(Connections \ Free) <= Cardinality(Holders)
  BY FreeFitsQueue, LentFitsHolders DEF IInv, NoLostWakeup
<1>10. /\ Cardinality(Free) \in Nat /\ Cardinality(Connections \ Free) \in Nat
       /\ Cardinality(Holders) \in Nat /\ Cardinality(Active) \in Nat
       /\ Len(m_pool) \in Nat
  BY <1>1, <1>3, FS_CardinalityType DEF IInv, TypeOK
<1>11. QED
  BY <1>6, <1>8, <1>9, <1>10

LEMMA IInvSomeoneRuns == IInv => SomeoneRuns
<1> SUFFICES ASSUME IInv, NEW t \in Threads, pc[t] # "idle",
                    \A u \in Threads : ~Runnable(u)
             PROVE  FALSE
  BY DEF SomeoneRuns
<1> USE PoolAssumption DEF IInv, TypeOK, Location
<1>1. m_mutex = NoThread
  BY DEF LocationInv, Runnable
<1>2. \A u \in Threads : pc[u] \in {"idle", "wait"}
  BY <1>1 DEF Runnable
<1>3. m_condition # {}
  BY <1>2
<1>4. Active = {}
  BY <1>2 DEF Active
<1>5. m_pool = <<>>
  <2>1. Len(m_pool) <= 0 /\ Len(m_pool) \in Nat
    BY <1>3, <1>4, FS_EmptySet DEF NoLostWakeup
  <2>2. QED
    BY <2>1, EmptySeq
<1>6. PICK c \in Connections : TRUE
  OBVIOUS
<1>7. PICK u \in Threads : Holds(u)
  BY <1>5, <1>6 DEF NoneLost, Queued
<1>8. QED
  BY <1>2, <1>7 DEF Holds

(* A thread is blocked in wait only while every connection is accounted    *)
(* for by another thread that has one or is at work in the pool.           *)
THEOREM PoolWorkConserving == SafetySpec => []WorkConserving
BY IInvWorkConserving, PoolIInv, PTL

(* The pool has no deadlock and no lost wake-up that stops everybody:      *)
(* while operations are under way, some thread can go on.                  *)
THEOREM PoolSomeoneRuns == SafetySpec => []SomeoneRuns
BY IInvSomeoneRuns, PoolIInv, PTL

-----------------------------------------------------------------------------
(* Every step but a new call and a spurious wake-up uses up the budget.    *)

LEMMA BudgetFinite == IsFiniteSet(Budget) /\ Cardinality(Budget) \in Nat
<1>1. IsFiniteSet(1 .. 12)
  <2>1. 1 \in Int /\ 12 \in Int
    OBVIOUS
  <2>2. QED
    BY <2>1, FS_Interval, Zenon
<1>2. IsFiniteSet(Threads \X (1 .. 12))
  BY <1>1, FS_Product, PoolAssumption
<1>3. Budget \in SUBSET (Threads \X (1 .. 12))
  BY DEF Budget
<1>4. QED
  BY <1>2, <1>3, FS_Subset, FS_CardinalityType

LEMMA StepsLeftValues ==
  /\ StepsLeft \in [Location -> 0 .. 12]
  /\ StepsLeft["idle"] = 0 /\ StepsLeft["notify"] = 3 /\ StepsLeft["unlock"] = 4
  /\ StepsLeft["push"] = 5 /\ StepsLeft["free"] = 6 /\ StepsLeft["work"] = 7
  /\ StepsLeft["begin"] = 8 /\ StepsLeft["return"] = 9 /\ StepsLeft["pop"] = 10
  /\ StepsLeft["wait"] = 10 /\ StepsLeft["test"] = 11
  /\ StepsLeft["reacquire"] = 12 /\ StepsLeft["lock"] = 12
BY DEF StepsLeft, Location

(* A thread that goes on towards "idle" uses up its own budget.            *)
LEMMA GoingOn ==
  ASSUME pc \in [Threads -> Location], NEW t \in Threads, NEW to \in Location,
         pc' = [pc EXCEPT ![t] = to], StepsLeft[to] < StepsLeft[pc[t]]
  PROVE  Cardinality(Budget') < Cardinality(Budget)
<1>1. \A l \in Location : StepsLeft[l] \in 0 .. 12
  BY StepsLeftValues
<1>2. Budget' \in SUBSET Budget
  <2>1. \A u \in Threads : StepsLeft[pc'[u]] <= StepsLeft[pc[u]]
    BY <1>1
  <2>2. \A u \in Threads : StepsLeft[pc[u]] \in Int /\ StepsLeft[pc'[u]] \in Int
    BY <1>1
  <2>3. QED
    BY <2>1, <2>2 DEF Budget
<1>3. <<t, StepsLeft[pc[t]]>> \in Budget \ Budget'
  <2>1. StepsLeft[pc[t]] \in 1 .. 12
    BY <1>1
  <2>2. pc'[t] = to /\ StepsLeft[to] \in Int
    BY <1>1
  <2>3. QED
    BY <2>1, <2>2 DEF Budget
<1>4. Budget' # Budget
  BY <1>3
<1>5. /\ Cardinality(Budget') <= Cardinality(Budget)
      /\ Cardinality(Budget') # Cardinality(Budget)
  BY <1>2, <1>4, BudgetFinite, FS_Subset
<1>6. Cardinality(Budget') \in Nat
  BY <1>2, BudgetFinite, FS_Subset, FS_CardinalityType
<1>7. QED
  BY <1>5, <1>6, BudgetFinite

(* The thread that calls notify_one pays with three for the two that the   *)
(* thread it wakes is given.                                               *)
LEMMA PayingForWakeup ==
  ASSUME pc \in [Threads -> Location], NEW t \in Threads, NEW w \in Threads,
         pc[t] = "notify", pc[w] = "wait",
         pc' = [pc EXCEPT ![t] = "idle", ![w] = "reacquire"]
  PROVE  Cardinality(Budget') < Cardinality(Budget)
<1> DEFINE B1 == Budget \ {<<t, 1>>}
           B2 == B1 \ {<<t, 2>>}
           B3 == B2 \ {<<t, 3>>}
           B4 == B3 \cup {<<w, 11>>}
           B5 == B4 \cup {<<w, 12>>}
<1>1. /\ <<t, 1>> \in Budget /\ <<t, 2>> \in Budget /\ <<t, 3>> \in Budget
      /\ <<w, 11>> \notin Budget /\ <<w, 12>> \notin Budget
  BY StepsLeftValues DEF Budget
<1>2. t # w
  OBVIOUS
<1>3. /\ <<t, 1>> \in Budget /\ <<t, 2>> \in B1 /\ <<t, 3>> \in B2
      /\ <<w, 11>> \notin B3 /\ <<w, 12>> \notin B4
  BY <1>1
<1>4. Budget' = B5
  <2>1. ASSUME NEW u \in Threads, NEW n \in 1 .. 12
        PROVE  n <= StepsLeft[pc'[u]] <=>
                 \/ n <= StepsLeft[pc[u]] /\ u # t
                 \/ u = w /\ n \in {11, 12}
    <3>1. CASE u = t
      BY <1>2, <3>1, StepsLeftValues
    <3>2. CASE u = w
      BY <1>2, <3>2, StepsLeftValues
    <3>3. CASE u # t /\ u # w
      BY <3>3
    <3>4. QED
      BY <3>1, <3>2, <3>3
  <2>2. \A n \in 1 .. 12 : n <= StepsLeft[pc[t]] <=> n \in {1, 2, 3}
    BY StepsLeftValues
  <2>3. \A u \in Threads, n \in 1 .. 12 :
           /\ <<u, n>> \in Budget' <=> n <= StepsLeft[pc'[u]]
           /\ <<u, n>> \in Budget <=> n <= StepsLeft[pc[u]]
    BY DEF Budget
  <2>4. \A u \in Threads, n \in 1 .. 12 : <<u, n>> \in Budget' <=> <<u, n>> \in B5
    BY <2>1, <2>2, <2>3
  <2>5. Budget' \subseteq Threads \X (1 .. 12) /\ B5 \subseteq Threads \X (1 .. 12)
    BY DEF Budget
  <2> HIDE DEF B5
  <2>6. \A x \in Threads \X (1 .. 12) : x \in Budget' <=> x \in B5
    <3> TAKE x \in Threads \X (1 .. 12)
    <3>1. PICK u \in Threads, n \in 1 .. 12 : x = <<u, n>>
      OBVIOUS
    <3>2. <<u, n>> \in Budget' <=> <<u, n>> \in B5
      BY <2>4
    <3>3. QED
      BY <3>1, <3>2
  <2>7. ASSUME NEW x PROVE x \in Budget' <=> x \in B5
    BY <2>5, <2>6
  <2>8. QED
    BY <2>7
<1> HIDE DEF B1, B2, B3, B4, B5
<1>5. /\ IsFiniteSet(B1) /\ Cardinality(B1) = Cardinality(Budget) - 1
      /\ IsFiniteSet(B2) /\ Cardinality(B2) = Cardinality(B1) - 1
      /\ IsFiniteSet(B3) /\ Cardinality(B3) = Cardinality(B2) - 1
  <2>1. IsFiniteSet(B1) /\ Cardinality(B1) = Cardinality(Budget) - 1
    BY <1>3, BudgetFinite, FS_RemoveElement DEF B1
  <2>2. IsFiniteSet(B2) /\ Cardinality(B2) = Cardinality(B1) - 1
    BY <1>3, <2>1, FS_RemoveElement DEF B2
  <2>3. IsFiniteSet(B3) /\ Cardinality(B3) = Cardinality(B2) - 1
    BY <1>3, <2>2, FS_RemoveElement DEF B3
  <2>4. QED
    BY <2>1, <2>2, <2>3
<1>6. /\ IsFiniteSet(B4) /\ Cardinality(B4) = Cardinality(B3) + 1
      /\ IsFiniteSet(B5) /\ Cardinality(B5) = Cardinality(B4) + 1
  BY <1>3, <1>5, FS_AddElement DEF B4, B5
<1>7. QED
  BY <1>4, <1>5, <1>6, BudgetFinite

LEMMA StepUsesBudget ==
  ASSUME TypeOK, [Next]_vars, vars' # vars, spurious' = spurious,
         \A t \in Threads : pc[t] = "idle" => pc'[t] = "idle"
  PROVE  Cardinality(Budget') < Cardinality(Budget)
<1> USE StepsLeftValues DEF TypeOK, Goto
<1>1. PICK t \in Threads : Step(t)
  <2>1. \A t \in Threads : ~Call(t)
    BY DEF Call
  <2>2. \A t \in Threads : ~SpuriousWakeup(t)
    BY DEF SpuriousWakeup
  <2>3. QED
    BY <2>1, <2>2 DEF Next
<1>2. CASE NotifyOne(t)
  <2>1. CASE m_condition = {}
    BY <1>2, <2>1, GoingOn DEF NotifyOne, Location
  <2>2. CASE m_condition # {}
    BY <1>2, <2>2, PayingForWakeup DEF NotifyOne
  <2>3. QED
    BY <2>1, <2>2
<1>3. CASE ~NotifyOne(t)
  <2>1. \E to \in Location : /\ pc' = [pc EXCEPT ![t] = to]
                             /\ StepsLeft[to] < StepsLeft[pc[t]]
    BY <1>1, <1>3 DEF Step, Lock, Wait, Reacquire, Front, Pop, Return, Begin,
                      Finish, LockFree, Push, Unlock, Location
  <2>2. QED
    BY <2>1, GoingOn
<1>4. QED
  BY <1>2, <1>3

(* The threads' steps run out, for any number of threads and connections:  *)
(* no operation goes round in the loop for ever.                           *)
THEOREM PoolStepsRunOut == SafetySpec => StepsRunOut
<1>1. TypeOK /\ [Next]_vars =>
        [/\ \A t \in Threads : pc[t] = "idle" => pc'[t] = "idle"
         /\ spurious' = spurious
         => Cardinality(Budget') < Cardinality(Budget)]_vars
  BY StepUsesBudget
<1>2. QED
  BY <1>1, PoolTypeOK, PTL DEF SafetySpec, StepsRunOut

-----------------------------------------------------------------------------
(* The pool implements ConnectionPool.  Call is Request, Pop is Acquire,   *)
(* Push is Release; every other step leaves the abstract state alone.      *)

LEMMA InitRefines == Init => CP!Init
<1> SUFFICES ASSUME Init PROVE CP!Init
  OBVIOUS
<1> USE DEF Init
<1>1. Wanting = {}
  BY DEF Wanting
<1>2. Free = Connections
  BY DEF Free
<1>3. Owner = [t \in Threads |-> NoConnection]
  BY DEF Owner, Holds
<1>4. QED
  BY <1>1, <1>2, <1>3 DEF CP!Init

(* A step that does not touch the queue and moves its threads within one   *)
(* of the three abstract places is a stutter.                              *)
LEMMA StutterRefines ==
  ASSUME m_pool' = m_pool, Wanting' = Wanting,
         \A t \in Threads : Holds(t)' = Holds(t) /\ (Holds(t) => conn'[t] = conn[t])
  PROVE  UNCHANGED CP!vars
<1>1. Free' = Free
  BY DEF Free, Queued
<1>2. Owner' = Owner
  BY DEF Owner
<1>3. QED
  BY <1>1, <1>2 DEF CP!vars

LEMMA StepRefines == IInv /\ [Next]_vars => [CP!Next]_CP!vars
<1> SUFFICES ASSUME IInv, [Next]_vars PROVE [CP!Next]_CP!vars
  OBVIOUS
<1> USE PoolAssumption DEF IInv, TypeOK, Goto
<1>1. CASE UNCHANGED vars
  <2>1. Wanting' = Wanting
    BY <1>1 DEF vars, Wanting
  <2>2. QED
    BY <1>1, <2>1, StutterRefines DEF vars, Holds
<1>2. ASSUME NEW t \in Threads, Call(t) PROVE CP!Request(t)
  <2>1. t \notin Wanting /\ Wanting' = Wanting \cup {t}
    BY <1>2 DEF Call, Wanting, Location
  <2>2. Owner' = Owner /\ Owner[t] = NoConnection
    BY <1>2 DEF Call, Owner, Holds
  <2>3. Free' = Free
    BY <1>2 DEF Call, Free, Queued
  <2>4. QED
    BY <2>1, <2>2, <2>3 DEF CP!Request
<1>3. ASSUME NEW t \in Threads, Pop(t) PROVE CP!Acquire(t)
  <2>1. /\ m_pool # <<>> /\ conn[t] = m_pool[1] /\ conn' = conn
        /\ m_pool' = Tail(m_pool) /\ Len(m_pool) \in Nat \ {0}
    BY <1>3, PoppedQueue DEF Pop, LocationInv
  <2>2. t \in Wanting /\ Wanting' = Wanting \ {t}
    BY <1>3 DEF Pop, Wanting
  <2>3. conn[t] \in Free
    BY <2>1 DEF Free, Queued
  <2>4. Owner' = [Owner EXCEPT ![t] = conn[t]]
    BY <1>3, <2>1 DEF Pop, Owner, Holds
  <2>5. Free' = Free \ {conn[t]}
    <3>1. \A c \in Connections :
             (\E i \in 1 .. Len(m_pool) - 1 : m_pool[i + 1] = c)
                <=> Queued(c) /\ c # m_pool[1]
      BY <2>1 DEF Queued, ExclusiveUse, NoneQueuedTwice
    <3>2. \A c \in Connections :
             Queued(c)' <=> \E i \in 1 .. Len(m_pool) - 1 : m_pool[i + 1] = c
      BY <2>1, PoppedQueue DEF Queued
    <3>3. QED
      BY <2>1, <3>1, <3>2 DEF Free
  <2>6. QED
    BY <2>2, <2>3, <2>4, <2>5 DEF CP!Acquire
<1>4. ASSUME NEW t \in Threads, Push(t) PROVE CP!Release(t)
  <2>1. /\ conn[t] \in Connections /\ conn' = conn
        /\ m_pool' = Append(m_pool, conn[t])
    BY <1>4 DEF Push, LocationInv, Holds
  <2>2. Wanting' = Wanting
    BY <1>4 DEF Push, Wanting
  <2>3. Owner[t] = conn[t] /\ Owner' = [Owner EXCEPT ![t] = NoConnection]
    BY <1>4, <2>1 DEF Push, Owner, Holds
  <2>4. Free' = Free \cup {conn[t]}
    <3>1. \A c \in Connections : Queued(c)' <=> Queued(c) \/ c = conn[t]
      BY <2>1, PushedQueue DEF Queued
    <3>2. QED
      BY <2>1, <3>1 DEF Free
  <2>5. QED
    BY <2>1, <2>2, <2>3, <2>4 DEF CP!Release
<1>5. ASSUME NEW t \in Threads,
             \/ SpuriousWakeup(t) \/ Lock(t) \/ Wait(t) \/ Reacquire(t)
             \/ Front(t)
      PROVE  UNCHANGED CP!vars
  <2>1. Wanting' = Wanting /\ m_pool' = m_pool
    BY <1>5 DEF SpuriousWakeup, Lock, Wait, Reacquire, Front, Wanting
  <2>2. \A u \in Threads :
           Holds(u)' = Holds(u) /\ (Holds(u) => conn'[u] = conn[u])
    BY <1>5 DEF SpuriousWakeup, Lock, Wait, Reacquire, Front, Holds
  <2>3. QED
    BY <2>1, <2>2, StutterRefines
<1>6. ASSUME NEW t \in Threads,
             Return(t) \/ Begin(t) \/ Finish(t) \/ LockFree(t) \/ Unlock(t)
      PROVE  UNCHANGED CP!vars
  <2>1. Wanting' = Wanting /\ m_pool' = m_pool
    BY <1>6 DEF Return, Begin, Finish, LockFree, Unlock, Wanting
  <2>2. \A u \in Threads :
           Holds(u)' = Holds(u) /\ (Holds(u) => conn'[u] = conn[u])
    BY <1>6 DEF Return, Begin, Finish, LockFree, Unlock, Holds
  <2>3. QED
    BY <2>1, <2>2, StutterRefines
<1>7. ASSUME NEW t \in Threads, NotifyOne(t) PROVE UNCHANGED CP!vars
  <2>1. Wanting' = Wanting /\ m_pool' = m_pool
    BY <1>7 DEF NotifyOne, Wanting
  <2>2. \A u \in Threads :
           Holds(u)' = Holds(u) /\ (Holds(u) => conn'[u] = conn[u])
    BY <1>7 DEF NotifyOne, Holds
  <2>3. QED
    BY <2>1, <2>2, StutterRefines
<1>8. QED
  BY <1>1, <1>2, <1>3, <1>4, <1>5, <1>6, <1>7 DEF Next, Step, CP!Next

(* connection and freeConnection implement Acquire and Release of the      *)
(* abstract pool.                                                          *)
THEOREM PoolImplements == SafetySpec => ImplementsPoolSafety
BY InitRefines, StepRefines, PoolIInv, PTL
   DEF SafetySpec, ImplementsPoolSafety, CP!SafetySpec
=============================================================================
