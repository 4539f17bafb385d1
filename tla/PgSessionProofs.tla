-------------------------- MODULE PgSessionProofs ---------------------------
(* Proofs about PgSession, for all connections, rows, calls and numbers of *)
(* faults.                                                                 *)
EXTENDS PgSession, FiniteSetTheorems, TLAPS

LEMMA SessionsTyped ==
  ASSUME NEW s \in Sessions, NEW tx \in {"idle", "open", "error"},
         NEW b \in BOOLEAN, NEW R \in SUBSET Rows
  PROVE  /\ [s EXCEPT !.tx = tx] \in Sessions
         /\ [s EXCEPT !.copying = b] \in Sessions
         /\ [s EXCEPT !.held = R, !.minus = R] \in Sessions
         /\ [s EXCEPT !.plus = R] \in Sessions
         /\ [s EXCEPT !.plus = @ \cup R] \in Sessions
         /\ [s EXCEPT !.minus = R, !.locked = b] \in Sessions
BY DEF Sessions

(* Ending a COPY, and starting one with nothing in it yet.                 *)
LEMMA CopyingOnly ==
  ASSUME NEW s \in Sessions, NEW b \in BOOLEAN
  PROVE  /\ s.copying = b => [s EXCEPT !.copying = b] = s
         /\ s.plus = {} => [s EXCEPT !.copying = b, !.plus = {}]
                              = [s EXCEPT !.copying = b]
         /\ \A R \in SUBSET Rows :
               ~s.copying => [[s EXCEPT !.copying = TRUE, !.plus = R]
                                EXCEPT !.copying = FALSE] = [s EXCEPT !.plus = R]
<1>1. ASSUME s.copying = b PROVE [s EXCEPT !.copying = b] = s
  BY <1>1 DEF Sessions
<1>2. ASSUME s.plus = {}
      PROVE  [s EXCEPT !.copying = b, !.plus = {}] = [s EXCEPT !.copying = b]
  BY <1>2 DEF Sessions
<1>3. ASSUME NEW R \in SUBSET Rows, ~s.copying
      PROVE  [[s EXCEPT !.copying = TRUE, !.plus = R] EXCEPT !.copying = FALSE]
               = [s EXCEPT !.plus = R]
  BY <1>3 DEF Sessions
<1>4. QED
  BY <1>1, <1>2, <1>3

LEMMA IdleTyped == Idle \in Sessions
BY DEF Idle, Sessions

LEMMA TruncatedTyped ==
  ASSUME table \subseteq Rows
  PROVE  Truncated \in Sessions /\ ~Truncated.copying /\ Truncated.plus = {}
BY DEF Truncated, Opened, Idle, Sessions

(* What a change of the session of the call leaves alone.                  *)
LEMMA BecomesTyped ==
  ASSUME session \in [Conns -> Sessions], conn \in Conns, conn' = conn,
         NEW s \in Sessions, Becomes(s)
  PROVE  /\ session' \in [Conns -> Sessions]
         /\ Now' = s
         /\ IdleInPool => IdleInPool'
BY DEF Becomes, Now, IdleInPool

LEMMA FaultTyped == faults \in 0 .. MaxFaults /\ Fault => faults' \in 0 .. MaxFaults
BY SessionAssumption DEF Fault

(* The call's own session stays as it is with the variables that it is     *)
(* named by.                                                               *)
LEMMA SameSession ==
  ASSUME conn' = conn, session' = session
  PROVE  Now' = Now /\ (IdleInPool => IdleInPool')
BY DEF Now, IdleInPool

-----------------------------------------------------------------------------
LEMMA InitIInv == Init => IInv
<1> SUFFICES ASSUME Init PROVE IInv
  OBVIOUS
<1>1. Cardinality(Conns) \in Nat /\ Cardinality(Conns) # 0
  BY SessionAssumption, FS_CardinalityType, FS_EmptySet
<1>2. pool \in Seq(Conns) /\ pool # <<>>
  BY <1>1 DEF Init
<1>3. TypeOK
  BY <1>2, IdleTyped, SessionAssumption DEF Init, TypeOK
<1>4. QED
  BY <1>2, <1>3 DEF Init, IInv, IdleInPool, LocalsInv, ServerInv

LEMMA CallIInv ==
  ASSUME IInv, NEW op \in Ops, Call(op)
  PROVE  IInv'
<1>1. pool # <<>> /\ pool \in Seq(Conns) /\ conn = NULL
  BY DEF Call, IInv, LocalsInv, TypeOK
<1>2. conn' \in Conns /\ pool' \in Seq(Conns)
  BY <1>1 DEF Call
<1>3. TypeOK'
  BY <1>2 DEF Call, IInv, TypeOK
<1>4. Now' = Idle /\ IdleInPool'
  BY <1>1, <1>2, SessionAssumption DEF Call, Now, IInv, IdleInPool
<1>5. LocalsInv'
  BY <1>2 DEF Call, IInv, LocalsInv
<1>6. ServerInv'
  BY <1>4 DEF Call, ServerInv
<1>7. QED
  BY <1>3, <1>4, <1>5, <1>6 DEF IInv

LEMMA BeginIInv == IInv /\ Begin => IInv'
<1> SUFFICES ASSUME IInv, Begin PROVE IInv'
  OBVIOUS
<1>1. /\ pc = "begin" /\ TypeOK /\ IdleInPool /\ conn \in Conns /\ conn' = conn
      /\ txn = "none" /\ stream = "none" /\ stream' = "none" /\ Now = Idle
      /\ UNCHANGED <<pool, call, left, broken, table, faults, inserted>>
  BY DEF Begin, IInv, LocalsInv, ServerInv
<1>2. CASE Up /\ Becomes([Now EXCEPT !.tx = "open"]) /\ txn' = "active"
           /\ pc' = "exec" /\ UNCHANGED result
  <2>1. Opened \in Sessions /\ Becomes(Opened)
    BY <1>1, <1>2, IdleTyped, SessionsTyped DEF Opened
  <2>2. session' \in [Conns -> Sessions] /\ Now' = Opened /\ IdleInPool'
    BY <1>1, <2>1, BecomesTyped DEF TypeOK
  <2>3. QED
    BY <1>1, <1>2, <2>2 DEF IInv, TypeOK, LocalsInv, ServerInv, Up, Opened, Idle
<1>3. CASE ~Up /\ Leave("failed") /\ UNCHANGED <<session, txn>>
  BY <1>1, <1>3, SameSession DEF IInv, TypeOK, LocalsInv, ServerInv, Up, Leave, Idle
<1>4. QED
  BY <1>2, <1>3 DEF Begin

(* The places of a call at which a statement is sent.                      *)
LEMMA RefusedStep ==
  ASSUME IInv, Refused, pc \in {"exec", "stream", "rows"},
         UNCHANGED <<conn, broken>>
  PROVE  /\ pc' = "unwind" /\ result' = "failed"
         /\ session' \in [Conns -> Sessions]
         /\ faults' \in 0 .. MaxFaults
         /\ IdleInPool'
         /\ ~Now'.copying
         /\ ~Up => Now' = Idle
<1>1. TypeOK /\ IdleInPool /\ conn \in Conns
  BY DEF IInv, LocalsInv
<1>2. CASE Up /\ Fault /\ Becomes([Idle EXCEPT !.tx = "error"])
           /\ Leave("failed")
  <2>1. [Idle EXCEPT !.tx = "error"] \in Sessions
    BY IdleTyped, SessionsTyped
  <2>2. ~[Idle EXCEPT !.tx = "error"].copying
    BY DEF Idle
  <2>3. QED
    BY <1>1, <1>2, <2>1, <2>2, BecomesTyped, FaultTyped DEF TypeOK, Leave
<1>3. CASE ~Up /\ Leave("failed") /\ UNCHANGED <<session, faults>>
  BY <1>1, <1>3, SameSession DEF TypeOK, Leave, IInv, ServerInv, Idle
<1>4. QED
  BY <1>2, <1>3 DEF Refused

LEMMA ExecIInv == IInv /\ Exec => IInv'
<1> SUFFICES ASSUME IInv, Exec PROVE IInv'
  OBVIOUS
<1>1. /\ pc = "exec" /\ TypeOK /\ IdleInPool /\ conn \in Conns /\ conn' = conn
      /\ txn = "active" /\ txn' = "active" /\ stream = "none" /\ stream' = "none"
      /\ result = "pending"
      /\ UNCHANGED <<pool, call, left, broken, table, inserted>>
  BY DEF Exec, IInv, LocalsInv
<1>2. CASE Refused
  <2>1. /\ pc' = "unwind" /\ result' = "failed" /\ IdleInPool' /\ ~Now'.copying
        /\ session' \in [Conns -> Sessions] /\ faults' \in 0 .. MaxFaults
        /\ ~Up => Now' = Idle
    BY <1>1, <1>2, RefusedStep
  <2>2. QED
    BY <1>1, <2>1 DEF IInv, TypeOK, LocalsInv, ServerInv, Up
<1>3. CASE /\ Up /\ Becomes(Executed) /\ UNCHANGED faults
           /\ IF call.kind = "load" THEN Leave("ok")
              ELSE /\ pc' = IF call.kind = "save" THEN "stream" ELSE "commit"
                   /\ UNCHANGED result
  <2>1. Now = Opened /\ Opened \in Sessions
    BY <1>1, <1>3, IdleTyped, SessionsTyped DEF IInv, ServerInv, Opened
  <2>2. call.kind \in {"load", "add", "remove", "save"} /\ call.rows \subseteq Rows
        /\ table \subseteq Rows
    BY <1>1, SessionAssumption DEF TypeOK
  <2>3. Executed \in Sessions
    BY <2>1, <2>2, SessionsTyped DEF Executed
  <2>4. session' \in [Conns -> Sessions] /\ Now' = Executed /\ IdleInPool'
    BY <1>1, <1>3, <2>3, BecomesTyped DEF TypeOK
  <2>5. TypeOK' /\ LocalsInv'
    BY <1>1, <1>3, <2>2, <2>4 DEF IInv, TypeOK, LocalsInv, Leave
  <2>6. CASE call.kind = "load"
    <3>1. Now' = Opened /\ ~Opened.copying /\ pc' = "unwind"
      BY <1>3, <2>1, <2>4, <2>6 DEF Executed, Leave, Opened, Idle
    <3>2. QED
      BY <1>1, <1>3, <2>4, <2>5, <3>1 DEF IInv, ServerInv, Up
  <2>7. CASE call.kind = "save"
    <3>1. Now' = Truncated /\ pc' = "stream" /\ Truncated' = Truncated
      BY <1>1, <1>3, <2>1, <2>4, <2>7 DEF Executed, Truncated, Opened, Idle
    <3>2. QED
      BY <1>1, <1>3, <2>4, <2>5, <3>1 DEF IInv, ServerInv, Up
  <2>8. CASE call.kind = "add"
    <3>1. pc' = "commit" /\ Now' = Executed
      BY <1>3, <2>4, <2>8
    <3>2. Now' = ToCommit'
      BY <1>1, <2>1, <2>8, <3>1 DEF Executed, ToCommit
    <3>3. QED
      BY <1>1, <1>3, <2>4, <2>5, <2>8, <3>1, <3>2 DEF IInv, ServerInv, Up
  <2>9. CASE call.kind = "remove"
    <3> DEFINE R == call.rows \cap table
    <3>1. pc' = "commit" /\ Now' = [Opened EXCEPT !.held = R, !.minus = R]
      BY <1>3, <2>1, <2>4, <2>9 DEF Executed
    <3>2. Now'.held = R /\ Now'.minus = R
      BY <3>1 DEF Opened, Idle
    <3>3. Now' = ToCommit'
      BY <1>1, <2>9, <3>1, <3>2 DEF ToCommit, Opened
    <3>4. QED
      BY <1>1, <1>3, <2>4, <2>5, <3>1, <3>2, <3>3 DEF IInv, ServerInv, Up
  <2>10. QED
    BY <2>2, <2>6, <2>7, <2>8, <2>9
<1>4. QED
  BY <1>2, <1>3 DEF Exec

LEMMA OpenStreamIInv == IInv /\ OpenStream => IInv'
<1> SUFFICES ASSUME IInv, OpenStream PROVE IInv'
  OBVIOUS
<1>1. /\ pc = "stream" /\ TypeOK /\ IdleInPool /\ conn \in Conns /\ conn' = conn
      /\ txn = "active" /\ txn' = "active" /\ stream = "none"
      /\ result = "pending" /\ call.kind = "save"
      /\ UNCHANGED <<pool, call, left, broken, table, inserted>>
  BY DEF OpenStream, IInv, LocalsInv
<1>2. CASE Refused /\ UNCHANGED stream
  <2>1. /\ pc' = "unwind" /\ result' = "failed" /\ IdleInPool' /\ ~Now'.copying
        /\ session' \in [Conns -> Sessions] /\ faults' \in 0 .. MaxFaults
        /\ ~Up => Now' = Idle
    BY <1>1, <1>2, RefusedStep
  <2>2. QED
    BY <1>1, <1>2, <2>1 DEF IInv, TypeOK, LocalsInv, ServerInv, Up
<1>3. CASE Up /\ Becomes([Now EXCEPT !.copying = TRUE]) /\ stream' = "open"
           /\ pc' = "rows" /\ UNCHANGED <<result, faults>>
  <2>1. PICK s \in Sessions : s = [Now EXCEPT !.copying = TRUE]
    BY <1>1, SessionsTyped DEF TypeOK, Now
  <2>2. session' \in [Conns -> Sessions] /\ Now' = s /\ IdleInPool'
    BY <1>1, <1>3, <2>1, BecomesTyped DEF TypeOK
  <2>3. left = call.rows /\ Now = Truncated
    BY <1>1, <1>3 DEF IInv, LocalsInv, ServerInv
  <2>4. s = [Truncated EXCEPT !.copying = TRUE, !.plus = call.rows \ left]
    <3>1. call.rows \ left = {}
      BY <2>3
    <3>2. QED
      BY <1>1, <2>1, <2>3, <3>1, TruncatedTyped, CopyingOnly DEF TypeOK
  <2>5. Now' = [Truncated' EXCEPT !.copying = TRUE, !.plus = call'.rows \ left']
    BY <1>1, <2>2, <2>4 DEF Truncated
  <2>6. ServerInv'
    BY <1>1, <1>3, <2>5 DEF ServerInv, Up
  <2>7. QED
    BY <1>1, <1>3, <2>2, <2>6 DEF IInv, TypeOK, LocalsInv
<1>4. QED
  BY <1>2, <1>3 DEF OpenStream

LEMMA WriteRowIInv == IInv /\ WriteRow => IInv'
<1> SUFFICES ASSUME IInv, WriteRow PROVE IInv'
  OBVIOUS
<1>1. /\ pc = "rows" /\ TypeOK /\ IdleInPool /\ conn \in Conns /\ conn' = conn
      /\ txn = "active" /\ txn' = "active" /\ stream = "open" /\ stream' = "open"
      /\ result = "pending" /\ call.kind = "save" /\ left \subseteq call.rows
      /\ call.rows \subseteq Rows
      /\ UNCHANGED <<pool, call, broken, table, inserted>>
  BY SessionAssumption DEF WriteRow, IInv, TypeOK, LocalsInv
<1>2. ASSUME NEW r \in left, Up, Becomes([Now EXCEPT !.plus = @ \cup {r}]),
             left' = left \ {r}, UNCHANGED <<pc, result, faults>>
      PROVE  IInv'
  <2>1. PICK s \in Sessions : s = [Now EXCEPT !.plus = @ \cup {r}]
    BY <1>1, SessionsTyped DEF TypeOK, Now
  <2>2. session' \in [Conns -> Sessions] /\ Now' = s /\ IdleInPool'
    BY <1>1, <1>2, <2>1, BecomesTyped DEF TypeOK
  <2>3. Now = [Truncated EXCEPT !.copying = TRUE, !.plus = call.rows \ left]
    BY <1>1, <1>2 DEF IInv, ServerInv
  <2>4. s = [Truncated EXCEPT !.copying = TRUE,
                              !.plus = (call.rows \ left) \cup {r}]
    BY <2>1, <2>3 DEF Truncated, Opened, Idle
  <2>5. (call.rows \ left) \cup {r} = call.rows \ left'
    BY <1>1, <1>2
  <2>6. Now' = [Truncated' EXCEPT !.copying = TRUE, !.plus = call'.rows \ left']
    BY <1>1, <2>2, <2>4, <2>5 DEF Truncated
  <2>7. ServerInv'
    BY <1>1, <1>2, <2>6 DEF ServerInv, Up
  <2>8. QED
    BY <1>1, <1>2, <2>2, <2>7 DEF IInv, TypeOK, LocalsInv
<1>3. ASSUME Fault \/ (~Up /\ UNCHANGED faults), Leave("failed"),
             UNCHANGED <<session, left>>
      PROVE  IInv'
  <2>1. faults' \in 0 .. MaxFaults
    BY <1>1, <1>3, FaultTyped DEF TypeOK
  <2>2. Now' = Now /\ IdleInPool'
    BY <1>1, <1>3, SameSession
  <2>3. ~Up => Now = Idle
    BY <1>1 DEF IInv, ServerInv
  <2>4. QED
    BY <1>1, <1>3, <2>1, <2>2, <2>3
       DEF IInv, TypeOK, LocalsInv, ServerInv, Leave, Up
<1>4. QED
  BY <1>2, <1>3 DEF WriteRow

LEMMA CompleteIInv == IInv /\ Complete => IInv'
<1> SUFFICES ASSUME IInv, Complete PROVE IInv'
  OBVIOUS
<1>1. /\ pc = "rows" /\ TypeOK /\ IdleInPool /\ conn \in Conns /\ conn' = conn
      /\ txn = "active" /\ txn' = "active" /\ stream' = "finished"
      /\ result = "pending" /\ call.kind = "save" /\ left = {}
      /\ UNCHANGED <<pool, call, left, broken, table, inserted>>
  BY DEF Complete, IInv, LocalsInv
<1>2. CASE Refused
  <2>1. /\ pc' = "unwind" /\ result' = "failed" /\ IdleInPool' /\ ~Now'.copying
        /\ session' \in [Conns -> Sessions] /\ faults' \in 0 .. MaxFaults
        /\ ~Up => Now' = Idle
    BY <1>1, <1>2, RefusedStep
  <2>2. QED
    BY <1>1, <2>1 DEF IInv, TypeOK, LocalsInv, ServerInv, Up
<1>3. CASE Up /\ Becomes([Now EXCEPT !.copying = FALSE]) /\ pc' = "commit"
           /\ UNCHANGED <<result, faults>>
  <2>1. PICK s \in Sessions : s = [Now EXCEPT !.copying = FALSE]
    BY <1>1, SessionsTyped DEF TypeOK, Now
  <2>2. session' \in [Conns -> Sessions] /\ Now' = s /\ IdleInPool'
    BY <1>1, <1>3, <2>1, BecomesTyped DEF TypeOK
  <2>3. Now = [Truncated EXCEPT !.copying = TRUE, !.plus = call.rows]
    <3>1. call.rows \ left = call.rows
      BY <1>1
    <3>2. QED
      BY <1>1, <1>3, <3>1 DEF IInv, ServerInv
  <2>4. s = [Truncated EXCEPT !.plus = call.rows]
    <3>1. call.rows \in SUBSET Rows
      BY <1>1, SessionAssumption DEF TypeOK
    <3>2. [[Truncated EXCEPT !.copying = TRUE, !.plus = call.rows]
             EXCEPT !.copying = FALSE] = [Truncated EXCEPT !.plus = call.rows]
      BY <1>1, <3>1, TruncatedTyped, CopyingOnly DEF TypeOK
    <3>3. [Now EXCEPT !.copying = FALSE] = [Truncated EXCEPT !.plus = call.rows]
      BY ONLY <2>3, <3>2
    <3>4. QED
      BY ONLY <2>1, <3>3
  <2>5. Now' = ToCommit'
    BY <1>1, <2>2, <2>4 DEF ToCommit, Truncated
  <2>6. ServerInv'
    BY <1>1, <1>3, <2>5 DEF ServerInv, Up
  <2>7. QED
    BY <1>1, <1>3, <2>2, <2>6 DEF IInv, TypeOK, LocalsInv
<1>4. QED
  BY <1>2, <1>3 DEF Complete

(* What the session has been told by the time of the commit.               *)
LEMMA ToCommitKinds ==
  ASSUME IInv, pc = "commit"
  PROVE  /\ call.kind \in {"add", "remove", "save"}
         /\ ~ToCommit.copying /\ ToCommit.tx = "open"
         /\ call.kind = "save" => ToCommit.locked
<1>1. call.kind \in {"add", "remove", "save"}
  BY SessionAssumption DEF IInv, TypeOK, LocalsInv
<1>2. QED
  BY <1>1 DEF ToCommit, Truncated, Opened, Idle

LEMMA CommittedTyped == TypeOK /\ conn \in Conns => Committed \subseteq Rows
BY DEF TypeOK, Committed, Now, Sessions

LEMMA CommitIInv == IInv /\ Commit => IInv'
<1> SUFFICES ASSUME IInv, Commit PROVE IInv'
  OBVIOUS
<1>1. /\ pc = "commit" /\ TypeOK /\ IdleInPool /\ conn \in Conns /\ conn' = conn
      /\ txn = "active" /\ stream # "open" /\ stream' = stream
      /\ result = "pending" /\ ~Now.copying /\ (~Up => Now = Idle)
      /\ UNCHANGED <<pool, call, left, inserted>>
  BY ToCommitKinds DEF Commit, IInv, LocalsInv, ServerInv, Idle
<1>2. CASE Leave("failed") /\ UNCHANGED <<session, txn, broken, table, faults>>
  <2>1. Now' = Now /\ IdleInPool'
    BY <1>1, <1>2, SameSession
  <2>2. QED
    BY <1>1, <1>2, <2>1 DEF IInv, TypeOK, LocalsInv, ServerInv, Leave, Up
<1>3. CASE Up /\ Becomes(Idle) /\ pc' = "unwind"
           /\ txn' \in {"committed", "aborted", "in_doubt"}
           /\ result' \in {"ok", "failed", "in_doubt"}
           /\ table' \in {table, Committed}
           /\ broken' \in {broken, broken \cup {conn}}
           /\ faults' \in 0 .. MaxFaults
  <2>1. session' \in [Conns -> Sessions] /\ Now' = Idle /\ IdleInPool'
    BY <1>1, <1>3, IdleTyped, BecomesTyped DEF TypeOK
  <2>2. TypeOK'
    BY <1>1, <1>3, <2>1, CommittedTyped DEF TypeOK
  <2>3. ~Idle.copying
    BY DEF Idle
  <2>4. QED
    BY <1>1, <1>3, <2>1, <2>2, <2>3 DEF IInv, LocalsInv, ServerInv
<1>4. faults \in 0 .. MaxFaults
  BY <1>1 DEF TypeOK
<1>5. QED
  BY <1>1, <1>2, <1>3, <1>4, FaultTyped DEF Commit, Leave

-----------------------------------------------------------------------------
LEMMA DestroyStreamIInv == IInv /\ DestroyStream => IInv'
<1> SUFFICES ASSUME IInv, DestroyStream PROVE IInv'
  OBVIOUS
<1>1. /\ pc = "unwind" /\ TypeOK /\ IdleInPool /\ conn \in Conns /\ conn' = conn
      /\ stream' = "none" /\ Now \in Sessions
      /\ UNCHANGED <<pool, txn, call, left, pc, result, broken, table, faults,
                     inserted>>
      /\ (~Up \/ txn # "active" => Now = Idle)
      /\ (Now.copying => stream = "open")
  BY DEF DestroyStream, IInv, LocalsInv, ServerInv, TypeOK, Now
<1>2. PICK s \in Sessions : /\ s = IF stream = "open"
                                   THEN [Now EXCEPT !.copying = FALSE] ELSE Now
                            /\ Becomes(s)
  BY <1>1, SessionsTyped DEF DestroyStream
<1>3. session' \in [Conns -> Sessions] /\ Now' = s /\ IdleInPool'
  BY <1>1, <1>2, BecomesTyped DEF TypeOK
<1>4. ~s.copying /\ (Now = Idle => s = Idle)
  <2>1. ~s.copying
    BY <1>1, <1>2 DEF Sessions
  <2>2. [Idle EXCEPT !.copying = FALSE] = Idle
    BY IdleTyped, CopyingOnly DEF Idle
  <2>3. QED
    BY <1>2, <2>1, <2>2
<1>5. QED
  BY <1>1, <1>3, <1>4 DEF IInv, TypeOK, LocalsInv, ServerInv, Up

LEMMA DestroyTxnIInv == IInv /\ DestroyTxn => IInv'
<1> SUFFICES ASSUME IInv, DestroyTxn PROVE IInv'
  OBVIOUS
<1>1. /\ pc = "unwind" /\ TypeOK /\ IdleInPool /\ conn \in Conns /\ conn' = conn
      /\ stream = "none" /\ txn' = "none" /\ Becomes(Idle)
      /\ UNCHANGED <<pool, stream, call, left, pc, result, broken, table, faults,
                     inserted>>
  BY DEF DestroyTxn, IInv, LocalsInv, ServerInv
<1>2. session' \in [Conns -> Sessions] /\ Now' = Idle /\ IdleInPool'
  BY <1>1, IdleTyped, BecomesTyped DEF TypeOK
<1>3. ~Idle.copying
  BY DEF Idle
<1>4. QED
  BY <1>1, <1>2, <1>3 DEF IInv, TypeOK, LocalsInv, ServerInv

LEMMA CheckinIInv == IInv /\ Checkin => IInv'
<1> SUFFICES ASSUME IInv, Checkin PROVE IInv'
  OBVIOUS
<1>1. /\ pc = "unwind" /\ pc' = "idle" /\ TypeOK /\ IdleInPool /\ conn \in Conns
      /\ txn = "none" /\ stream = "none" /\ Now = Idle /\ conn' = NULL
      /\ pool' = Append(pool, conn)
      /\ UNCHANGED <<txn, stream, call, left, result, session, broken, table, faults,
                     inserted>>
  BY DEF Checkin, IInv, LocalsInv, ServerInv
<1>2. pool' \in Seq(Conns) /\ pool' # <<>>
  BY <1>1 DEF TypeOK
<1>3. IdleInPool'
  BY <1>1 DEF IdleInPool, Now
<1>4. QED
  BY <1>1, <1>2, <1>3 DEF IInv, TypeOK, LocalsInv, ServerInv

LEMMA BreakIInv ==
  ASSUME IInv, NEW c \in Conns, Break(c)
  PROVE  IInv'
<1>1. /\ TypeOK /\ IdleInPool /\ broken' = broken \cup {c} /\ Fault
      /\ session' = [session EXCEPT ![c] = Idle]
      /\ UNCHANGED <<pool, conn, txn, stream, call, left, pc, result, table, inserted>>
  BY DEF Break, IInv
<1>2. TypeOK'
  BY <1>1, IdleTyped, FaultTyped DEF TypeOK
<1>3. IdleInPool' /\ (conn \in Conns => Now' = IF conn = c THEN Idle ELSE Now)
  BY <1>1 DEF IdleInPool, Now, TypeOK
<1>4. LocalsInv'
  BY <1>1 DEF IInv, LocalsInv
<1>5. ServerInv'
  <2> SUFFICES ASSUME pc # "idle" PROVE ServerInv'
    BY <1>1 DEF ServerInv
  <2>1. CASE conn = c
    <3>1. ~Up' /\ Now' = Idle /\ ~Idle.copying
      BY <1>1, <1>3, <2>1 DEF Up, Idle
    <3>2. QED
      BY <3>1 DEF ServerInv
  <2>2. CASE conn # c
    <3>1. conn \in Conns
      BY DEF IInv, LocalsInv
    <3>2. Now' = Now /\ Up' = Up
      BY <1>1, <1>3, <2>2, <3>1 DEF Up
    <3>3. Truncated' = Truncated /\ ToCommit' = ToCommit
      BY <1>1 DEF Truncated, ToCommit
    <3>4. QED
      BY <1>1, <3>2, <3>3 DEF IInv, ServerInv
  <2>3. QED
    BY <2>1, <2>2
<1>6. QED
  BY <1>2, <1>3, <1>4, <1>5 DEF IInv

(* A row that another adapter inserts is not one that the commit removes.  *)
Less(s, r) == [s EXCEPT !.minus = @ \ {r}]

LEMMA LessTyped ==
  ASSUME NEW r, NEW s \in Sessions
  PROVE  /\ Less(s, r) \in Sessions
         /\ Less(s, r).copying = s.copying
         /\ s.minus = {} => Less(s, r) = s
BY DEF Less, Sessions

LEMMA LessRemoved ==
  ASSUME NEW r, NEW H, NEW R
  PROVE  Less([Opened EXCEPT !.held = H, !.minus = R], r)
           = [Opened EXCEPT !.held = H, !.minus = R \ {r}]
BY DEF Less, Opened, Idle

(* Nobody else changes the table that the call has truncated.              *)
LEMMA OthersNotInSave ==
  ASSUME IInv, NEW r \in Rows, Other(r), pc # "idle", Up
  PROVE  /\ pc \notin {"stream", "rows"}
         /\ pc = "commit" => call.kind \in {"add", "remove"} /\ Now = ToCommit
<1>1. conn \in Conns /\ ~Now.locked
  BY DEF Other, Now, IInv, LocalsInv
<1>2. pc \notin {"stream", "rows"}
  BY <1>1 DEF IInv, ServerInv, Truncated, Opened, Idle
<1>3. QED
  BY <1>1, <1>2, ToCommitKinds DEF IInv, ServerInv

LEMMA OtherInsertsIInv ==
  ASSUME IInv, NEW r \in Rows, Other(r), table' = table \cup {r},
         session' = [c \in Conns |-> Less(session[c], r)],
         inserted' = IF result = "pending" THEN inserted \cup {r} ELSE inserted
  PROVE  IInv'
<1>1. /\ TypeOK /\ IdleInPool
      /\ UNCHANGED <<pool, conn, txn, stream, call, left, pc, result, broken, faults>>
  BY DEF Other, IInv
<1>t. /\ Less(Idle, r) = Idle /\ Less(Opened, r) = Opened
      /\ Opened \in Sessions
  <2>1. Opened \in Sessions /\ Opened.minus = {} /\ Idle.minus = {}
    BY IdleTyped, SessionsTyped DEF Opened, Idle
  <2>2. QED
    BY <2>1, IdleTyped, LessTyped
<1>2. session' \in [Conns -> Sessions]
  BY <1>1, LessTyped DEF TypeOK
<1>3. TypeOK' /\ LocalsInv'
  BY <1>1, <1>2 DEF IInv, TypeOK, LocalsInv
<1>4. IdleInPool'
  BY <1>1, <1>t DEF IdleInPool, TypeOK
<1>5. ServerInv'
  <2> SUFFICES ASSUME pc # "idle" PROVE ServerInv'
    BY <1>1 DEF ServerInv
  <2>1. conn \in Conns
    BY DEF IInv, LocalsInv
  <2>2. Now' = Less(Now, r) /\ Up' = Up
    BY <1>1, <2>1 DEF Now, Up
  <2>3. CASE pc = "begin" \/ ~Up
    <3>1. Now' = Idle /\ ~Idle.copying
      BY <1>t, <2>2, <2>3 DEF IInv, ServerInv, Idle
    <3>2. QED
      BY <1>1, <2>2, <2>3, <3>1 DEF ServerInv
  <2>4. CASE pc = "exec" /\ Up
    BY <1>1, <1>t, <2>2, <2>4 DEF IInv, ServerInv
  <2>5. CASE pc = "unwind"
    <3>1. Now \in Sessions
      BY <1>1, <2>1 DEF TypeOK, Now
    <3>2. (txn # "active" => Now' = Idle) /\ Now'.copying = Now.copying
      BY <1>t, <2>2, <2>5, <3>1, LessTyped DEF IInv, ServerInv
    <3>3. ~Up => Now' = Idle
      BY <1>t, <2>2 DEF IInv, ServerInv
    <3>4. QED
      BY <1>1, <2>2, <2>5, <3>2, <3>3 DEF IInv, ServerInv
  <2>6. CASE pc = "commit" /\ Up /\ call.kind = "add"
    <3>1. Now = ToCommit
      BY <2>6, OthersNotInSave
    <3>2. Now' = ToCommit /\ ToCommit' = ToCommit
      <4>1. call.rows \in SUBSET Rows
        BY <1>1, SessionAssumption DEF TypeOK
      <4>2. Now = [Opened EXCEPT !.plus = call.rows]
        BY <2>6, <3>1 DEF ToCommit
      <4>3. Now \in Sessions /\ Now.minus = {}
        BY <1>t, <4>1, <4>2, SessionsTyped DEF Opened, Idle
      <4>4. Now' = Now
        BY <2>2, <4>3, LessTyped
      <4>5. QED
        BY <1>1, <2>6, <3>1, <4>4 DEF ToCommit
    <3>3. QED
      BY <1>1, <2>2, <2>6, <3>2 DEF ServerInv
  <2>7. CASE pc = "commit" /\ Up /\ call.kind = "remove"
    <3>1. Now = [Opened EXCEPT !.held = Now.held, !.minus = Now.minus]
      BY <2>7, OthersNotInSave DEF ToCommit
    <3>2. Now' = [Opened EXCEPT !.held = Now.held, !.minus = Now.minus \ {r}]
      <4> DEFINE H == Now.held
                 R == Now.minus
      <4>1. Now = [Opened EXCEPT !.held = H, !.minus = R]
        BY <3>1
      <4> HIDE DEF H, R
      <4>2. Now' = [Opened EXCEPT !.held = H, !.minus = R \ {r}]
        BY <2>2, <4>1, LessRemoved
      <4>3. QED
        BY <4>2 DEF H, R
    <3>3. Now'.held = Now.held /\ Now'.minus = Now.minus \ {r}
      BY <3>2 DEF Opened, Idle
    <3>4. Now' = ToCommit'
      BY <1>1, <2>7, <3>2, <3>3 DEF ToCommit, Opened
    <3>5. Now.minus \subseteq call.rows /\ call.rows \cap table \subseteq Now.minus \cup inserted
          /\ result = "pending"
      BY <2>7 DEF IInv, ServerInv, LocalsInv
    <3>6. call.rows \cap table' \subseteq Now'.minus \cup inserted'
      BY <3>3, <3>5
    <3>7. QED
      BY <1>1, <2>2, <2>7, <3>3, <3>4, <3>5, <3>6 DEF ServerInv
  <2>8. pc \in {"begin", "exec", "stream", "rows", "commit", "unwind"}
    BY <1>1 DEF TypeOK
  <2>9. QED
    BY <2>3, <2>4, <2>5, <2>6, <2>7, <2>8, OthersNotInSave
<1>6. QED
  BY <1>3, <1>4, <1>5 DEF IInv

LEMMA OtherDeletesIInv ==
  ASSUME IInv, NEW r \in Rows, Other(r), table' = table \ {r},
         UNCHANGED <<session, inserted>>
  PROVE  IInv'
<1>1. /\ TypeOK /\ IdleInPool
      /\ UNCHANGED <<pool, conn, txn, stream, call, left, pc, result, session,
                     broken, faults, inserted>>
  BY DEF Other, IInv
<1>2. TypeOK' /\ IdleInPool' /\ LocalsInv'
  BY <1>1 DEF IInv, TypeOK, IdleInPool, LocalsInv
<1>3. ServerInv'
  <2> SUFFICES ASSUME pc # "idle" PROVE ServerInv'
    BY <1>1 DEF ServerInv
  <2>1. Now' = Now /\ Up' = Up
    BY <1>1 DEF Now, Up
  <2>2. CASE pc = "commit" /\ Up
    <3>1. Now = ToCommit /\ call.kind \in {"add", "remove"}
      BY <2>2, OthersNotInSave
    <3>2. ToCommit' = ToCommit
      BY <1>1, <2>1, <3>1 DEF ToCommit
    <3>3. call.kind = "remove" =>
             /\ Now.minus \subseteq call.rows
             /\ call.rows \cap table' \subseteq Now.minus \cup inserted
      BY <2>2 DEF IInv, ServerInv
    <3>4. QED
      BY <1>1, <2>1, <2>2, <3>1, <3>2, <3>3 DEF ServerInv
  <2>3. CASE ~(pc = "commit" /\ Up)
    <3>1. Up => pc \notin {"stream", "rows"}
      BY OthersNotInSave
    <3>2. QED
      BY <1>1, <2>1, <2>3, <3>1 DEF IInv, ServerInv
  <2>4. QED
    BY <2>2, <2>3
<1>4. QED
  BY <1>2, <1>3 DEF IInv

LEMMA OtherIInv ==
  ASSUME IInv, NEW r \in Rows, Other(r)
  PROVE  IInv'
BY OtherInsertsIInv, OtherDeletesIInv DEF Other, Less

LEMMA StepIInv == IInv /\ [Next]_vars => IInv'
<1>1. ASSUME IInv, UNCHANGED vars PROVE IInv'
  BY <1>1 DEF vars, IInv, TypeOK, IdleInPool, LocalsInv, ServerInv, Now, Up,
     Truncated, ToCommit
<1>2. QED
  BY <1>1, CallIInv, BeginIInv, ExecIInv, OpenStreamIInv, WriteRowIInv,
     CompleteIInv, CommitIInv, DestroyStreamIInv, DestroyTxnIInv, CheckinIInv,
     BreakIInv, OtherIInv DEF Next, Step

-----------------------------------------------------------------------------
(* The inductive invariant, of every behaviour.                            *)
THEOREM SessionIInv == Spec => []IInv
<1>1. QED
  BY InitIInv, StepIInv, PTL DEF Spec

(* The variables keep their types.                                         *)
THEOREM SessionTypeOK == Spec => []TypeOK
<1>1. IInv => TypeOK
  BY DEF IInv
<1>2. QED
  BY <1>1, SessionIInv, PTL

(* Nothing of a call is left on a connection in the pool.                  *)
THEOREM SessionIdleInPool == Spec => []IdleInPool
<1>1. IInv => IdleInPool
  BY DEF IInv
<1>2. QED
  BY <1>1, SessionIInv, PTL

-----------------------------------------------------------------------------
(* The steps a call has before it.                                         *)

LEMMA RowsCounted ==
  ASSUME NEW op \in Ops, NEW R \in SUBSET op.rows
  PROVE  IsFiniteSet(R) /\ Cardinality(R) \in Nat
<1>1. IsFiniteSet(R)
  BY SessionAssumption, FS_Subset
<1>2. QED
  BY <1>1, FS_CardinalityType

(* A step to another place of the call, or of what is left to be written.  *)
LEMMA StepTakesOne == IInv /\ IInv' /\ Step => StepsLeft' < StepsLeft
<1> SUFFICES ASSUME IInv, IInv', Step PROVE StepsLeft' < StepsLeft
  OBVIOUS
<1> DEFINE n == Cardinality(left)
           m == Cardinality(left')
<1>1. TypeOK /\ LocalsInv /\ IsFiniteSet(left)
  BY RowsCounted DEF IInv, TypeOK
<1>2. n \in Nat /\ m \in Nat
  BY RowsCounted DEF IInv, TypeOK
<1>3. left' = left => m = n
  OBVIOUS
<1> HIDE DEF n, m
<1>4. CASE Begin
  BY <1>1, <1>2, <1>3, <1>4 DEF Begin, Leave, LocalsInv, StepsLeft, n, m
<1>5. CASE Exec
  BY <1>1, <1>2, <1>3, <1>5 DEF Exec, Refused, Leave, LocalsInv, StepsLeft, n, m
<1>6. CASE OpenStream
  BY <1>1, <1>2, <1>3, <1>6 DEF OpenStream, Refused, Leave, LocalsInv, StepsLeft,
     n, m
<1>7. CASE WriteRow
  <2>1. PICK r \in left : \/ left' = left \ {r} /\ pc' = pc
                          \/ left' = left /\ pc' = "unwind"
    BY <1>7 DEF WriteRow, Leave
  <2>2. pc = "rows" /\ UNCHANGED <<stream, txn>>
    BY <1>7 DEF WriteRow
  <2>3. left' = left \ {r} => m = n - 1
    BY <1>1, FS_RemoveElement DEF n, m
  <2>4. QED
    BY <1>2, <1>3, <2>1, <2>2, <2>3 DEF StepsLeft, n, m
<1>8. CASE Complete
  BY <1>1, <1>2, <1>3, <1>8 DEF Complete, Refused, Leave, LocalsInv, StepsLeft,
     n, m
<1>9. CASE Commit
  BY <1>1, <1>2, <1>3, <1>9 DEF Commit, Leave, LocalsInv, StepsLeft, n, m
<1>10. CASE DestroyStream \/ DestroyTxn \/ Checkin
  BY <1>2, <1>3, <1>10 DEF DestroyStream, DestroyTxn, Checkin, StepsLeft, n, m
<1>11. QED
  BY <1>4, <1>5, <1>6, <1>7, <1>8, <1>9, <1>10 DEF Step

LEMMA OthersTakeNone ==
  ASSUME pc # "idle", [Next]_vars, ~Step
  PROVE  StepsLeft' = StepsLeft
<1>1. UNCHANGED <<pc, left, stream, txn>>
  BY DEF Next, Call, Break, Other, vars
<1>2. QED
  BY <1>1 DEF StepsLeft

(* Each step of a call, whatever it throws, brings the call nearer to its  *)
(* end, and nothing else puts it back: no call of PgAdapter goes on for    *)
(* ever, for any number of rows.                                           *)
THEOREM SessionCallsRunOut == Spec => CallsRunOut
<1> DEFINE RunsOut == pc # "idle" => IF Step THEN StepsLeft' < StepsLeft
                                             ELSE StepsLeft' = StepsLeft
<1>1. IInv /\ [Next]_vars => RunsOut
  BY StepIInv, StepTakesOne, OthersTakeNone
<1>2. IInv /\ [Next]_vars => [RunsOut]_vars
  BY <1>1
<1> HIDE DEF RunsOut
<1>3. Spec => [][RunsOut]_vars
  BY <1>2, SessionIInv, PTL DEF Spec
<1>4. QED
  BY <1>3 DEF CallsRunOut, RunsOut

(* No call fails but where a statement fails or its connection is broken.  *)
LEMMA StepFailsForAReason ==
  ASSUME IInv, [Next]_vars, result' = "failed", result # "failed"
  PROVE  conn \in broken \/ faults' > faults
<1>1. Fault => faults' > faults
  BY DEF Fault, IInv, TypeOK
<1>2. CASE Commit
  <2>1. stream # "open"
    BY <1>2 DEF Commit, IInv, LocalsInv
  <2>2. QED
    BY <1>1, <1>2, <2>1 DEF Commit, Leave, Up
<1>3. CASE Begin
  BY <1>3 DEF Begin, Up
<1>4. CASE Exec \/ OpenStream \/ WriteRow \/ Complete
  BY <1>1, <1>4 DEF Exec, OpenStream, WriteRow, Complete, Refused, Leave, Up
<1>5. CASE \/ UNCHANGED vars
           \/ DestroyStream \/ DestroyTxn \/ Checkin
           \/ \E op \in Ops : Call(op)
           \/ \E c \in Conns : Break(c)
           \/ \E r \in Rows : Other(r)
  BY <1>5 DEF vars, DestroyStream, DestroyTxn, Checkin, Call, Break, Other
<1>6. QED
  BY <1>2, <1>3, <1>4, <1>5 DEF Next, Step

(* Where neither a statement fails nor a connection breaks, every call of  *)
(* PgAdapter succeeds: none is refused because of the order of its steps.  *)
THEOREM SessionFailsForAReason == Spec => FailsForAReason
<1>1. IInv /\ [Next]_vars
        => (result' = "failed" /\ result # "failed"
              => conn \in broken \/ faults' > faults)
  BY StepFailsForAReason
<1>2. QED
  BY <1>1, SessionIInv, PTL DEF Spec, FailsForAReason

-----------------------------------------------------------------------------
(* Each step of a call, as a step of AtomicCalls.                          *)

LEMMA CommitsEffect ==
  ASSUME IInv, pc = "commit", Up
  PROVE  Committed \in Calls!Effects(call)
<1>1. /\ Now = ToCommit /\ call.kind \in {"add", "remove", "save"}
      /\ ToCommit.tx = "open"
  BY ToCommitKinds DEF IInv, ServerInv
<1>2. CASE call.kind \in {"add", "save"}
  BY <1>1, <1>2 DEF Committed, ToCommit, Truncated, Opened, Idle, Calls!Effects
<1>3. CASE call.kind = "remove"
  <2> DEFINE late == (call.rows \cap table) \ Now.minus
  <2>1. /\ Now.minus \subseteq call.rows
        /\ call.rows \cap table \subseteq Now.minus \cup inserted
    BY <1>3 DEF IInv, ServerInv
  <2>2. Now.plus = {}
    BY <1>1, <1>3 DEF ToCommit, Opened, Idle
  <2>3. Committed = table \ Now.minus
    BY <1>1, <2>2 DEF Committed
  <2>4. table \ Now.minus = table \ (call.rows \ late)
    BY <2>1
  <2>5. late \in SUBSET inserted
    BY <2>1
  <2>6. QED
    BY <1>3, <2>3, <2>4, <2>5 DEF Calls!Effects
<1>4. QED
  BY <1>1, <1>2, <1>3

LEMMA CommitImplements == IInv /\ Commit => Calls!Next
<1> SUFFICES ASSUME IInv, Commit PROVE Calls!Next
  OBVIOUS
<1>1. pc = "commit" /\ result = "pending" /\ UNCHANGED <<call, inserted>>
  BY DEF Commit, IInv, LocalsInv
<1>2. CASE ~Up \/ stream = "open"
  BY <1>1, <1>2 DEF Commit, Leave, Calls!Next, Calls!Fail
<1>3. CASE Up /\ stream # "open"
  <2>1. Committed \in Calls!Effects(call)
    BY <1>1, <1>3, CommitsEffect
  <2>2. QED
    BY <1>1, <1>3, <2>1 DEF Commit, Leave, Calls!Next, Calls!Succeed,
       Calls!Fail, Calls!Doubt
<1>4. QED
  BY <1>2, <1>3

LEMMA ExecImplements == IInv /\ Exec => [Calls!Next]_Calls!vars
<1> SUFFICES ASSUME IInv, Exec PROVE [Calls!Next]_Calls!vars
  OBVIOUS
<1>1. result = "pending" /\ UNCHANGED <<call, table, inserted>>
  BY DEF Exec, IInv, LocalsInv
<1>2. CASE result' = "failed"
  BY <1>1, <1>2 DEF Calls!Next, Calls!Fail
<1>3. CASE call.kind = "load" /\ result' = "ok"
  <2>1. Calls!Effects(call) = {table}
    BY <1>3 DEF Calls!Effects
  <2>2. QED
    BY <1>1, <1>3, <2>1 DEF Calls!Next, Calls!Succeed
<1>4. CASE result' = result
  BY <1>1, <1>4 DEF Calls!vars
<1>5. QED
  BY <1>2, <1>3, <1>4 DEF Exec, Refused, Leave

LEMMA PlainImplements ==
  ASSUME IInv, Begin \/ OpenStream \/ WriteRow \/ Complete
  PROVE  [Calls!Next]_Calls!vars
<1>1. result = "pending" /\ UNCHANGED <<call, table, inserted>>
  BY DEF Begin, OpenStream, WriteRow, Complete, IInv, LocalsInv
<1>2. result' \in {result, "failed"}
  BY DEF Begin, OpenStream, WriteRow, Complete, Refused, Leave
<1>3. QED
  BY <1>1, <1>2 DEF Calls!Next, Calls!Fail, Calls!vars

LEMMA StepImplements == IInv /\ [Next]_vars => [Calls!Next]_Calls!vars
<1> SUFFICES ASSUME IInv, [Next]_vars PROVE [Calls!Next]_Calls!vars
  OBVIOUS
<1>1. CASE \E op \in Ops : Call(op)
  BY <1>1 DEF Call, IInv, LocalsInv, Calls!Next, Calls!Begin
<1>2. CASE DestroyStream \/ DestroyTxn \/ Checkin \/ UNCHANGED vars
  BY <1>2 DEF DestroyStream, DestroyTxn, Checkin, vars, Calls!vars
<1>3. CASE \E c \in Conns : Break(c)
  BY <1>3 DEF Break, Calls!vars
<1>4. CASE \E r \in Rows : Other(r)
  BY <1>4 DEF Other, Calls!Next, Calls!OtherInserts, Calls!OtherDeletes
<1>5. QED
  BY <1>1, <1>2, <1>3, <1>4, CommitImplements, ExecImplements, PlainImplements
     DEF Next, Step

(* Every call changes the table at once and entirely, or not at all.       *)
THEOREM SessionImplements == Spec => ImplementsAtomicCalls
<1>1. Init => Calls!Init
  BY DEF Init, Calls!Init
<1>2. IInv /\ [Next]_vars => [Calls!Next]_Calls!vars
  BY StepImplements
<1>3. QED
  BY <1>1, <1>2, SessionIInv, PTL DEF Spec, ImplementsAtomicCalls, Calls!Spec
=============================================================================
