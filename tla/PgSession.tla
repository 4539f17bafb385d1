----------------------------- MODULE PgSession ------------------------------
(***************************************************************************)
(* The calls of PgAdapter (c_src/pg_adapter.cpp) on connections of the     *)
(* pool, step by step: the locals c, txn and stream, their constructors    *)
(* and destructors (libpqxx), and the session that the server keeps for a  *)
(* connection.  Any step may throw, and the locals are then destroyed.     *)
(*                                                                         *)
(* One thread calls at a time: threads at the pool are in PgPool.  A       *)
(* connection the server has closed stays in the pool and is never opened  *)
(* again.                                                                  *)
(***************************************************************************)
EXTENDS Naturals, Sequences, FiniteSets

CONSTANTS Conns,     \* the connections of the pool
          Rows,      \* the rows that casbin_rule may have
          Ops,       \* the calls: what they do, and to which rows
          NULL,      \* no connection
          MaxFaults  \* bound: statements that fail, connections that break

ASSUME SessionAssumption ==
    /\ IsFiniteSet(Conns) /\ Conns # {} /\ NULL \notin Conns
    /\ \A op \in Ops : /\ op.kind \in {"load", "add", "remove", "save"}
                       /\ op.rows \subseteq Rows /\ IsFiniteSet(op.rows)
    /\ MaxFaults \in Nat

VARIABLES pool,     \* m_pool, a queue
          conn,     \* c, the connection of the call
          txn,      \* txn: its m_status, "none" where there is no such object
          stream,   \* stream: "none", "open", which is txn's focus, "finished"
          call,     \* the last call
          left,     \* the rows that SavePolicy has still to write
          pc,       \* where the call is
          result,   \* what has become of it
          session,  \* what the server keeps for each connection
          broken,   \* the connections that are closed
          table,    \* the rows of casbin_rule that are committed
          faults,
          inserted  \* history: what other adapters inserted during the call

vars == <<pool, conn, txn, stream, call, left, pc, result, session, broken,
          table, faults, inserted>>

(* A session: the state of its transaction, whether it is in a COPY and    *)
(* has locked the table, the rows whose locks its DELETE holds, and those  *)
(* that its commit takes from the table and puts there.                    *)
Sessions == [tx : {"idle", "open", "error"}, copying : BOOLEAN,
             locked : BOOLEAN, held : SUBSET Rows, minus : SUBSET Rows,
             plus : SUBSET Rows]

Idle == [tx |-> "idle", copying |-> FALSE, locked |-> FALSE,
         held |-> {}, minus |-> {}, plus |-> {}]

Init == /\ pool \in [1 .. Cardinality(Conns) -> Conns]
        /\ \A i, j \in DOMAIN pool : pool[i] = pool[j] => i = j
        /\ conn = NULL
        /\ txn = "none" /\ stream = "none"
        /\ call \in Ops /\ left = {}
        /\ pc = "idle" /\ result = "none"
        /\ session = [c \in Conns |-> Idle]
        /\ broken = {}
        /\ table \in SUBSET Rows
        /\ faults = 0
        /\ inserted = {}

-----------------------------------------------------------------------------
Up    == conn \notin broken
Fault == faults < MaxFaults /\ faults' = faults + 1

Now      == session[conn]
Becomes(s) == session' = [session EXCEPT ![conn] = s]

(* An exception: the locals are destroyed, and so they are at the end.     *)
Leave(why) == pc' = "unwind" /\ result' = why

(* The server refuses a statement and undoes the transaction, its locks    *)
(* too, or the connection is closed.                                       *)
Refused == \/ /\ Up
              /\ Fault
              /\ Becomes([Idle EXCEPT !.tx = "error"])
              /\ Leave("failed")
           \/ /\ ~Up
              /\ Leave("failed")
              /\ UNCHANGED <<session, faults>>

(* PoolConnection c{_pgPool}                                               *)
Call(op) == /\ pc = "idle"
            /\ conn' = Head(pool)
            /\ pool' = Tail(pool)
            /\ call' = op
            /\ left' = IF op.kind = "save" THEN op.rows ELSE {}
            /\ pc' = "begin"
            /\ result' = "pending"
            /\ inserted' = {}
            /\ UNCHANGED <<txn, stream, session, broken, table, faults>>

(* pqxx::work txn{c.connection()}                                          *)
Begin == /\ pc = "begin"
         /\ \/ /\ Up
               /\ Becomes([Now EXCEPT !.tx = "open"])
               /\ txn' = "active"
               /\ pc' = "exec"
               /\ UNCHANGED result
            \/ /\ ~Up
               /\ Leave("failed")
               /\ UNCHANGED <<session, txn>>
         /\ UNCHANGED <<pool, conn, stream, call, left, broken, table,
                        faults, inserted>>

(* txn.exec of the statement of the call; TRUNCATE locks the table.        *)
Executed ==
    CASE call.kind = "load"   -> Now
      [] call.kind = "add"    -> [Now EXCEPT !.plus = call.rows]
      [] call.kind = "remove" -> [Now EXCEPT !.held  = call.rows \cap table,
                                             !.minus = call.rows \cap table]
      [] call.kind = "save"   -> [Now EXCEPT !.minus = table, !.locked = TRUE]

(* Mutant: the table is truncated outside the transaction.                 *)
ExecAtOnce == /\ pc = "exec"
              /\ \/ Refused /\ UNCHANGED table
                 \/ /\ Up
                    /\ Becomes(Executed)
                    /\ UNCHANGED faults
                    /\ table' = IF call.kind = "save" THEN {} ELSE table
                    /\ IF call.kind = "load" THEN Leave("ok")
                       ELSE /\ pc' = IF call.kind = "save" THEN "stream" ELSE "commit"
                            /\ UNCHANGED result
              /\ UNCHANGED <<pool, conn, txn, stream, call, left, broken,
                             inserted>>

Exec == /\ pc = "exec"
        /\ \/ Refused
           \/ /\ Up
              /\ Becomes(Executed)
              /\ UNCHANGED faults
              /\ IF call.kind = "load" THEN Leave("ok")
                 ELSE /\ pc' = IF call.kind = "save" THEN "stream" ELSE "commit"
                      /\ UNCHANGED result
        /\ UNCHANGED <<pool, conn, txn, stream, call, left, broken, table,
                       inserted>>

(* stream_to::table starts a COPY and makes the stream the focus of txn.   *)
OpenStream == /\ pc = "stream"
              /\ \/ Refused /\ UNCHANGED stream
                 \/ /\ Up
                    /\ Becomes([Now EXCEPT !.copying = TRUE])
                    /\ stream' = "open"
                    /\ pc' = "rows"
                    /\ UNCHANGED <<result, faults>>
              /\ UNCHANGED <<pool, conn, txn, call, left, broken, table,
                             inserted>>

(* Mutant: the loop does not get on.                                       *)
WriteRowAgain ==
    /\ pc = "rows"
    /\ \E r \in left : Up /\ Becomes([Now EXCEPT !.plus = @ \cup {r}])
    /\ UNCHANGED <<pool, conn, txn, stream, call, left, pc, result, broken,
                   table, faults, inserted>>

(* stream << row; esc and the buffer may throw without the server.         *)
WriteRow ==
    /\ pc = "rows"
    /\ \E r \in left :
          \/ /\ Up
             /\ Becomes([Now EXCEPT !.plus = @ \cup {r}])
             /\ left' = left \ {r}
             /\ UNCHANGED <<pc, result, faults>>
          \/ /\ Fault \/ (~Up /\ UNCHANGED faults)
             /\ Leave("failed")
             /\ UNCHANGED <<session, left>>
    /\ UNCHANGED <<pool, conn, txn, stream, call, broken, table, inserted>>

(* Mutant: the stream is not completed before the commit.                  *)
CompleteNothing == /\ pc = "rows"
                   /\ left = {}
                   /\ pc' = "commit"
                   /\ UNCHANGED <<pool, conn, txn, stream, call, left, result,
                                  session, broken, table, faults, inserted>>

(* stream.complete()                                                       *)
Complete == /\ pc = "rows"
            /\ left = {}
            /\ stream' = "finished"
            /\ \/ Refused
               \/ /\ Up
                  /\ Becomes([Now EXCEPT !.copying = FALSE])
                  /\ pc' = "commit"
                  /\ UNCHANGED <<result, faults>>
            /\ UNCHANGED <<pool, conn, txn, call, left, broken, table,
                           inserted>>

-----------------------------------------------------------------------------
(* txn.commit(): COMMIT rolls back a transaction in which a statement has  *)
(* failed.  With a focus, or without a connection, it is not sent.         *)
Committed == IF Now.tx = "open" THEN (table \ Now.minus) \cup Now.plus
                                ELSE table

Commit ==
    /\ pc = "commit"
    /\ \/ /\ ~Up \/ stream = "open"
          /\ Leave("failed")
          /\ UNCHANGED <<session, txn, broken, table, faults>>
       \/ /\ Up /\ stream # "open"
          /\ \/ /\ txn' = "committed"
                /\ table' = Committed
                /\ Leave("ok")
                /\ UNCHANGED <<broken, faults>>
             \/ /\ Fault
                /\ txn' = "aborted"
                /\ Leave("failed")
                /\ UNCHANGED <<broken, table>>
             \/ /\ Fault
                /\ txn' = "in_doubt"
                /\ table' \in {table, Committed}
                /\ broken' = broken \cup {conn}
                /\ Leave("in_doubt")
          /\ Becomes(Idle)
    /\ UNCHANGED <<pool, conn, stream, call, left, inserted>>

(* Mutant: the stream is not completed when it is destroyed.               *)
DestroyStreamOpen == /\ pc = "unwind"
                     /\ stream # "none"
                     /\ stream' = "none"
                     /\ UNCHANGED <<pool, conn, txn, call, left, pc, result,
                                    session, broken, table, faults, inserted>>

(* ~stream_to: it completes the COPY, though an exception is on its way.   *)
DestroyStream == /\ pc = "unwind"
                 /\ stream # "none"
                 /\ stream' = "none"
                 /\ Becomes(IF stream = "open" THEN [Now EXCEPT !.copying = FALSE]
                                               ELSE Now)
                 /\ UNCHANGED <<pool, conn, txn, call, left, pc, result, broken,
                                table, faults, inserted>>

(* ~transaction: a transaction that is active is rolled back; in a COPY    *)
(* the server takes no commands.                                           *)
DestroyTxn == /\ pc = "unwind"
              /\ stream = "none" /\ txn # "none"
              /\ txn' = "none"
              /\ Becomes(IF txn = "active" /\ ~Now.copying THEN Idle ELSE Now)
              /\ UNCHANGED <<pool, conn, stream, call, left, pc, result, broken,
                             table, faults, inserted>>

(* Mutant: the connection goes to the head of the queue.                   *)
CheckinFirst == /\ pc = "unwind"
                /\ stream = "none" /\ txn = "none"
                /\ pool' = <<conn>> \o pool
                /\ conn' = NULL
                /\ pc' = "idle"
                /\ UNCHANGED <<txn, stream, call, left, result, session, broken,
                               table, faults, inserted>>

(* ~PoolConnection                                                         *)
Checkin == /\ pc = "unwind"
           /\ stream = "none" /\ txn = "none"
           /\ pool' = Append(pool, conn)
           /\ conn' = NULL
           /\ pc' = "idle"
           /\ UNCHANGED <<txn, stream, call, left, result, session, broken,
                          table, faults, inserted>>

-----------------------------------------------------------------------------
(* The server closes a connection, and rolls its transaction back.         *)
Break(c) == /\ c \notin broken
            /\ Fault
            /\ broken' = broken \cup {c}
            /\ session' = [session EXCEPT ![c] = Idle]
            /\ UNCHANGED <<pool, conn, txn, stream, call, left, pc, result,
                           table, inserted>>

(* Another adapter inserts or deletes a row.  TRUNCATE locks the table for *)
(* both; a DELETE locks the rows that it selects, which others may insert  *)
(* again, since the table has no unique key, and the commit leaves those.  *)
Other(r) ==
    /\ \A c \in Conns : ~session[c].locked
    /\ \/ /\ table' = table \cup {r}
          /\ session' = [c \in Conns |-> [session[c] EXCEPT !.minus = @ \ {r}]]
          /\ inserted' = IF result = "pending" THEN inserted \cup {r}
                                             ELSE inserted
       \/ /\ \A c \in Conns : r \notin session[c].held
          /\ table' = table \ {r}
          /\ UNCHANGED <<session, inserted>>
    /\ UNCHANGED <<pool, conn, txn, stream, call, left, pc, result, broken,
                   faults>>

Step == \/ Begin \/ Exec \/ OpenStream \/ WriteRow \/ Complete \/ Commit
        \/ DestroyStream \/ DestroyTxn \/ Checkin

Next == \/ \E op \in Ops : Call(op)
        \/ Step
        \/ \E c \in Conns : Break(c)
        \/ \E r \in Rows : Other(r)

(* The thread runs on, and the server answers or the connection is lost.   *)
Spec == Init /\ [][Next]_vars /\ WF_vars(Step)

-----------------------------------------------------------------------------
(* The variables' types; a call writes its own rows only.                  *)
TypeOK == /\ pool \in Seq(Conns)
          /\ conn \in Conns \cup {NULL}
          /\ txn \in {"none", "active", "committed", "aborted", "in_doubt"}
          /\ stream \in {"none", "open", "finished"}
          /\ call \in Ops
          /\ left \subseteq call.rows
          /\ pc \in {"idle", "begin", "exec", "stream", "rows", "commit", "unwind"}
          /\ result \in {"none", "pending", "ok", "failed", "in_doubt"}
          /\ session \in [Conns -> Sessions]
          /\ broken \subseteq Conns
          /\ table \subseteq Rows
          /\ faults \in 0 .. MaxFaults
          /\ inserted \subseteq Rows

(* A connection in the pool has no transaction, no COPY and no lock from   *)
(* an earlier call, whichever step of that call has thrown.                *)
IdleInPool == \A c \in Conns \ {conn} : session[c] = Idle

(* Whatever fails, a call changes the table at once and entirely, or not   *)
(* at all, and its answer says which, unless it says that it does not know *)
(* ("In no case will it leave half-finished work behind", libpqxx's        *)
(* dbtransaction.hxx).  A removal misses no row but those that another     *)
(* adapter inserted while it ran.                                          *)
Calls == INSTANCE AtomicCalls

ImplementsAtomicCalls == Calls!Spec

(* Every call comes to an end and gives its connection back.               *)
CallsReturn == pc # "idle" ~> pc = "idle"

(* The steps that a call can have before it, at most: what is left of the  *)
(* operation, a row each for the loop of SavePolicy, and the destructors   *)
(* of stream, transaction and PoolConnection.                              *)
StepsLeft ==
    LET before == [idle |-> 0, begin |-> 8, exec |-> 6, stream |-> 5,
                   rows |-> 3, commit |-> 2, unwind |-> 1]
    IN  IF pc = "idle" THEN 0
        ELSE before[pc] + Cardinality(left)
             + (IF stream = "none" THEN 0 ELSE 1) + (IF txn = "none" THEN 0 ELSE 1)

(* No call goes on for ever: each of its steps, one that throws too, takes *)
(* it nearer to the return of its connection, and neither connections that *)
(* break nor other adapters throw it back.                                 *)
CallsRunOut ==
    [][pc # "idle" => IF Step THEN StepsLeft' < StepsLeft
                              ELSE StepsLeft' = StepsLeft]_vars

(* A call fails only where a statement has failed or its connection is     *)
(* broken: SavePolicy completes its stream before the commit, which would  *)
(* throw otherwise (pg_adapter.cpp:122-123).                               *)
FailsForAReason ==
    [][result' = "failed" /\ result # "failed"
         => conn \in broken \/ faults' > faults]_vars

(* As long as one connection is not broken and calls keep coming, calls    *)
(* keep succeeding: the broken ones take their turn in the queue only.     *)
SuccessRecurs ==
    []<>(pc = "begin") => []<>(result = "ok") \/ <>(broken = Conns)

-----------------------------------------------------------------------------
(* What makes these inductive: which locals there are at each place of a   *)
(* call, and what the server has been told by then.                        *)
LocalsInv ==
    /\ pc = "idle" => conn = NULL /\ pool # <<>>
    /\ pc # "idle" => conn \in Conns
    /\ pc \in {"idle", "unwind"} <=> result # "pending"
    /\ pc \in {"idle", "begin"} => txn = "none" /\ stream = "none"
    /\ pc \in {"exec", "stream"} => txn = "active" /\ stream = "none"
    /\ pc \in {"stream", "rows"} => call.kind = "save"
    /\ pc \in {"begin", "exec", "stream"} /\ call.kind = "save" => left = call.rows
    /\ pc = "rows" => txn = "active" /\ stream = "open"
    /\ pc = "commit" => txn = "active" /\ stream # "open" /\ call.kind # "load"

Opened    == [Idle EXCEPT !.tx = "open"]
Truncated == [Opened EXCEPT !.minus = table, !.locked = TRUE]

ToCommit == CASE call.kind = "add"    -> [Opened EXCEPT !.plus = call.rows]
              [] call.kind = "remove" -> [Opened EXCEPT !.held  = Now.held,
                                                        !.minus = Now.minus]
              [] call.kind = "save"   -> [Truncated EXCEPT !.plus = call.rows]

ServerInv ==
    pc # "idle" =>
      /\ pc = "begin" \/ ~Up => Now = Idle
      /\ pc = "exec" /\ Up => Now = Opened
      /\ pc = "stream" /\ Up => Now = Truncated
      /\ pc = "rows" /\ Up => Now = [Truncated EXCEPT !.copying = TRUE,
                                                     !.plus = call.rows \ left]
      /\ pc = "commit" /\ Up => Now = ToCommit
      /\ pc = "commit" /\ Up /\ call.kind = "remove" =>
            Now.minus \subseteq call.rows
            /\ call.rows \cap table \subseteq Now.minus \cup inserted
      /\ pc = "unwind" => /\ txn # "active" => Now = Idle
                          /\ Now.copying => stream = "open"

IInv == TypeOK /\ IdleInPool /\ LocalsInv /\ ServerInv
=============================================================================
