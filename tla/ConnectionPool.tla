--------------------------- MODULE ConnectionPool ---------------------------
(***************************************************************************)
(* What PGPool (c_src/pg_pool.h, c_src/pg_pool.cpp) promises to the        *)
(* operations of PgAdapter: a fixed set of database connections, each      *)
(* lent to at most one thread at a time and taken back when the thread is  *)
(* done.  Acquiring and releasing are single steps here; module PgPool     *)
(* describes the mutex, the condition variable and the queue that          *)
(* implement them.                                                         *)
(***************************************************************************)

CONSTANTS Threads,       \* the threads that run PgAdapter operations
          Connections,   \* the connections opened by createPool
          NoConnection   \* the value of a thread that holds none

VARIABLES wanting,       \* threads that asked for a connection and have none
          free,          \* connections nobody holds
          owner          \* the connection each thread holds

vars == <<wanting, free, owner>>

Init == /\ wanting = {}
        /\ free = Connections
        /\ owner = [t \in Threads |-> NoConnection]

(* A thread asks for a connection: PoolConnection's constructor starts.    *)
Request(t) == /\ owner[t] = NoConnection
              /\ t \notin wanting
              /\ wanting' = wanting \cup {t}
              /\ UNCHANGED <<free, owner>>

(* A free connection is lent to a thread that asked for one.               *)
Acquire(t) == /\ t \in wanting
              /\ \E c \in free : /\ owner' = [owner EXCEPT ![t] = c]
                                 /\ free' = free \ {c}
              /\ wanting' = wanting \ {t}

(* The thread gives its connection back.                                   *)
Release(t) == /\ owner[t] # NoConnection
              /\ owner' = [owner EXCEPT ![t] = NoConnection]
              /\ free' = free \cup {owner[t]}
              /\ UNCHANGED wanting

Next == \E t \in Threads : Request(t) \/ Acquire(t) \/ Release(t)

SafetySpec == Init /\ [][Next]_vars

(* Progress of the pool as a whole: it does not sit on a free connection   *)
(* while threads wait for one, and check-ins do not cease while            *)
(* connections are out.  Nothing is promised to a single thread: neither   *)
(* the mutex nor the condition variable of PGPool serves threads in order. *)
Spec == /\ SafetySpec
        /\ WF_vars(\E t \in Threads : Acquire(t))
        /\ WF_vars(\E t \in Threads : Release(t))
=============================================================================
