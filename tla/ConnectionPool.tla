--------------------------- MODULE ConnectionPool ---------------------------
(***************************************************************************)
(* The main connection pool of one process.  Most calls take one           *)
(* connection, work on it, and give it back.  Three kinds of callers ask   *)
(* for a second one while they hold the first:                             *)
(*  - an event tail, which keeps one for as long as its client is          *)
(*    connected, each time it asks whether the user may still read;        *)
(*  - the recursive deletion of a collection under native authority, for   *)
(*    each document, and the snapshot of a publication, for its query,     *)
(*    both inside a transaction on the first;                              *)
(*  - a table migration that has been applied, for each table whose        *)
(*    metadata it writes anew, outside a transaction.                      *)
(* Nothing bounds their number, and acquire() waits without a deadline.    *)
(* PostgreSQL ends a session whose transaction has been idle too long, and *)
(* asyncpg takes the connection back, though its caller waits on.  The     *)
(* steps are composed with those of the write lane in WriteLane.           *)
(*                                                                         *)
(* A definition whose name ends in Slip belongs to no specification: it is *)
(* the form a plausible bug would give the definition that follows it.     *)
(***************************************************************************)
EXTENDS Integers, FiniteSets

CONSTANTS
    Tails,        \* bound: clients that follow a vault
    Calls,        \* bound: other requests and worker ticks at one time
    Nested,       \* those of the calls that take a second connection
    Atomic,       \* those of them that do so inside a transaction
    PoolSize      \* pg_pool_max_size

ASSUME PoolConstants ==
    /\ Tails \cap Calls = {}
    /\ Nested \subseteq Calls /\ Atomic \subseteq Nested
    /\ IsFiniteSet(Tails \cup Calls) /\ PoolSize \in Nat \ {0}

Users == Tails \cup Calls

VARIABLE pc

\* "preflight", "first", "second" and "lost" wait for a connection, "second"
\* with one in hand, "lost" after that one was taken away; "last" is work on a
\* second connection of a call that has yet to find out.
States == {"away", "preflight", "work", "first", "streaming", "second",
           "checking", "waiting", "lost", "last"}
Waiting == {"preflight", "first", "second", "lost"}

One == {u \in Users :
          pc[u] \in {"work", "streaming", "second", "checking", "waiting", "last"}}
Two == {u \in Users : pc[u] = "checking"}
InUse == Cardinality(One) + Cardinality(Two)
Goes(u, from, to) == pc[u] = from /\ pc' = [pc EXCEPT ![u] = to]

PoolInit == pc = [u \in Users |-> "away"]

\* A request arrives; the tail's first checks are a call like any other.
Arrive(u) == Goes(u, "away", "preflight")

\* The second connection does not count against the pool.
GrantedSlip(u) == pc[u] = "second" \/ InUse < PoolSize

\* pool.acquire() returns
Granted(u) == InUse < PoolSize

Grant(u) ==
    /\ Granted(u)
    /\ \/ Goes(u, "preflight", "work")
       \/ Goes(u, "first", "streaming")
       \/ Goes(u, "second", "checking")
       \/ Goes(u, "lost", "last")

\* A call that is through gives its connection back.
Finish(u) ==
    \/ u \in Calls /\ (Goes(u, "work", "away") \/ Goes(u, "last", "away"))
    \/ u \in Tails /\ Goes(u, "work", "first")

\* A tail: still_authorized, at the top of the loop and before each row.
\* A call: _vault_id, get_current_reference and delete_resource for each
\* document, the query of the snapshot, index_table_metadata for each table.
\* A deletion may do the rest of these for a document before it uses the
\* first connection again, which is gone.
Ask(u) ==
    \/ u \in Tails /\ Goes(u, "streaming", "second")
    \/ u \in Nested /\ Goes(u, "work", "second")
    \/ u \in Atomic /\ Goes(u, "last", "lost")

\* The second connection goes back.  With the answer the tail looks for rows,
\* or gives up; a call goes on to the next document or table, or to its end.
Answer(u) ==
    \/ u \in Tails /\ (Goes(u, "checking", "waiting") \/ Goes(u, "checking", "away"))
    \/ u \in Nested /\ Goes(u, "checking", "work")

\* Transactions may be idle for ever.
ReapSlip(u) == FALSE /\ UNCHANGED pc

\* The session of a transaction that is idle while its caller waits for, or
\* works on, another connection is ended.
Reap(u) == u \in Atomic /\ (Goes(u, "second", "lost") \/ Goes(u, "checking", "last"))

\* A row to send, a wakeup or a heartbeat
Resume(t) == Goes(t, "waiting", "streaming")

\* The client goes away: what it asked for is cancelled, waiting or not.
Disconnect(u) ==
    /\ pc[u] # "away"
    /\ pc' = [pc EXCEPT ![u] = "away"]

-----------------------------------------------------------------------------
(* The values of pc, and the pool's size.                                  *)
PoolTypeOK ==
    /\ pc \in [Users -> States]
    /\ \A c \in Calls \ Nested : pc[c] \in {"away", "preflight", "work"}
    /\ InUse <= PoolSize

(* Whoever waits for a connection gets one, although role_authority.py:6   *)
(* is not obeyed: those that wait with one in hand and no open transaction *)
(* (tails and migrations) must be fewer than connections, and whoever      *)
(* holds one in an idle transaction has it taken away.                     *)
Served == \A u \in Users : pc[u] \in Waiting ~> pc[u] \notin Waiting
=============================================================================
