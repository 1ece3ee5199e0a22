----------------------------- MODULE WriteLane -----------------------------
(***************************************************************************)
(* Admission of writes that commit to Git (write_lane.py), composed with   *)
(* the connection pool of their process.  A write passes the gate of its   *)
(* vault, takes one of the slots of the process, and only then asks for a  *)
(* connection; its commit runs in a thread of an executor that has as many *)
(* threads as there are slots.  A chore (init_vault, cleanup_vault_dirs)   *)
(* takes a slot without a gate, a connection or a deadline.  A thread      *)
(* cannot be interrupted: a caller cancelled during its commit stays until *)
(* the thread is done, but its connection need not: PostgreSQL ends the    *)
(* session of a transaction that waits too long for its commit.            *)
(*                                                                         *)
(* asyncio's Lock and Semaphore are taken to do what they promise.  They   *)
(* belong to one event loop, so what happens between two awaits is one     *)
(* step.                                                                   *)
(*                                                                         *)
(* A definition whose name ends in Slip belongs to no specification: it is *)
(* the form a plausible bug would give the definition that follows it.     *)
(***************************************************************************)
EXTENDS ConnectionPool

CONSTANTS
    Writes,       \* calls that write documents
    Chores,       \* bound: calls of run_git_write outside any lane at one time
    VaultOf,      \* the vault each write is for
    Concurrency,  \* write_lane_concurrency
    MaxWaiters    \* write_lane_max_waiters

ASSUME LaneConstants ==
    /\ Writes \subseteq Calls \ Nested /\ Chores \cap Users = {}
    /\ Writes = DOMAIN VaultOf
    /\ IsFiniteSet(Chores)
    /\ Concurrency \in Nat \ {0} /\ MaxWaiters \in Nat

Jobs == Writes \cup Chores
Vaults == {VaultOf[w] : w \in Writes}
Readers == Calls \ Writes

VARIABLES
    stage,     \* how far each job is
    cancelled, \* jobs whose caller is cancelled and has not been told
    gates,     \* _vault_gates: those that are locked
    slots,     \* _global_slots: what is left of the semaphore
    waiters,   \* _waiters
    threads    \* what the executor does for each job

lane == <<stage, cancelled, gates, slots, waiters, threads>>
laneVars == <<pc, lane>>

\* A chore that must_complete is "owed" from its call on.
Stages == {"idle", "gate", "slot", "owed", "inside", "commit", "leaving"}

LaneInit ==
    /\ PoolInit
    /\ stage = [j \in Jobs |-> "idle"]
    /\ cancelled = {} /\ gates = {} /\ slots = Concurrency /\ waiters = 0
    /\ threads = [j \in Jobs |-> "none"]

To(j, s) == stage' = [stage EXCEPT ![j] = s]

-----------------------------------------------------------------------------
(* Writes. *)

(* Past the backstop a write is refused, and nothing has changed.          *)
Enter(w) ==
    /\ stage[w] = "idle" /\ pc[w] = "away" /\ waiters < MaxWaiters
    /\ To(w, "gate") /\ waiters' = waiters + 1
    /\ UNCHANGED <<pc, cancelled, gates, slots, threads>>

TakeGate(w) ==
    /\ stage[w] = "gate" /\ VaultOf[w] \notin gates
    /\ gates' = gates \cup {VaultOf[w]}
    /\ To(w, "slot")
    /\ UNCHANGED <<pc, cancelled, slots, waiters, threads>>

\* The connection is asked for before the slot.
TakeSlotSlip(w) ==
    \/ /\ stage[w] = "slot" /\ pc[w] = "away" /\ Arrive(w)
       /\ UNCHANGED lane
    \/ /\ stage[w] = "slot" /\ pc[w] = "work" /\ slots > 0
       /\ slots' = slots - 1 /\ waiters' = waiters - 1
       /\ To(w, "inside")
       /\ UNCHANGED <<pc, cancelled, gates, threads>>

(* Now, and not before, the write asks for its connection. *)
TakeSlot(w) ==
    /\ stage[w] = "slot" /\ slots > 0
    /\ slots' = slots - 1 /\ waiters' = waiters - 1
    /\ To(w, "inside")
    /\ Arrive(w)
    /\ UNCHANGED <<cancelled, gates, threads>>

\* The gate is released only by those that were given a slot.
GiveUpSlip(w) ==
    /\ stage[w] \in {"gate", "slot"}
    /\ waiters' = waiters - 1
    /\ To(w, "idle")
    /\ UNCHANGED <<pc, cancelled, gates, slots, threads>>

(* The deadline of both waits passes, or the caller is cancelled there.    *)
GiveUp(w) ==
    /\ stage[w] \in {"gate", "slot"}
    /\ waiters' = waiters - 1
    /\ gates' = IF stage[w] = "slot" THEN gates \ {VaultOf[w]} ELSE gates
    /\ To(w, "idle")
    /\ UNCHANGED <<pc, cancelled, slots, threads>>

(* The path locks are taken, the request is checked; then the commit.      *)
Commit(w) ==
    /\ stage[w] = "inside" /\ pc[w] = "work"
    /\ To(w, "commit")
    /\ threads' = [threads EXCEPT ![w] = "queued"]
    /\ UNCHANGED <<pc, cancelled, gates, slots, waiters>>

(* The write is refused, fails or is cancelled before its commit, with a   *)
(* connection or on its way to one.                                        *)
Abort(w) ==
    /\ stage[w] = "inside"
    /\ Disconnect(w)
    /\ To(w, "leaving")
    /\ UNCHANGED <<cancelled, gates, slots, waiters, threads>>

\* Transactions that commit may be idle for ever.
ReapCommitSlip(w) == FALSE /\ UNCHANGED laneVars

(* The transaction was idle too long: the connection goes back to the      *)
(* pool, and the caller learns of it when the thread is done.              *)
ReapCommit(w) ==
    /\ stage[w] = "commit" /\ Goes(w, "work", "away")
    /\ UNCHANGED lane

(* The thread is done: the transaction commits, or is rolled back for a    *)
(* caller that was cancelled meanwhile, or is gone.  What is left of it    *)
(* goes back to the pool.                                                  *)
Conclude(w) ==
    /\ stage[w] = "commit" /\ threads[w] = "done"
    /\ pc' = [pc EXCEPT ![w] = "away"]
    /\ To(w, "leaving")
    /\ cancelled' = cancelled \ {w}
    /\ threads' = [threads EXCEPT ![w] = "none"]
    /\ UNCHANGED <<gates, slots, waiters>>

Leave(w) ==
    /\ stage[w] = "leaving"
    /\ slots' = slots + 1
    /\ gates' = gates \ {VaultOf[w]}
    /\ To(w, "idle")
    /\ UNCHANGED <<pc, cancelled, waiters, threads>>

-----------------------------------------------------------------------------
(* Chores, and the executor. *)

StartChore(c) ==
    /\ stage[c] = "idle"
    /\ \E s \in {"slot", "owed"} : To(c, s)
    /\ UNCHANGED <<pc, cancelled, gates, slots, waiters, threads>>

\* Outside the lane no slot is taken.
TakeChoreSlotSlip(c) ==
    /\ stage[c] \in {"slot", "owed"}
    /\ To(c, "commit")
    /\ threads' = [threads EXCEPT ![c] = "queued"]
    /\ UNCHANGED <<pc, cancelled, gates, slots, waiters>>

TakeChoreSlot(c) ==
    /\ stage[c] \in {"slot", "owed"} /\ slots > 0
    /\ slots' = slots - 1
    /\ To(c, "commit")
    /\ threads' = [threads EXCEPT ![c] = "queued"]
    /\ UNCHANGED <<pc, cancelled, gates, waiters>>

ConcludeChore(c) ==
    /\ stage[c] = "commit" /\ threads[c] = "done"
    /\ slots' = slots + 1
    /\ cancelled' = cancelled \ {c}
    /\ To(c, "idle")
    /\ threads' = [threads EXCEPT ![c] = "none"]
    /\ UNCHANGED <<pc, gates, waiters>>

Absorb(j) ==
    /\ j \notin cancelled
    /\ cancelled' = cancelled \cup {j}
    /\ UNCHANGED <<pc, stage, gates, slots, waiters, threads>>

StopWaiting(c) ==
    /\ To(c, "idle")
    /\ UNCHANGED <<pc, cancelled, gates, slots, waiters, threads>>

\* Only the commit is protected, not the wait for a slot.
CancelWaitSlip(j) ==
    \/ stage[j] = "commit" /\ Absorb(j)
    \/ j \in Chores /\ stage[j] \in {"slot", "owed"} /\ StopWaiting(j)

\* asyncio.shield alone: the caller unwinds while its thread goes on.
CancelShieldSlip(j) ==
    \/ /\ j \in Writes /\ stage[j] = "commit" /\ pc[j] = "work"
       /\ pc' = [pc EXCEPT ![j] = "away"]
       /\ To(j, "leaving")
       /\ UNCHANGED <<cancelled, gates, slots, waiters, threads>>
    \/ j \in Chores /\ stage[j] \in {"owed", "commit"} /\ Absorb(j)
    \/ j \in Chores /\ stage[j] = "slot" /\ StopWaiting(j)

(* A caller is cancelled in its commit, or waiting for a slot outside the  *)
(* lane: work that must complete goes on, and the cancellation waits.      *)
Cancel(j) ==
    \/ stage[j] \in {"owed", "commit"} /\ Absorb(j)
    \/ j \in Chores /\ stage[j] = "slot" /\ StopWaiting(j)

Running == {j \in Jobs : threads[j] = "running"}

RunThread(j) ==
    /\ threads[j] = "queued" /\ Cardinality(Running) < Concurrency
    /\ threads' = [threads EXCEPT ![j] = "running"]
    /\ UNCHANGED <<pc, stage, cancelled, gates, slots, waiters>>

EndThread(j) ==
    /\ threads[j] = "running"
    /\ threads' = [threads EXCEPT ![j] = "done"]
    /\ UNCHANGED <<pc, stage, cancelled, gates, slots, waiters>>

-----------------------------------------------------------------------------
(* The other users of the pool, and the pool. *)
Other ==
    \/ \E u \in Users \ Writes : Arrive(u) \/ Finish(u) \/ Disconnect(u)
    \/ \E u \in Users : Grant(u) \/ Ask(u) \/ Answer(u) \/ Reap(u)
    \/ \E t \in Tails : Resume(t)

Write(w) ==
    \/ Enter(w) \/ TakeGate(w) \/ TakeSlot(w) \/ GiveUp(w)
    \/ Commit(w) \/ Abort(w) \/ ReapCommit(w) \/ Conclude(w) \/ Leave(w)

Chore(c) == StartChore(c) \/ TakeChoreSlot(c) \/ ConcludeChore(c)

LaneNext ==
    \/ \E w \in Writes : Write(w)
    \/ \E c \in Chores : Chore(c)
    \/ \E j \in Jobs : Cancel(j) \/ RunThread(j) \/ EndThread(j)
    \/ Other /\ UNCHANGED lane

(* Deadlines pass, statements end, PostgreSQL keeps its timeouts,          *)
(* coroutines run, the pool and the semaphore pass over no waiter for      *)
(* ever.  Nothing obliges a thread to end.                                 *)
LaneFairness ==
    /\ \A u \in Users : SF_laneVars(Grant(u) /\ UNCHANGED lane)
    /\ \A u \in Users \ Writes : WF_laneVars(Finish(u) /\ UNCHANGED lane)
    /\ \A u \in Users : WF_laneVars(Answer(u) /\ UNCHANGED lane)
    /\ \A t \in Tails : WF_laneVars(Ask(t) /\ UNCHANGED lane)
    /\ \A u \in Atomic : WF_laneVars(Reap(u) /\ UNCHANGED lane)
    /\ \A w \in Writes :
         /\ WF_laneVars(GiveUp(w))
         /\ WF_laneVars(Commit(w)) /\ WF_laneVars(ReapCommit(w))
         /\ WF_laneVars(Conclude(w)) /\ WF_laneVars(Leave(w))
    /\ \A c \in Chores : SF_laneVars(TakeChoreSlot(c)) /\ WF_laneVars(ConcludeChore(c))
    /\ \A j \in Jobs : WF_laneVars(RunThread(j))

LaneSpec == LaneInit /\ [][LaneNext]_laneVars /\ LaneFairness

-----------------------------------------------------------------------------
(* The variables of the lane, and those of the pool, have their types.     *)
LaneTypeOK ==
    /\ PoolTypeOK
    /\ stage \in [Jobs -> Stages]
    /\ cancelled \subseteq Jobs
    /\ gates \subseteq Vaults
    /\ slots \in 0..Concurrency
    /\ waiters \in Nat
    /\ threads \in [Jobs -> {"none", "queued", "running", "done"}]

(* Every variable has its type; and through deadlines and cancellations at *)
(* every await, no gate, slot or count is leaked or given back twice.      *)
Admitted == {j \in Jobs : stage[j] \in {"inside", "commit", "leaving"}}
Gated == {w \in Writes : stage[w] \in {"slot", "inside", "commit", "leaving"}}
Accounted ==
    /\ LaneTypeOK
    /\ slots + Cardinality(Admitted) = Concurrency
    /\ gates = {VaultOf[w] : w \in Gated}
    /\ \A v, w \in Gated : VaultOf[v] = VaultOf[w] => v = w
    /\ waiters = Cardinality({w \in Writes : stage[w] \in {"gate", "slot"}})

(* Connections of writes and threads share one budget.  The rest of the    *)
(* pool is left to the readers, a thread that is asked for finds one free, *)
(* and a writer never waits for a slot or a thread with a connection, ...  *)
WithinLane ==
    Cardinality((Writes \cap One) \cup {j \in Jobs : threads[j] # "none"}) <= Concurrency

(* ... and never for the Git lock of its vault behind another write, not   *)
(* even behind one whose caller is gone.                                   *)
OneCommitPerVault ==
    \A v, w \in Writes :
        /\ v # w /\ VaultOf[v] = VaultOf[w]
        /\ threads[v] \in {"queued", "running"}
        => threads[w] \notin {"queued", "running"}

(* If commits end, work that must complete is done, whoever was cancelled. *)
Compensated ==
    (\A j \in Jobs : []<>(threads[j] # "running")) =>
        \A c \in Chores : stage[c] = "owed" ~> threads[c] = "done"
=============================================================================
