---------------------------- MODULE EventOutbox ----------------------------
(***************************************************************************)
(* The publisher that drains the events table into a Redis stream: it      *)
(* claims due rows under a lease, adds each to the stream, and marks it    *)
(* published; a failure backs the row off, returns the rest of the batch,  *)
(* and gives a row up when its attempts are used up.  The queue rescuer    *)
(* gives up rows whose last claim died.                                    *)
(*                                                                         *)
(* The clock is abstracted: a row that is not due may become due at any    *)
(* moment, so a lease can run out under a worker that is still at work.    *)
(* claimed_at is the worker that claimed last; two claims of one worker    *)
(* never compete for a row.                                                *)
(*                                                                         *)
(* A definition whose name ends in Slip belongs to no specification: it is *)
(* the form a plausible bug would give the definition that follows it.     *)
(***************************************************************************)
EXTENDS Integers, FiniteSets

CONSTANTS
    Events,       \* events that will be committed
    Suppressed,   \* bookkeeping of the gardener: marked, never streamed
    Workers,      \* publishers, one per worker process
    BatchSize,    \* BATCH_SIZE
    MaxRetries,   \* MAX_RETRIES
    MaxFaults,    \* bound: failed XADDs and lost workers
    Crashes,      \* whether workers are lost
    Nobody        \* claimed_at IS NULL

ASSUME OutboxConstants ==
    /\ Suppressed \subseteq Events
    /\ {BatchSize, MaxRetries} \subseteq Nat \ {0}
    /\ MaxFaults \in Nat
    /\ Crashes \in BOOLEAN
    /\ Nobody \notin Workers \cup Events
    /\ IsFiniteSet(Workers)

VARIABLES
    rows,         \* the events table
    workers,      \* what each publisher is doing
    stream,       \* how often each event was added to the stream
    faults        \* faults so far

vars == <<rows, workers, stream, faults>>

Row == [state     : {"absent", "stored", "swept"},
        published : BOOLEAN,                 \* redis_published_at
        abandoned : BOOLEAN,                 \* abandoned_at
        attempts  : 0..MaxRetries,
        due       : BOOLEAN,                 \* next_attempt_at <= NOW(), or NULL
        claim     : Workers \cup {Nobody}]   \* claimed_at

\* row is the event in hand, attempts what its claim returned, batch the rest.
Worker == [pc       : {"idle", "connect", "next", "add", "mark", "fail", "release"},
           row      : Events \cup {Nobody},
           attempts : [Events -> 0..MaxRetries],
           batch    : SUBSET Events]

NoRow == [state |-> "absent", published |-> FALSE, abandoned |-> FALSE,
          attempts |-> 0, due |-> TRUE, claim |-> Nobody]

Idle == [pc |-> "idle", row |-> Nobody, attempts |-> [e \in Events |-> 0], batch |-> {}]

Init ==
    /\ rows = [e \in Events |-> NoRow]
    /\ workers = [w \in Workers |-> Idle]
    /\ stream = [e \in Events |-> 0]
    /\ faults = 0

-----------------------------------------------------------------------------
Store(e) ==
    /\ rows[e].state = "absent"
    /\ rows' = [rows EXCEPT ![e].state = "stored"]
    /\ UNCHANGED <<workers, stream, faults>>

\* A lease or a backoff runs out.
Elapse(e) ==
    /\ ~rows[e].due
    /\ rows' = [rows EXCEPT ![e].due = TRUE]
    /\ UNCHANGED <<workers, stream, faults>>

\* Forgets that attempts run out.
ClaimableSlip(e) ==
    /\ rows[e].state = "stored"
    /\ ~rows[e].published
    /\ ~rows[e].abandoned
    /\ rows[e].due

Claimable(e) ==
    /\ rows[e].state = "stored"
    /\ ~rows[e].published
    /\ ~rows[e].abandoned
    /\ rows[e].due
    /\ rows[e].attempts < MaxRetries

\* Leaves the attempt uncounted.
ClaimedSlip(e, w) == [rows[e] EXCEPT !.due = FALSE, !.claim = w]

Claimed(e, w) == [rows[e] EXCEPT !.due = FALSE, !.claim = w, !.attempts = @ + 1]

\* _claim_batch: LIMIT and SKIP LOCKED may leave any row for a later claim.
Claim(w, S) ==
    /\ workers[w].pc = "idle"
    /\ S # {}
    /\ Cardinality(S) <= BatchSize
    /\ \A e \in S : Claimable(e)
    /\ rows' = [e \in Events |-> IF e \in S THEN Claimed(e, w) ELSE rows[e]]
    /\ workers' = [workers EXCEPT ![w] =
           [pc |-> "connect", row |-> Nobody, batch |-> S,
            attempts |-> [e \in Events |-> IF e \in S THEN rows'[e].attempts ELSE 0]]]
    /\ UNCHANGED <<stream, faults>>

\* The client cannot be built: charged to the first row of the batch.
ConnectFails(w, e) ==
    /\ workers[w].pc = "connect"
    /\ e \in workers[w].batch
    /\ faults < MaxFaults
    /\ faults' = faults + 1
    /\ workers' = [workers EXCEPT ![w].row = e, ![w].batch = @ \ {e}, ![w].pc = "fail"]
    /\ UNCHANGED <<rows, stream>>

\* Suppressed rows skip the stream.
Take(w, e) ==
    /\ workers[w].pc \in {"connect", "next"}
    /\ e \in workers[w].batch
    /\ workers' = [workers EXCEPT ![w].row = e,
                                  ![w].batch = @ \ {e},
                                  ![w].pc = IF e \in Suppressed THEN "mark" ELSE "add"]
    /\ UNCHANGED <<rows, stream, faults>>

Added(w) == [stream EXCEPT ![workers[w].row] = @ + 1]

Add(w) ==
    /\ workers[w].pc = "add"
    /\ stream' = Added(w)
    /\ workers' = [workers EXCEPT ![w].pc = "mark"]
    /\ UNCHANGED <<rows, faults>>

\* Swallows the exception of XADD.
AddFailsSlip(w) ==
    /\ workers[w].pc = "add"
    /\ faults < MaxFaults
    /\ faults' = faults + 1
    /\ stream' \in {stream, Added(w)}
    /\ workers' = [workers EXCEPT ![w].pc = "mark"]
    /\ UNCHANGED rows

\* XADD raises, whether or not Redis took the entry.
AddFails(w) ==
    /\ workers[w].pc = "add"
    /\ faults < MaxFaults
    /\ faults' = faults + 1
    /\ stream' \in {stream, Added(w)}
    /\ workers' = [workers EXCEPT ![w].pc = "fail"]
    /\ UNCHANGED rows

\* _mark_published
Mark(w) ==
    /\ workers[w].pc = "mark"
    /\ rows' = [rows EXCEPT ![workers[w].row] =
           [@ EXCEPT !.published = TRUE, !.abandoned = FALSE, !.attempts = 0,
                     !.due = TRUE, !.claim = Nobody]]
    /\ workers' = [workers EXCEPT ![w] =
           IF @.batch = {} THEN Idle ELSE [@ EXCEPT !.pc = "next", !.row = Nobody]]
    /\ UNCHANGED <<stream, faults>>

\* Counts attempts from zero.
TerminalSlip(w) == workers[w].attempts[workers[w].row] + 1 >= MaxRetries

\* Judged by the count the claim returned.
Terminal(w) == workers[w].attempts[workers[w].row] >= MaxRetries

\* _mark_failure; no fence: the row may be another worker's by now, or done.
Fail(w) ==
    LET e == workers[w].row
    IN  /\ workers[w].pc = "fail"
        /\ rows' = [rows EXCEPT ![e].due = Terminal(w), ![e].claim = Nobody,
                                ![e].abandoned = Terminal(w)]
        /\ workers' = [workers EXCEPT ![w].pc = "release", ![w].row = Nobody]
        /\ UNCHANGED <<stream, faults>>

\* Returns the batch whatever became of its rows.
ReleasedSlip(w) == workers[w].batch

\* What the worker still holds of its batch.
Released(w) ==
    {e \in workers[w].batch :
        /\ ~rows[e].published
        /\ ~rows[e].abandoned
        /\ rows[e].claim = w}

\* _release_unattempted gives the attempt back.
Release(w) ==
    /\ workers[w].pc = "release"
    /\ rows' = [e \in Events |->
           IF e \in Released(w)
             THEN [rows[e] EXCEPT !.attempts = IF @ = 0 THEN 0 ELSE @ - 1,
                                  !.due = TRUE, !.claim = Nobody]
             ELSE rows[e]]
    /\ workers' = [workers EXCEPT ![w] = Idle]
    /\ UNCHANGED <<stream, faults>>

\* The process dies, or a database call raises and the tick drops its batch.
Crash(w) ==
    /\ Crashes
    /\ workers[w].pc # "idle"
    /\ faults < MaxFaults
    /\ faults' = faults + 1
    /\ workers' = [workers EXCEPT ![w] = Idle]
    /\ UNCHANGED <<rows, stream>>

\* Waits for one attempt more than a claim allows.
RescuableSlip(e) ==
    /\ rows[e].state = "stored"
    /\ ~rows[e].published
    /\ ~rows[e].abandoned
    /\ rows[e].attempts > MaxRetries
    /\ rows[e].due

Rescuable(e) ==
    /\ rows[e].state = "stored"
    /\ ~rows[e].published
    /\ ~rows[e].abandoned
    /\ rows[e].attempts >= MaxRetries
    /\ rows[e].due

\* _rescue_once
Rescue ==
    /\ \E e \in Events : Rescuable(e)
    /\ rows' = [e \in Events |->
           IF Rescuable(e) THEN [rows[e] EXCEPT !.abandoned = TRUE, !.claim = Nobody]
           ELSE rows[e]]
    /\ UNCHANGED <<workers, stream, faults>>

\* _sweep_once, seven days after publication: no worker has held the row so long.
Sweep(S) ==
    /\ S # {}
    /\ \A e \in S :
         /\ rows[e].state = "stored"
         /\ rows[e].published
         /\ \A w \in Workers : e # workers[w].row /\ e \notin workers[w].batch
    /\ rows' = [e \in Events |->
           IF e \in S THEN [rows[e] EXCEPT !.state = "swept"] ELSE rows[e]]
    /\ UNCHANGED <<workers, stream, faults>>

-----------------------------------------------------------------------------
Work(w) ==
    \/ \E e \in Events : Take(w, e)
    \/ Add(w)
    \/ Mark(w)
    \/ Fail(w)
    \/ Release(w)

Next ==
    \/ \E e \in Events : Store(e) \/ Elapse(e)
    \/ \E S \in SUBSET Events :
         \/ \E w \in Workers : Claim(w, S)
         \/ Sweep(S)
    \/ \E w \in Workers :
         \/ Work(w)
         \/ AddFails(w)
         \/ \E e \in Events : ConnectFails(w, e)
         \/ Crash(w)
    \/ Rescue

(* A worker's loop runs on and claims new rows, then old ones in the order *)
(* they fell due, so that among finitely many no row is passed over for    *)
(* ever; time passes.  Redis may fail and workers may be lost whenever the *)
(* bound allows.                                                           *)
Fairness ==
    /\ \A w \in Workers : WF_vars(Work(w))
    /\ \A e \in Events :
         /\ WF_vars(Elapse(e))
         /\ SF_vars(\E w \in Workers, S \in SUBSET Events : e \in S /\ Claim(w, S))
    /\ WF_vars(Rescue)

Spec == Init /\ [][Next]_vars /\ Fairness

-----------------------------------------------------------------------------
(* The values of each variable.                                            *)
TypeOK ==
    /\ rows \in [Events -> Row]
    /\ workers \in [Workers -> Worker]
    /\ stream \in [Events -> Nat]
    /\ faults \in 0..MaxFaults

(* Every variable has its type, and stream and table agree: an event is    *)
(* marked published only once it is in the stream, and only stored,        *)
(* unsuppressed events are in it.                                          *)
StreamTrue ==
    TypeOK /\ \A e \in Events :
        /\ stream[e] > 0 => rows[e].state # "absent" /\ e \notin Suppressed
        /\ rows[e].published => stream[e] > 0 \/ e \in Suppressed

(* However workers stall, die and overlap, consumers see an event no more  *)
(* often than it may be attempted.                                         *)
BoundedCopies == \A e \in Events : stream[e] <= MaxRetries

(* An event is given up only when all its attempts were charged: returning *)
(* a batch never touches a row that someone else took over or gave up.     *)
GivenUpWhenSpent ==
    \A e \in Events :
        rows[e].abandoned /\ ~rows[e].published => rows[e].attempts = MaxRetries

(* Every event comes to rest: published, or given up for an operator to    *)
(* see.  None is left claimed by the dead.                                 *)
Settles ==
    \A e \in Events :
        rows[e].state = "stored" ~> [](rows[e].published \/ rows[e].abandoned)
=============================================================================
