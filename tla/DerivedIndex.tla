---------------------------- MODULE DerivedIndex ----------------------------
(***************************************************************************)
(* The searchable projection of the ledger.  Every commit of the ledger    *)
(* leaves an invalidation intent for its revision; workers claim intents   *)
(* under a lease and rewrite the chunks of the resource, after a second    *)
(* look at its Head under a row lock.  An intent that the Head has left    *)
(* behind is closed as superseded.                                         *)
(*                                                                         *)
(* The ledger is the abstract one: Publish(r) makes a new Head.  Revisions *)
(* of a resource are numbered in the order of their commits; an intent is  *)
(* named by its resource and revision.                                     *)
(*                                                                         *)
(* A definition whose name ends in Slip belongs to no specification: it is *)
(* the form a plausible bug would give the definition that follows it.     *)
(***************************************************************************)
EXTENDS Integers, Sequences, SequencesExt

CONSTANTS
    Resources,    \* admitted documents and text files
    MaxRev,       \* bound: revisions of a resource
    Workers,      \* embed worker tasks, of one process or of several
    MaxRetries,   \* MAX_RETRIES
    MaxFaults,    \* bound: failed deliveries and lost workers
    Skew          \* bound: how many stamps a process's clock lags behind

ASSUME DerivedConstants ==
    /\ Resources # {}
    /\ {MaxRev, MaxRetries} \subseteq Nat \ {0}
    /\ {MaxFaults, Skew} \subseteq Nat

Revs == 1..MaxRev

VARIABLES
    head,         \* head_revision_id of each resource, 0 before its creation
    live,         \* lifecycle
    stamps,       \* a resource's revisions by (occurred_at, intent_id)
    intents,      \* native_invalidation_intents
    derived,      \* the revision in native_derived_heads and its chunks, 0: none
    workers,
    faults

ledger == <<head, live, stamps>>
vars == <<head, live, stamps, intents, derived, workers, faults>>

Intent == [outcome  : {"none", "pending", "applied", "superseded", "deleted", "abandoned"},
           attempts : 0..MaxRetries,
           due      : BOOLEAN]

Worker == [pc       : {"idle", "select", "claimed", "complete", "live", "delete", "fail"},
           resource : Resources,
           rev      : 0..MaxRev,
           attempts : 0..MaxRetries]

NoIntent == [outcome |-> "none", attempts |-> 0, due |-> TRUE]
NewIntent == [outcome |-> "pending", attempts |-> 0, due |-> TRUE]
Closed(outcome) == [outcome |-> outcome, attempts |-> 0, due |-> TRUE]

Idle == [pc |-> "idle", resource |-> CHOOSE r \in Resources : TRUE,
         rev |-> 0, attempts |-> 0]

Init ==
    /\ head = [r \in Resources |-> 0]
    /\ live = [r \in Resources |-> FALSE]
    /\ stamps = [r \in Resources |-> <<>>]
    /\ intents = [r \in Resources |-> [v \in Revs |-> NoIntent]]
    /\ derived = [r \in Resources |-> 0]
    /\ workers = [w \in Workers |-> Idle]
    /\ faults = 0

Pending(r, v) == intents[r][v].outcome = "pending"
AtHead(w) == head[workers[w].resource] = workers[w].rev

-----------------------------------------------------------------------------
(* The ledger commits a revision, live or the deletion of a live resource, *)
(* and its intent, stamped by the clock of the process that writes.        *)
Publish(r, alive) ==
    /\ head[r] < MaxRev
    /\ alive \/ live[r]
    /\ head' = [head EXCEPT ![r] = @ + 1]
    /\ live' = [live EXCEPT ![r] = alive]
    /\ \E k \in 0..Skew :
         /\ k <= Len(stamps[r])
         /\ stamps' = [stamps EXCEPT ![r] = InsertAt(@, Len(@) + 1 - k, head[r] + 1)]
    /\ intents' = [intents EXCEPT ![r][head[r] + 1] = NewIntent]
    /\ UNCHANGED <<derived, workers, faults>>

\* A lease or a backoff runs out.
Elapse(r, v) ==
    /\ Pending(r, v)
    /\ ~intents[r][v].due
    /\ intents' = [intents EXCEPT ![r][v].due = TRUE]
    /\ UNCHANGED <<ledger, derived, workers, faults>>

-----------------------------------------------------------------------------
\* Keeps the oldest pending intent instead of the newest.
OutrankedSlip(r, v) ==
    /\ Pending(r, v)
    /\ \E i, j \in DOMAIN stamps[r] :
         i < j /\ stamps[r][j] = v /\ Pending(r, stamps[r][i])

\* Of a resource's pending intents, all but the last by stamp.
Outranked(r, v) ==
    /\ Pending(r, v)
    /\ \E i, j \in DOMAIN stamps[r] :
         i < j /\ stamps[r][i] = v /\ Pending(r, stamps[r][j])

\* _claim_one, its first statement; the rows it closes stay locked until the
\* claim commits, so that to the others they are closed from here on.
CloseOutranked(w) ==
    /\ workers[w].pc = "idle"
    /\ \E r \in Resources, v \in Revs : Pending(r, v)
    /\ intents' = [r \in Resources |-> [v \in Revs |->
           IF Outranked(r, v) THEN Closed("superseded") ELSE intents[r][v]]]
    /\ workers' = [workers EXCEPT ![w].pc = "select"]
    /\ UNCHANGED <<ledger, derived, faults>>

\* Forgets that attempts run out.
ClaimableSlip(r, v) ==
    /\ Pending(r, v)
    /\ intents[r][v].due

Claimable(r, v) ==
    /\ Pending(r, v)
    /\ intents[r][v].due
    /\ intents[r][v].attempts < MaxRetries

\* _claim_one, the rest: any intent, for SKIP LOCKED may pass over older ones.
Claim(w, r, v) ==
    /\ workers[w].pc = "select"
    /\ Claimable(r, v)
    /\ intents' = [intents EXCEPT ![r][v].due = FALSE, ![r][v].attempts = @ + 1]
    /\ workers' = [workers EXCEPT ![w] = [pc |-> "claimed", resource |-> r, rev |-> v,
                                          attempts |-> intents'[r][v].attempts]]
    /\ UNCHANGED <<ledger, derived, faults>>

NothingDue(w) ==
    /\ workers[w].pc = "select"
    /\ \A r \in Resources, v \in Revs : ~Claimable(r, v)
    /\ workers' = [workers EXCEPT ![w] = Idle]
    /\ UNCHANGED <<ledger, intents, derived, faults>>

\* process_once reads the Head, with no lock, and decides what to do.
ReadHead(w) ==
    /\ workers[w].pc = "claimed"
    /\ workers' = [workers EXCEPT ![w].pc =
           IF ~AtHead(w) THEN "complete"
           ELSE IF live[workers[w].resource] THEN "live" ELSE "delete"]
    /\ UNCHANGED <<ledger, intents, derived, faults>>

\* Closes the intent, whoever holds it now.
Close(w, outcome) ==
    /\ intents' = [intents EXCEPT ![workers[w].resource][workers[w].rev] = Closed(outcome)]
    /\ workers' = [workers EXCEPT ![w] = Idle]

\* _complete
Complete(w) ==
    /\ workers[w].pc = "complete"
    /\ Close(w, "superseded")
    /\ UNCHANGED <<ledger, derived, faults>>

\* Trusts the first look at the Head.
ApplyLiveSlip(w) ==
    /\ workers[w].pc = "live"
    /\ Close(w, "applied")
    /\ derived' = [derived EXCEPT ![workers[w].resource] = workers[w].rev]
    /\ UNCHANGED <<ledger, faults>>

\* _apply_live, after the body was read and cut into chunks
ApplyLive(w) ==
    LET r == workers[w].resource
    IN  /\ workers[w].pc = "live"
        /\ IF live[r] /\ AtHead(w)
             THEN /\ Close(w, "applied")
                  /\ derived' = [derived EXCEPT ![r] = workers[w].rev]
             ELSE /\ Close(w, "superseded")
                  /\ UNCHANGED derived
        /\ UNCHANGED <<ledger, faults>>

\* _apply_delete
ApplyDelete(w) ==
    LET r == workers[w].resource
    IN  /\ workers[w].pc = "delete"
        /\ IF ~live[r] /\ AtHead(w)
             THEN /\ Close(w, "deleted")
                  /\ derived' = [derived EXCEPT ![r] = 0]
             ELSE /\ Close(w, "superseded")
                  /\ UNCHANGED derived
        /\ UNCHANGED <<ledger, faults>>

\* A step of the delivery raises: an unreadable body, a lost connection.
Raise(w) ==
    /\ workers[w].pc \in {"claimed", "complete", "live", "delete"}
    /\ faults < MaxFaults
    /\ faults' = faults + 1
    /\ workers' = [workers EXCEPT ![w].pc = "fail"]
    /\ UNCHANGED <<ledger, intents, derived>>

\* An intent another worker has closed stays closed.
Failed(w, i) ==
    IF i.outcome # "pending" THEN i
    ELSE IF workers[w].attempts >= MaxRetries
      THEN [i EXCEPT !.outcome = "abandoned", !.due = TRUE]
    ELSE [i EXCEPT !.due = FALSE]

\* _failure
Fail(w) ==
    /\ workers[w].pc = "fail"
    /\ intents' = [intents EXCEPT ![workers[w].resource][workers[w].rev] = Failed(w, @)]
    /\ workers' = [workers EXCEPT ![w] = Idle]
    /\ UNCHANGED <<ledger, derived, faults>>

Crash(w) ==
    /\ workers[w].pc \notin {"idle", "select"}
    /\ faults < MaxFaults
    /\ faults' = faults + 1
    /\ workers' = [workers EXCEPT ![w] = Idle]
    /\ UNCHANGED <<ledger, intents, derived>>

\* Waits for one attempt more than a claim allows.
ExhaustedSlip(r, v) ==
    Pending(r, v) /\ intents[r][v].attempts > MaxRetries /\ intents[r][v].due

Exhausted(r, v) ==
    Pending(r, v) /\ intents[r][v].attempts >= MaxRetries /\ intents[r][v].due

\* queue_rescuer: the last claim died, or is slower than its lease.
Rescue ==
    /\ \E r \in Resources, v \in Revs : Exhausted(r, v)
    /\ intents' = [r \in Resources |-> [v \in Revs |->
           IF Exhausted(r, v) THEN [intents[r][v] EXCEPT !.outcome = "abandoned"]
           ELSE intents[r][v]]]
    /\ UNCHANGED <<ledger, derived, workers, faults>>

-----------------------------------------------------------------------------
Deliver(w) == ReadHead(w) \/ Complete(w) \/ ApplyLive(w) \/ ApplyDelete(w) \/ Fail(w)

Next ==
    \/ \E r \in Resources :
         \/ \E alive \in BOOLEAN : Publish(r, alive)
         \/ \E v \in Revs : Elapse(r, v)
    \/ \E w \in Workers :
         \/ CloseOutranked(w)
         \/ \E r \in Resources, v \in Revs : Claim(w, r, v)
         \/ NothingDue(w)
         \/ Deliver(w)
         \/ Raise(w)
         \/ Crash(w)
    \/ Rescue

(* The workers' loops and the rescuer run on, the oldest intents come      *)
(* first, and leases run out.                                              *)
Fairness ==
    /\ \A w \in Workers : WF_vars(CloseOutranked(w)) /\ WF_vars(Deliver(w)) /\ WF_vars(NothingDue(w))
    /\ \A r \in Resources, v \in Revs :
         /\ WF_vars(Elapse(r, v))
         /\ SF_vars(\E w \in Workers : Claim(w, r, v))
    /\ WF_vars(Rescue)

Spec == Init /\ [][Next]_vars /\ Fairness

-----------------------------------------------------------------------------
(* The values of each variable.                                            *)
TypeOK ==
    /\ head \in [Resources -> 0..MaxRev]
    /\ live \in [Resources -> BOOLEAN]
    /\ stamps \in [Resources -> Seq(Revs)]
    /\ derived \in [Resources -> 0..MaxRev]
    /\ \A r \in Resources : stamps[r] \in Seq(1..head[r]) /\ derived[r] <= head[r]
    /\ intents \in [Resources -> [Revs -> Intent]]
    /\ workers \in [Workers -> Worker]
    /\ faults \in 0..MaxFaults

Reflects(r) == derived[r] = IF live[r] THEN head[r] ELSE 0

(* The chunks of a resource are only ever replaced by those of its Head of *)
(* that moment, or removed once that Head is a deletion: no delayed worker *)
(* brings an older revision back.                                          *)
NeverBackwards ==
    [][\A r \in Resources :
         derived'[r] # derived[r] =>
           \/ live[r] /\ derived'[r] = head[r]
           \/ ~live[r] /\ derived'[r] = 0]_vars

(* Every variable has its type, and an intent closed as done says so       *)
(* truthfully: with nothing pending and nothing abandoned at a Head, every *)
(* Head is what search sees.                                               *)
HealthTruthful ==
    TypeOK /\ \A r \in Resources :
        head[r] > 0 /\ ~Pending(r, head[r]) /\ intents[r][head[r]].outcome # "abandoned"
          => Reflects(r)

(* A Head that stays is reflected in the end, or given up for all to see.  *)
Settles ==
    \A r \in Resources, v \in Revs :
        head[r] = v ~> (head[r] # v \/ Reflects(r) \/ intents[r][v].outcome = "abandoned")
=============================================================================
