------------------------- MODULE EventOutboxProofs -------------------------
(* Theorems about EventOutbox, for any events, any finite set of           *)
(* publishers, and any bounds of batches, attempts and faults.             *)
EXTENDS EventOutbox, FiniteSetTheorems, TLAPS

\* A worker that has e in hand, and one that may still add it to the stream.
Busy(w, e) == e \in workers[w].batch \/ e = workers[w].row
MayAdd(w, e) == e \in workers[w].batch \/ (e = workers[w].row /\ workers[w].pc = "add")
Holders(e) == {w \in Workers : MayAdd(w, e)}

Charge(w, e) == workers[w].attempts[e]

\* What an event was charged pays for its copies, and for those to come.
Paid(e) ==
    stream[e] + Cardinality(Holders(e)) <= IF rows[e].published THEN MaxRetries
                                           ELSE rows[e].attempts
Streamed(e) ==
    /\ stream[e] > 0 => rows[e].state # "absent" /\ e \notin Suppressed
    /\ rows[e].published => stream[e] > 0 \/ e \in Suppressed
Spent(e) ==
    rows[e].abandoned /\ ~rows[e].published => rows[e].attempts = MaxRetries

EventInv(e) == Paid(e) /\ Streamed(e) /\ Spent(e)

\* Where a worker has a row in hand, and what it knows of it.
WorkerInv(w) ==
    /\ workers[w].pc = "idle" => workers[w].batch = {}
    /\ workers[w].pc \in {"add", "mark", "fail"} =>
         workers[w].row \in Events /\ workers[w].row \notin workers[w].batch
    /\ workers[w].pc \notin {"add", "mark", "fail"} => workers[w].row = Nobody
    /\ workers[w].pc = "add" => workers[w].row \notin Suppressed
    /\ workers[w].pc = "mark" => stream[workers[w].row] > 0 \/ workers[w].row \in Suppressed

\* The last claim of a row was charged the most, and is what a release of its
\* row gives back.
Ranked(w, e) ==
    Busy(w, e) =>
      /\ rows[e].state # "absent"
      /\ ~rows[e].published => Charge(w, e) <= rows[e].attempts
      /\ ~rows[e].published /\ rows[e].claim = w /\ e \in workers[w].batch =>
           /\ Charge(w, e) = rows[e].attempts
           /\ \A v \in Workers \ {w} : Busy(v, e) => Charge(v, e) < rows[e].attempts

OutboxInv ==
    /\ TypeOK
    /\ \A e \in Events : EventInv(e)
    /\ \A w \in Workers : WorkerInv(w)
    /\ \A w \in Workers, e \in Events : Ranked(w, e)

-----------------------------------------------------------------------------
LEMMA Bounds ==
    /\ MaxRetries \in Nat \ {0} /\ MaxFaults \in Nat
    /\ Nobody \notin Workers /\ Nobody \notin Events /\ IsFiniteSet(Workers)
BY OutboxConstants

LEMMA IdleTyped == Idle \in Worker
BY Bounds DEF Idle, Worker

LEMMA RowEffect ==
    ASSUME TypeOK, NEW e \in Events, NEW r \in Row, rows' = [rows EXCEPT ![e] = r]
    PROVE  /\ rows' \in [Events -> Row] /\ rows'[e] = r
           /\ \A f \in Events \ {e} : rows'[f] = rows[f]
BY DEF TypeOK

LEMMA WorkerEffect ==
    ASSUME TypeOK, NEW w \in Workers, NEW r \in Worker, workers' = [workers EXCEPT ![w] = r]
    PROVE  /\ workers' \in [Workers -> Worker] /\ workers'[w] = r
           /\ \A v \in Workers \ {w} : workers'[v] = workers[v]
BY DEF TypeOK

LEMMA Holding ==
    ASSUME NEW e
    PROVE  /\ IsFiniteSet(Holders(e)) /\ Cardinality(Holders(e)) \in Nat
           /\ \A w \in Workers : MayAdd(w, e) => Cardinality(Holders(e)) > 0
<1>1. Holders(e) \subseteq Workers
  BY DEF Holders
<1>2. IsFiniteSet(Holders(e)) /\ Cardinality(Holders(e)) \in Nat
  BY <1>1, Bounds, FS_Subset, FS_CardinalityType
<1>3. Cardinality(Holders(e)) = 0 <=> Holders(e) = {}
  BY <1>2, FS_EmptySet
<1>4. \A w \in Workers : MayAdd(w, e) => w \in Holders(e)
  BY DEF Holders
<1>5. (\E w : w \in Holders(e)) => Cardinality(Holders(e)) > 0
  BY <1>2, <1>3
<1> QED BY <1>2, <1>4, <1>5

(* The holders after a step of one worker.                                 *)
LEMMA Count ==
    ASSUME NEW w \in Workers, NEW e, \A v \in Workers \ {w} : workers'[v] = workers[v]
    PROVE  Cardinality(Holders(e)') = Cardinality(Holders(e))
             + (IF MayAdd(w, e)' THEN 1 ELSE 0) - (IF MayAdd(w, e) THEN 1 ELSE 0)
<1>1. Holders(e)' = IF MayAdd(w, e)' THEN Holders(e) \cup {w} ELSE Holders(e) \ {w}
  BY DEF Holders, MayAdd
<1>2. w \in Holders(e) <=> MayAdd(w, e)
  BY DEF Holders
<1>3. IsFiniteSet(Holders(e)) /\ Cardinality(Holders(e)) \in Nat
  BY Holding
<1>4. /\ Cardinality(Holders(e) \cup {w}) =
           IF w \in Holders(e) THEN Cardinality(Holders(e)) ELSE Cardinality(Holders(e)) + 1
      /\ Cardinality(Holders(e) \ {w}) =
           IF w \in Holders(e) THEN Cardinality(Holders(e)) - 1 ELSE Cardinality(Holders(e))
  BY <1>3, FS_AddElement, FS_RemoveElement
<1> QED BY <1>1, <1>2, <1>3, <1>4

(* Workers unchanged, holders unchanged.                                   *)
LEMMA Same ==
    ASSUME UNCHANGED workers, NEW e
    PROVE  /\ Holders(e)' = Holders(e)
           /\ \A w : Busy(w, e)' = Busy(w, e) /\ Charge(w, e)' = Charge(w, e)
BY DEF Holders, MayAdd, Busy, Charge

(* A worker that takes nothing new leaves no more holders.                 *)
LEMMA Fewer ==
    ASSUME NEW e, \A v \in Workers : MayAdd(v, e)' => MayAdd(v, e)
    PROVE  /\ Cardinality(Holders(e)') \in Nat /\ Cardinality(Holders(e)) \in Nat
           /\ Cardinality(Holders(e)') <= Cardinality(Holders(e))
<1>1. Holders(e)' \subseteq Holders(e)
  BY DEF Holders
<1>2. IsFiniteSet(Holders(e)) /\ Cardinality(Holders(e)) \in Nat
  BY Holding
<1> QED BY <1>1, <1>2, FS_Subset, FS_CardinalityType

LEMMA EventKept ==
    ASSUME OutboxInv, NEW e \in Events, \A v \in Workers : MayAdd(v, e)' => MayAdd(v, e),
           stream'[e] = stream[e], rows'[e] = rows[e]
    PROVE  EventInv(e)'
<1>1. /\ Cardinality(Holders(e)') \in Nat /\ Cardinality(Holders(e)) \in Nat
      /\ Cardinality(Holders(e)') <= Cardinality(Holders(e))
  BY Fewer
<1>2. EventInv(e) /\ stream[e] \in Nat /\ rows[e] \in Row
  BY DEF OutboxInv, TypeOK
<1>3. Paid(e)'
  BY <1>1, <1>2, Bounds DEF EventInv, Paid, Row
<1> QED BY <1>2, <1>3 DEF EventInv, Streamed, Spent

\* No worker comes by an event it had not, or by another charge.
NothingNew ==
    \A v \in Workers, e \in Events :
        /\ Busy(v, e)' => Busy(v, e) /\ Charge(v, e)' = Charge(v, e)
        /\ e \in workers'[v].batch => e \in workers[v].batch

(* The claims stay ranked while rows are published, forgotten or kept.     *)
LEMMA RankedKept ==
    ASSUME OutboxInv, NothingNew,
           \A e \in Events :
             /\ rows[e].state # "absent" => rows'[e].state # "absent"
             /\ \/ rows'[e].published
                \/ /\ rows'[e].published = rows[e].published
                   /\ rows'[e].attempts = rows[e].attempts
                   /\ rows'[e].claim = rows[e].claim \/ rows'[e].claim = Nobody
    PROVE  \A v \in Workers, e \in Events : Ranked(v, e)'
<1> SUFFICES ASSUME NEW v \in Workers, NEW e \in Events, Busy(v, e)'
             PROVE  Ranked(v, e)'
  BY DEF Ranked
<1>1. Busy(v, e) /\ Charge(v, e)' = Charge(v, e) /\ Ranked(v, e)
  BY DEF NothingNew, OutboxInv
<1>2. CASE rows'[e].published
  BY <1>1, <1>2 DEF Ranked
<1>3. CASE ~rows'[e].published
  <2>1. /\ ~rows[e].published /\ rows'[e].attempts = rows[e].attempts
        /\ rows'[e].claim = v => rows[e].claim = v
    BY <1>3, Bounds
  <2>2. \A u \in Workers \ {v} : Busy(u, e)' => Busy(u, e) /\ Charge(u, e)' = Charge(u, e)
    BY DEF NothingNew
  <2>3. e \in workers'[v].batch => e \in workers[v].batch
    BY DEF NothingNew
  <2> QED BY <1>1, <2>1, <2>2, <2>3 DEF Ranked
<1> QED BY <1>2, <1>3

LEMMA Others ==
    ASSUME NEW w \in Workers, \A v \in Workers \ {w} : workers'[v] = workers[v]
    PROVE  \A v \in Workers \ {w}, e \in Events :
             /\ Busy(v, e)' = Busy(v, e) /\ Charge(v, e)' = Charge(v, e)
             /\ MayAdd(v, e)' = MayAdd(v, e)
BY DEF Busy, Charge, MayAdd

-----------------------------------------------------------------------------
(* Steps that leave the workers and the stream alone.                      *)
LEMMA RowsOnly ==
    ASSUME OutboxInv, UNCHANGED <<workers, stream, faults>>, rows' \in [Events -> Row],
           \A e \in Events :
             /\ EventInv(e)'
             /\ rows[e].state # "absent" => rows'[e].state # "absent"
             /\ rows'[e].published = rows[e].published
             /\ rows'[e].attempts = rows[e].attempts
             /\ rows'[e].claim = rows[e].claim \/ rows'[e].claim = Nobody
    PROVE  OutboxInv'
<1>1. TypeOK'
  BY DEF OutboxInv, TypeOK
<1>2. NothingNew
  BY Same DEF NothingNew
<1>3. \A v \in Workers, e \in Events : Ranked(v, e)'
  BY <1>2, RankedKept
<1>4. \A v \in Workers : WorkerInv(v)'
  BY DEF OutboxInv, WorkerInv
<1> QED BY <1>1, <1>3, <1>4 DEF OutboxInv

LEMMA StoreInv ==
    ASSUME OutboxInv, NEW e \in Events, Store(e)
    PROVE  OutboxInv'
<1> DEFINE r == [rows[e] EXCEPT !.state = "stored"]
<1>1. /\ rows[e].state = "absent" /\ rows' = [rows EXCEPT ![e] = r] /\ UNCHANGED <<workers, stream, faults>>
  BY DEF Store, OutboxInv, TypeOK
<1>2. rows[e] \in Row /\ r \in Row
  BY DEF OutboxInv, TypeOK, Row
<1>3. /\ r.published = rows[e].published /\ r.attempts = rows[e].attempts /\ r.state = "stored"
      /\ r.claim = rows[e].claim /\ r.abandoned = rows[e].abandoned
  BY <1>2 DEF Row
<1> HIDE DEF r
<1>4. /\ rows' \in [Events -> Row] /\ rows'[e] = r
      /\ \A f \in Events \ {e} : rows'[f] = rows[f]
  BY <1>1, <1>2, RowEffect DEF OutboxInv
<1>5. \A f \in Events \ {e} : EventInv(f)'
  BY <1>1, <1>4, EventKept DEF MayAdd
<1>6. EventInv(e)'
  BY <1>1, <1>3, <1>4, Same DEF OutboxInv, EventInv, Paid, Streamed, Spent
<1> QED BY <1>1, <1>3, <1>4, <1>5, <1>6, RowsOnly

LEMMA ElapseInv ==
    ASSUME OutboxInv, NEW e \in Events, Elapse(e)
    PROVE  OutboxInv'
<1> DEFINE r == [rows[e] EXCEPT !.due = TRUE]
<1>1. rows' = [rows EXCEPT ![e] = r] /\ UNCHANGED <<workers, stream, faults>>
  BY DEF Elapse, OutboxInv, TypeOK
<1>2. rows[e] \in Row /\ r \in Row
  BY DEF OutboxInv, TypeOK, Row
<1>3. /\ r.published = rows[e].published /\ r.attempts = rows[e].attempts /\ r.state = rows[e].state
      /\ r.claim = rows[e].claim /\ r.abandoned = rows[e].abandoned
  BY <1>2 DEF Row
<1> HIDE DEF r
<1>4. /\ rows' \in [Events -> Row] /\ rows'[e] = r
      /\ \A f \in Events \ {e} : rows'[f] = rows[f]
  BY <1>1, <1>2, RowEffect DEF OutboxInv
<1>5. \A f \in Events \ {e} : EventInv(f)'
  BY <1>1, <1>4, EventKept DEF MayAdd
<1>6. EventInv(e)'
  BY <1>1, <1>3, <1>4, Same DEF OutboxInv, EventInv, Paid, Streamed, Spent
<1> QED BY <1>1, <1>3, <1>4, <1>5, <1>6, RowsOnly

LEMMA RescueInv ==
    ASSUME OutboxInv, Rescue
    PROVE  OutboxInv'
<1> DEFINE r(e) == [rows[e] EXCEPT !.abandoned = TRUE, !.claim = Nobody]
<1>1. /\ UNCHANGED <<workers, stream, faults>>
      /\ rows' = [e \in Events |-> IF Rescuable(e) THEN r(e) ELSE rows[e]]
  BY DEF Rescue
<1>2. ASSUME NEW e \in Events
      PROVE  /\ rows[e] \in Row /\ r(e) \in Row
             /\ r(e).published = rows[e].published /\ r(e).attempts = rows[e].attempts
             /\ r(e).state = rows[e].state /\ r(e).claim = Nobody
  BY DEF OutboxInv, TypeOK, Row
<1> HIDE DEF r
<1>3. rows' \in [Events -> Row]
  BY <1>1, <1>2
<1>4. ASSUME NEW e \in Events
      PROVE  /\ rows'[e].published = rows[e].published /\ rows'[e].attempts = rows[e].attempts
             /\ rows'[e].state = rows[e].state
             /\ rows'[e].claim = rows[e].claim \/ rows'[e].claim = Nobody
             /\ rows'[e] = rows[e] \/ rows[e].attempts = MaxRetries
  <2>1. CASE Rescuable(e)
    <3>1. rows[e].attempts \in 0..MaxRetries /\ rows[e].attempts >= MaxRetries
      BY <1>2, <2>1 DEF Rescuable, Row
    <3>2. rows[e].attempts = MaxRetries
      BY <3>1, Bounds
    <3> QED BY <1>1, <1>2, <2>1, <3>2
  <2>2. CASE ~Rescuable(e)
    BY <1>1, <2>2
  <2> QED BY <2>1, <2>2
<1>5. ASSUME NEW e \in Events
      PROVE  EventInv(e)'
  BY <1>1, <1>4, Same DEF OutboxInv, EventInv, Paid, Streamed, Spent
<1> QED BY <1>1, <1>3, <1>4, <1>5, RowsOnly

LEMMA SweepInv ==
    ASSUME OutboxInv, NEW S \in SUBSET Events, Sweep(S)
    PROVE  OutboxInv'
<1> DEFINE r(e) == [rows[e] EXCEPT !.state = "swept"]
<1>1. /\ UNCHANGED <<workers, stream, faults>>
      /\ rows' = [e \in Events |-> IF e \in S THEN r(e) ELSE rows[e]]
      /\ \A e \in S : rows[e].state = "stored"
  BY DEF Sweep
<1>2. ASSUME NEW e \in Events
      PROVE  /\ rows[e] \in Row /\ r(e) \in Row
             /\ r(e).published = rows[e].published /\ r(e).attempts = rows[e].attempts
             /\ r(e).state = "swept" /\ r(e).claim = rows[e].claim
             /\ r(e).abandoned = rows[e].abandoned
  BY DEF OutboxInv, TypeOK, Row
<1> HIDE DEF r
<1>3. rows' \in [Events -> Row]
  BY <1>1, <1>2
<1>4. ASSUME NEW e \in Events
      PROVE  /\ rows'[e].published = rows[e].published /\ rows'[e].attempts = rows[e].attempts
             /\ rows'[e].abandoned = rows[e].abandoned /\ rows'[e].claim = rows[e].claim
             /\ rows[e].state # "absent" => rows'[e].state # "absent"
  BY <1>1, <1>2
<1>5. ASSUME NEW e \in Events
      PROVE  EventInv(e)'
  BY <1>1, <1>4, Same DEF OutboxInv, EventInv, Paid, Streamed, Spent
<1> QED BY <1>1, <1>3, <1>4, <1>5, RowsOnly

-----------------------------------------------------------------------------
(* A worker that keeps some of what it holds, or puts an event it has in   *)
(* hand into the stream.                                                   *)
LEMMA WorkerOnly ==
    ASSUME OutboxInv, NEW w \in Workers, NEW r \in Worker, workers' = [workers EXCEPT ![w] = r],
           UNCHANGED rows, faults' \in 0..MaxFaults, stream' \in [Events -> Nat],
           \A e \in Events : stream'[e] >= stream[e] /\ EventInv(e)',
           WorkerInv(w)',
           \A e \in Events :
             /\ Busy(w, e)' => Busy(w, e) /\ Charge(w, e)' = Charge(w, e)
             /\ e \in r.batch => e \in workers[w].batch
    PROVE  OutboxInv'
<1>1. /\ workers' \in [Workers -> Worker] /\ workers'[w] = r
      /\ \A v \in Workers \ {w} : workers'[v] = workers[v]
  BY WorkerEffect DEF OutboxInv
<1>2. TypeOK'
  BY <1>1 DEF OutboxInv, TypeOK
<1>3. NothingNew
  BY <1>1, Others DEF NothingNew
<1>4. \A v \in Workers, e \in Events : Ranked(v, e)'
  BY <1>3, RankedKept
<1>5. ASSUME NEW v \in Workers
      PROVE  WorkerInv(v)'
  <2>1. CASE v = w
    BY <2>1
  <2>2. CASE v # w
    <3>1. workers'[v] = workers[v] /\ WorkerInv(v) /\ workers[v] \in Worker
      BY <1>1, <2>2 DEF OutboxInv, TypeOK
    <3>2. \A e \in Events : stream[e] > 0 => stream'[e] > 0
      BY DEF OutboxInv, TypeOK
    <3> QED BY <3>1, <3>2 DEF WorkerInv
  <2> QED BY <2>1, <2>2
<1> QED BY <1>2, <1>4, <1>5 DEF OutboxInv

(* The same without the stream.                                            *)
LEMMA WorkerDrops ==
    ASSUME OutboxInv, NEW w \in Workers, NEW r \in Worker, workers' = [workers EXCEPT ![w] = r],
           UNCHANGED <<rows, stream>>, faults' \in 0..MaxFaults, WorkerInv(w)',
           \A e \in Events :
             /\ Busy(w, e)' => Busy(w, e) /\ Charge(w, e)' = Charge(w, e)
             /\ e \in r.batch => e \in workers[w].batch
             /\ MayAdd(w, e)' => MayAdd(w, e)
    PROVE  OutboxInv'
<1>1. \A v \in Workers \ {w} : workers'[v] = workers[v]
  BY WorkerEffect DEF OutboxInv
<1>2. \A e \in Events : EventInv(e)'
  <2> TAKE e \in Events
  <2>1. \A v \in Workers : MayAdd(v, e)' => MayAdd(v, e)
    BY <1>1, Others
  <2> QED BY <2>1, EventKept
<1>3. stream \in [Events -> Nat]
  BY DEF OutboxInv, TypeOK
<1>4. stream' \in [Events -> Nat] /\ \A e \in Events : stream'[e] >= stream[e]
  BY <1>3
<1> QED BY <1>2, <1>4, WorkerOnly

LEMMA TakeInv ==
    ASSUME OutboxInv, NEW w \in Workers, NEW e \in Events, Take(w, e)
    PROVE  OutboxInv'
<1> DEFINE r == [workers[w] EXCEPT !.row = e, !.batch = @ \ {e},
                                   !.pc = IF e \in Suppressed THEN "mark" ELSE "add"]
<1>1. /\ workers[w].pc \in {"connect", "next"} /\ e \in workers[w].batch
      /\ workers' = [workers EXCEPT ![w] = r] /\ UNCHANGED <<rows, stream, faults>>
  BY DEF Take, OutboxInv, TypeOK, Worker
<1>2. workers[w] \in Worker /\ r \in Worker /\ faults' \in 0..MaxFaults
  BY <1>1 DEF OutboxInv, TypeOK, Worker
<1>3. /\ r.row = e /\ r.batch = workers[w].batch \ {e} /\ r.attempts = workers[w].attempts
      /\ r.pc = IF e \in Suppressed THEN "mark" ELSE "add"
  BY <1>2 DEF Worker
<1> HIDE DEF r
<1>4. workers'[w] = r
  BY <1>1, <1>2, WorkerEffect DEF OutboxInv
<1>5. WorkerInv(w)'
  BY <1>1, <1>3, <1>4 DEF WorkerInv
<1>6. \A f \in Events :
        /\ Busy(w, f)' => Busy(w, f) /\ Charge(w, f)' = Charge(w, f)
        /\ f \in r.batch => f \in workers[w].batch
        /\ MayAdd(w, f)' => MayAdd(w, f)
  BY <1>1, <1>3, <1>4 DEF Busy, Charge, MayAdd
<1> QED BY <1>1, <1>2, <1>5, <1>6, WorkerDrops

LEMMA ConnectFailsInv ==
    ASSUME OutboxInv, NEW w \in Workers, NEW e \in Events, ConnectFails(w, e)
    PROVE  OutboxInv'
<1> DEFINE r == [workers[w] EXCEPT !.row = e, !.batch = @ \ {e}, !.pc = "fail"]
<1>1. /\ workers[w].pc = "connect" /\ e \in workers[w].batch /\ faults < MaxFaults
      /\ faults' = faults + 1
      /\ workers' = [workers EXCEPT ![w] = r] /\ UNCHANGED <<rows, stream>>
  BY DEF ConnectFails, OutboxInv, TypeOK, Worker
<1>2. workers[w] \in Worker /\ r \in Worker
  BY <1>1 DEF OutboxInv, TypeOK, Worker
<1>3. faults' \in 0..MaxFaults
  BY <1>1, Bounds DEF OutboxInv, TypeOK
<1>4. /\ r.row = e /\ r.batch = workers[w].batch \ {e} /\ r.attempts = workers[w].attempts
      /\ r.pc = "fail"
  BY <1>2 DEF Worker
<1> HIDE DEF r
<1>5. workers'[w] = r
  BY <1>1, <1>2, WorkerEffect DEF OutboxInv
<1>6. WorkerInv(w)'
  BY <1>1, <1>4, <1>5 DEF WorkerInv
<1>7. \A f \in Events :
        /\ Busy(w, f)' => Busy(w, f) /\ Charge(w, f)' = Charge(w, f)
        /\ f \in r.batch => f \in workers[w].batch
        /\ MayAdd(w, f)' => MayAdd(w, f)
  BY <1>1, <1>4, <1>5 DEF Busy, Charge, MayAdd
<1> QED BY <1>1, <1>2, <1>3, <1>6, <1>7, WorkerDrops

LEMMA CrashInv ==
    ASSUME OutboxInv, NEW w \in Workers, Crash(w)
    PROVE  OutboxInv'
<1>1. /\ faults < MaxFaults /\ faults' = faults + 1
      /\ workers' = [workers EXCEPT ![w] = Idle] /\ UNCHANGED <<rows, stream>>
  BY DEF Crash
<1>2. faults' \in 0..MaxFaults
  BY <1>1, Bounds DEF OutboxInv, TypeOK
<1>3. workers'[w] = Idle
  BY <1>1, IdleTyped, WorkerEffect DEF OutboxInv
<1>4. WorkerInv(w)' /\ \A e \in Events : ~Busy(w, e)' /\ ~MayAdd(w, e)'
  BY <1>3, Bounds DEF Idle, WorkerInv, Busy, MayAdd
<1>5. Idle.batch = {}
  BY DEF Idle
<1> QED BY <1>1, <1>2, <1>4, <1>5, IdleTyped, WorkerDrops

\* A step that ends an XADD: the event in hand may have come into the stream.
LEMMA AddEnds ==
    ASSUME OutboxInv, NEW w \in Workers, workers[w].pc = "add",
           NEW pc \in {"mark", "fail"}, workers' = [workers EXCEPT ![w].pc = pc],
           UNCHANGED rows, faults' \in 0..MaxFaults,
           \/ stream' = Added(w)
           \/ stream' = stream /\ pc = "fail"
    PROVE  OutboxInv'
<1> DEFINE r == [workers[w] EXCEPT !.pc = pc]
<1>0. PICK e \in Events : e = workers[w].row
  BY DEF OutboxInv, WorkerInv
<1>1. /\ e \notin workers[w].batch /\ e \notin Suppressed
      /\ MayAdd(w, e) /\ Busy(w, e)
  BY <1>0 DEF OutboxInv, WorkerInv, MayAdd, Busy
<1>2. workers' = [workers EXCEPT ![w] = r] /\ workers[w] \in Worker /\ r \in Worker
  BY DEF OutboxInv, TypeOK, Worker
<1>3. /\ r.row = e /\ r.batch = workers[w].batch /\ r.attempts = workers[w].attempts
      /\ r.pc = pc
  BY <1>0, <1>2 DEF Worker
<1> HIDE DEF r
<1>4. workers'[w] = r /\ \A v \in Workers \ {w} : workers'[v] = workers[v]
  BY <1>2, WorkerEffect DEF OutboxInv
<1>5. /\ stream \in [Events -> Nat] /\ stream' \in [Events -> Nat]
      /\ \A f \in Events : stream'[f] >= stream[f]
      /\ \A f \in Events \ {e} : stream'[f] = stream[f]
      /\ stream'[e] = stream[e] + 1 \/ (stream'[e] = stream[e] /\ pc = "fail")
  BY <1>0 DEF OutboxInv, TypeOK, Added
<1>6. \A f \in Events : MayAdd(w, f)' => MayAdd(w, f) /\ f # e
  BY <1>1, <1>3, <1>4 DEF MayAdd
<1>7. \A f \in Events, v \in Workers : MayAdd(v, f)' => MayAdd(v, f)
  BY <1>4, <1>6, Others
<1>8. \A f \in Events \ {e} : EventInv(f)'
  BY <1>5, <1>7, EventKept
<1>9. EventInv(e)'
  <2>1. ~MayAdd(w, e)'
    BY <1>1, <1>6
  <2>2. Cardinality(Holders(e)') = Cardinality(Holders(e)) - 1
    BY <1>1, <1>4, <2>1, Count, Holding
  <2>3. /\ EventInv(e) /\ Ranked(w, e) /\ rows[e] \in Row
        /\ Cardinality(Holders(e)) \in Nat
    BY <1>1, Holding DEF OutboxInv, TypeOK
  <2>4. Paid(e)'
    BY <1>1, <1>5, <2>2, <2>3, Bounds DEF EventInv, Paid, Row
  <2>5. Streamed(e)'
    BY <1>1, <1>5, <2>3 DEF EventInv, Streamed, Ranked
  <2> QED BY <2>3, <2>4, <2>5 DEF EventInv, Spent
<1>10. WorkerInv(w)'
  <2>1. pc = "mark" => stream'[e] > 0
    BY <1>5
  <2>2. e \notin r.batch /\ r.pc \in {"mark", "fail"}
    BY <1>1, <1>3
  <2> QED BY <1>3, <1>4, <2>1, <2>2 DEF WorkerInv
<1>11. \A f \in Events :
        /\ Busy(w, f)' => Busy(w, f) /\ Charge(w, f)' = Charge(w, f)
        /\ f \in r.batch => f \in workers[w].batch
  BY <1>3, <1>4 DEF Busy, Charge
<1> QED BY <1>2, <1>5, <1>8, <1>9, <1>10, <1>11, WorkerOnly

LEMMA AddInv ==
    ASSUME OutboxInv, NEW w \in Workers, Add(w)
    PROVE  OutboxInv'
<1>1. faults' \in 0..MaxFaults
  BY DEF Add, OutboxInv, TypeOK
<1> QED BY <1>1, AddEnds DEF Add

LEMMA AddFailsInv ==
    ASSUME OutboxInv, NEW w \in Workers, AddFails(w)
    PROVE  OutboxInv'
<1>1. faults' \in 0..MaxFaults
  BY Bounds DEF AddFails, OutboxInv, TypeOK
<1> QED BY <1>1, AddEnds DEF AddFails

-----------------------------------------------------------------------------
(* What holds of a worker with a row to be marked, or charged.             *)
LEMMA MarkInv ==
    ASSUME OutboxInv, NEW w \in Workers, Mark(w)
    PROVE  OutboxInv'
<1> DEFINE next == [workers[w] EXCEPT !.pc = "next", !.row = Nobody]
           k == IF workers[w].batch = {} THEN Idle ELSE next
<1>1. PICK e \in Events : e = workers[w].row
  BY DEF OutboxInv, WorkerInv, Mark
<1> DEFINE r == [rows[e] EXCEPT !.published = TRUE, !.abandoned = FALSE, !.attempts = 0,
                                !.due = TRUE, !.claim = Nobody]
<1>2. /\ workers[w].pc = "mark" /\ UNCHANGED <<stream, faults>>
      /\ rows' = [rows EXCEPT ![e] = r] /\ workers' = [workers EXCEPT ![w] = k]
  BY <1>1 DEF Mark, OutboxInv, TypeOK
<1>3. rows[e] \in Row /\ r \in Row /\ workers[w] \in Worker /\ next \in Worker
  <2>1. rows[e] \in Row /\ workers[w] \in Worker
    BY DEF OutboxInv, TypeOK
  <2>2. 0 \in 0..MaxRetries
    BY Bounds
  <2>3. r \in Row
    BY <2>1, <2>2 DEF Row
  <2> QED BY <2>1, <2>3 DEF Worker
<1>4. k \in Worker
  BY <1>3, IdleTyped
<1>5. /\ r.published /\ ~r.abandoned /\ r.attempts = 0 /\ r.claim = Nobody
      /\ r.state = rows[e].state
  BY <1>3 DEF Row
<1>6. /\ k.row = Nobody /\ k.pc \in {"idle", "next"} /\ k.batch = workers[w].batch
      /\ k.pc = "idle" => k.batch = {}
      /\ k.batch # {} => k.attempts = workers[w].attempts
  BY <1>3 DEF Worker, Idle
<1> HIDE DEF r, k, next
<1>7. /\ rows' \in [Events -> Row] /\ rows'[e] = r
      /\ \A f \in Events \ {e} : rows'[f] = rows[f]
  BY <1>2, <1>3, RowEffect DEF OutboxInv
<1>8. /\ workers' \in [Workers -> Worker] /\ workers'[w] = k
      /\ \A v \in Workers \ {w} : workers'[v] = workers[v]
  BY <1>2, <1>4, WorkerEffect DEF OutboxInv
<1>9. TypeOK'
  BY <1>2, <1>7, <1>8 DEF OutboxInv, TypeOK
<1>10. \A f \in Events :
         /\ Busy(w, f)' => Busy(w, f) /\ Charge(w, f)' = Charge(w, f)
         /\ f \in workers'[w].batch => f \in workers[w].batch
         /\ MayAdd(w, f)' => MayAdd(w, f)
  BY <1>6, <1>8, Bounds DEF Busy, MayAdd, Charge
<1>11. NothingNew
  BY <1>8, <1>10, Others DEF NothingNew
<1>12. \A f \in Events, v \in Workers : MayAdd(v, f)' => MayAdd(v, f)
  BY <1>8, <1>10, Others
<1>13. \A v \in Workers, f \in Events : Ranked(v, f)'
  BY <1>5, <1>7, <1>11, RankedKept
<1>14. \A f \in Events \ {e} : EventInv(f)'
  BY <1>2, <1>7, <1>12, EventKept
<1>15. EventInv(e)'
  <2>1. /\ Cardinality(Holders(e)') \in Nat /\ Cardinality(Holders(e)) \in Nat
        /\ Cardinality(Holders(e)') <= Cardinality(Holders(e))
    BY <1>12, Fewer
  <2>2. EventInv(e) /\ WorkerInv(w) /\ Ranked(w, e) /\ stream[e] \in Nat
    BY DEF OutboxInv, TypeOK
  <2>3. Busy(w, e)
    BY <1>1 DEF Busy
  <2>4. rows[e].attempts \in 0..MaxRetries
    BY <1>3 DEF Row
  <2>5. Paid(e)'
    BY <1>2, <1>5, <1>7, <2>1, <2>2, <2>4, Bounds DEF EventInv, Paid
  <2>6. Streamed(e)'
    BY <1>1, <1>2, <1>5, <1>7, <2>2 DEF EventInv, Streamed, WorkerInv
  <2> QED BY <1>5, <1>7, <2>5, <2>6 DEF EventInv, Spent
<1>16. \A v \in Workers : WorkerInv(v)'
  <2> TAKE v \in Workers
  <2>1. CASE v = w
    BY <1>6, <1>8, <2>1 DEF WorkerInv
  <2>2. CASE v # w
    BY <1>2, <1>8, <2>2 DEF OutboxInv, WorkerInv
  <2> QED BY <2>1, <2>2
<1> QED BY <1>9, <1>13, <1>14, <1>15, <1>16 DEF OutboxInv

LEMMA FailInv ==
    ASSUME OutboxInv, NEW w \in Workers, Fail(w)
    PROVE  OutboxInv'
<1> DEFINE k == [workers[w] EXCEPT !.pc = "release", !.row = Nobody]
<1>1. PICK e \in Events : e = workers[w].row
  BY DEF OutboxInv, WorkerInv, Fail
<1> DEFINE r == [rows[e] EXCEPT !.due = Terminal(w), !.claim = Nobody,
                                !.abandoned = Terminal(w)]
<1>2. /\ workers[w].pc = "fail" /\ UNCHANGED <<stream, faults>>
      /\ rows' = [rows EXCEPT ![e] = r] /\ workers' = [workers EXCEPT ![w] = k]
  BY <1>1 DEF Fail, OutboxInv, TypeOK, Row, Worker
<1>3. rows[e] \in Row /\ workers[w] \in Worker /\ k \in Worker
  BY Bounds DEF OutboxInv, TypeOK, Worker
<1>4. Terminal(w) \in BOOLEAN
  BY DEF Terminal
<1>5. /\ r \in Row /\ r.published = rows[e].published /\ r.attempts = rows[e].attempts
      /\ r.claim = Nobody /\ r.state = rows[e].state /\ r.abandoned = Terminal(w)
  BY <1>3, <1>4, Bounds DEF Row
<1>6. /\ k.row = Nobody /\ k.pc = "release" /\ k.batch = workers[w].batch
      /\ k.attempts = workers[w].attempts
  BY <1>3 DEF Worker
<1> HIDE DEF r, k
<1>7. /\ rows' \in [Events -> Row] /\ rows'[e] = r
      /\ \A f \in Events \ {e} : rows'[f] = rows[f]
  BY <1>2, <1>5, RowEffect DEF OutboxInv
<1>8. /\ workers' \in [Workers -> Worker] /\ workers'[w] = k
      /\ \A v \in Workers \ {w} : workers'[v] = workers[v]
  BY <1>2, <1>3, WorkerEffect DEF OutboxInv
<1>9. TypeOK'
  BY <1>2, <1>7, <1>8 DEF OutboxInv, TypeOK
<1>10. \A f \in Events :
         /\ Busy(w, f)' => Busy(w, f) /\ Charge(w, f)' = Charge(w, f)
         /\ f \in workers'[w].batch => f \in workers[w].batch
         /\ MayAdd(w, f)' => MayAdd(w, f)
  BY <1>6, <1>8, Bounds DEF Busy, MayAdd, Charge
<1>11. NothingNew
  BY <1>8, <1>10, Others DEF NothingNew
<1>12. \A f \in Events, v \in Workers : MayAdd(v, f)' => MayAdd(v, f)
  BY <1>8, <1>10, Others
<1>13. \A v \in Workers, f \in Events : Ranked(v, f)'
  BY <1>5, <1>7, <1>11, RankedKept
<1>14. \A f \in Events \ {e} : EventInv(f)'
  BY <1>2, <1>7, <1>12, EventKept
<1>15. EventInv(e)'
  <2>1. /\ Cardinality(Holders(e)') \in Nat /\ Cardinality(Holders(e)) \in Nat
        /\ Cardinality(Holders(e)') <= Cardinality(Holders(e))
    BY <1>12, Fewer
  <2>2. EventInv(e) /\ Ranked(w, e) /\ stream[e] \in Nat
    BY DEF OutboxInv, TypeOK
  <2>3. Busy(w, e)
    BY <1>1 DEF Busy
  <2>4. rows[e].attempts \in 0..MaxRetries /\ Charge(w, e) \in 0..MaxRetries
    BY <1>3 DEF Row, Worker, Charge
  <2>5. Paid(e)'
    BY <1>2, <1>5, <1>7, <2>1, <2>2, <2>4, Bounds DEF EventInv, Paid
  <2>6. Streamed(e)'
    BY <1>2, <1>5, <1>7, <2>2 DEF EventInv, Streamed
  <2>7. Terminal(w) => Charge(w, e) >= MaxRetries
    BY <1>1 DEF Terminal, Charge
  <2>8. Spent(e)'
    BY <1>5, <1>7, <2>2, <2>3, <2>4, <2>7, Bounds DEF Ranked, Spent
  <2> QED BY <2>5, <2>6, <2>8 DEF EventInv
<1>16. \A v \in Workers : WorkerInv(v)'
  <2> TAKE v \in Workers
  <2>1. CASE v = w
    BY <1>6, <1>8, <2>1 DEF WorkerInv
  <2>2. CASE v # w
    BY <1>2, <1>8, <2>2 DEF OutboxInv, WorkerInv
  <2> QED BY <2>1, <2>2
<1> QED BY <1>9, <1>13, <1>14, <1>15, <1>16 DEF OutboxInv

(* A batch returned: what was charged for it, and not taken over, is given *)
(* back with the holder it paid for.                                       *)
LEMMA ReleaseInv ==
    ASSUME OutboxInv, NEW w \in Workers, Release(w)
    PROVE  OutboxInv'
<1> DEFINE r(e) == [rows[e] EXCEPT !.attempts = IF @ = 0 THEN 0 ELSE @ - 1,
                                   !.due = TRUE, !.claim = Nobody]
<1>1. /\ workers[w].pc = "release" /\ UNCHANGED <<stream, faults>>
      /\ rows' = [e \in Events |-> IF e \in Released(w) THEN r(e) ELSE rows[e]]
      /\ workers' = [workers EXCEPT ![w] = Idle]
  BY DEF Release
<1>2. workers[w].row = Nobody
  BY <1>1 DEF OutboxInv, WorkerInv
<1>3. /\ workers' \in [Workers -> Worker] /\ workers'[w] = Idle
      /\ \A v \in Workers \ {w} : workers'[v] = workers[v]
  BY <1>1, IdleTyped, WorkerEffect DEF OutboxInv
<1>4. WorkerInv(w)' /\ \A e \in Events : ~Busy(w, e)' /\ ~MayAdd(w, e)'
  BY <1>3, Bounds DEF Idle, WorkerInv, Busy, MayAdd
<1>5. \A v \in Workers, e \in Events : MayAdd(v, e)' => MayAdd(v, e)
  BY <1>3, <1>4, Others
<1>6. ASSUME NEW e \in Events, e \in Released(w)
      PROVE  /\ e \in workers[w].batch /\ MayAdd(w, e) /\ Busy(w, e)
             /\ ~rows[e].published /\ ~rows[e].abandoned /\ rows[e].claim = w
             /\ rows[e].attempts \in Nat /\ rows[e].attempts > 0
  <2>1. /\ e \in workers[w].batch
        /\ ~rows[e].published /\ ~rows[e].abandoned /\ rows[e].claim = w
    BY <1>6 DEF Released
  <2>2. MayAdd(w, e) /\ Busy(w, e)
    BY <2>1 DEF MayAdd, Busy
  <2>3. /\ Cardinality(Holders(e)) \in Nat /\ Cardinality(Holders(e)) > 0
        /\ Paid(e) /\ stream[e] \in Nat /\ rows[e].attempts \in Nat
    BY <2>2, Holding, Bounds DEF OutboxInv, EventInv, TypeOK, Row
  <2>4. rows[e].attempts > 0
    BY <2>1, <2>3 DEF Paid
  <2> QED BY <2>1, <2>2, <2>3, <2>4
<1>7. ASSUME NEW e \in Events, e \in Released(w)
      PROVE  /\ r(e) \in Row /\ r(e).attempts = rows[e].attempts - 1 /\ r(e).claim = Nobody
             /\ r(e).published = rows[e].published /\ r(e).abandoned = rows[e].abandoned
             /\ r(e).state = rows[e].state
  <2>1. rows[e] \in Row
    BY DEF OutboxInv, TypeOK
  <2>2. rows[e].attempts \in 1..MaxRetries
    BY <1>6, <1>7, <2>1, Bounds DEF Row
  <2>3. rows[e].attempts - 1 \in 0..MaxRetries /\ rows[e].attempts # 0
    BY <2>2, Bounds
  <2>4. r(e) = [rows[e] EXCEPT !.attempts = rows[e].attempts - 1, !.due = TRUE,
                               !.claim = Nobody]
    BY <2>3, Zenon
  <2> HIDE DEF r
  <2> QED BY <2>1, <2>3, <2>4 DEF Row
<1> HIDE DEF r
<1>8. ASSUME NEW e \in Events
      PROVE  rows'[e] = IF e \in Released(w) THEN r(e) ELSE rows[e]
  BY <1>1
<1>9. TypeOK'
  <2>1. rows' \in [Events -> Row]
    BY <1>1, <1>7 DEF OutboxInv, TypeOK
  <2> QED BY <1>1, <1>3, <2>1 DEF OutboxInv, TypeOK
<1>10. ASSUME NEW e \in Events
       PROVE  EventInv(e)'
  <2>1. CASE e \in Released(w)
    <3>1. Cardinality(Holders(e)') = Cardinality(Holders(e)) - 1
      BY <1>3, <1>4, <1>6, <2>1, Count, Holding
    <3>2. /\ EventInv(e) /\ stream[e] \in Nat /\ Cardinality(Holders(e)) \in Nat
      BY Holding DEF OutboxInv, TypeOK
    <3>3. Paid(e)'
      BY <1>1, <1>6, <1>7, <1>8, <2>1, <3>1, <3>2 DEF EventInv, Paid
    <3> QED BY <1>1, <1>6, <1>7, <1>8, <2>1, <3>2, <3>3 DEF EventInv, Streamed, Spent
  <2>2. CASE e \notin Released(w)
    BY <1>1, <1>5, <1>8, <2>2, EventKept
  <2> QED BY <2>1, <2>2
<1>11. ASSUME NEW v \in Workers
       PROVE  WorkerInv(v)'
  <2>1. CASE v = w
    BY <1>4, <2>1
  <2>2. CASE v # w
    BY <1>1, <1>3, <2>2 DEF OutboxInv, WorkerInv
  <2> QED BY <2>1, <2>2
<1>12. ASSUME NEW v \in Workers, NEW e \in Events
       PROVE  Ranked(v, e)'
  <2>1. CASE v = w
    BY <1>4, <2>1 DEF Ranked
  <2>2. CASE v # w /\ e \notin Released(w)
    <3>1. \A u \in Workers \ {v} : Busy(u, e)' => Busy(u, e) /\ Charge(u, e)' = Charge(u, e)
      BY <1>3, <1>4, Others
    <3>2. /\ Busy(v, e)' = Busy(v, e) /\ Charge(v, e)' = Charge(v, e)
          /\ workers'[v] = workers[v]
      BY <1>3, <2>2, Others
    <3>3. rows'[e] = rows[e] /\ Ranked(v, e)
      BY <1>8, <2>2 DEF OutboxInv
    <3> QED BY <3>1, <3>2, <3>3 DEF Ranked
  <2>3. CASE v # w /\ e \in Released(w)
    <3>1. /\ Busy(v, e)' = Busy(v, e) /\ Charge(v, e)' = Charge(v, e)
          /\ workers'[v] = workers[v]
      BY <1>3, <2>3, Others
    <3>2. Ranked(w, e) /\ Ranked(v, e)
      BY DEF OutboxInv
    <3>3. Busy(v, e) => Charge(v, e) < rows[e].attempts
      BY <1>6, <2>3, <3>2 DEF Ranked
    <3>4. Charge(v, e) \in Nat
      BY Bounds DEF OutboxInv, TypeOK, Worker, Charge
    <3>5. /\ rows'[e].attempts = rows[e].attempts - 1 /\ rows'[e].claim = Nobody
          /\ rows'[e].state = rows[e].state
      BY <1>7, <1>8, <2>3
    <3>6. Busy(v, e) => Charge(v, e) <= rows'[e].attempts
      BY <1>6, <2>3, <3>3, <3>4, <3>5
    <3> QED BY <3>1, <3>2, <3>5, <3>6, Bounds DEF Ranked
  <2> QED BY <2>1, <2>2, <2>3
<1> QED BY <1>9, <1>10, <1>11, <1>12 DEF OutboxInv

(* A batch claimed: each row is charged once more, for one more holder.    *)
LEMMA ClaimInv ==
    ASSUME OutboxInv, NEW w \in Workers, NEW S \in SUBSET Events, Claim(w, S)
    PROVE  OutboxInv'
<1> DEFINE k == [pc |-> "connect", row |-> Nobody, batch |-> S,
                 attempts |-> [e \in Events |-> IF e \in S THEN rows'[e].attempts ELSE 0]]
<1>1. /\ workers[w].pc = "idle" /\ \A e \in S : Claimable(e)
      /\ rows' = [e \in Events |-> IF e \in S THEN Claimed(e, w) ELSE rows[e]]
      /\ workers' = [workers EXCEPT ![w] = k] /\ UNCHANGED <<stream, faults>>
  BY DEF Claim
<1>2. ASSUME NEW e \in Events
      PROVE  ~MayAdd(w, e) /\ ~Busy(w, e)
  BY <1>1, Bounds DEF OutboxInv, WorkerInv, MayAdd, Busy
<1>3. ASSUME NEW e \in S
      PROVE  /\ Claimed(e, w) \in Row /\ Claimed(e, w).attempts = rows[e].attempts + 1
             /\ Claimed(e, w).claim = w /\ Claimed(e, w).published = rows[e].published
             /\ Claimed(e, w).abandoned = rows[e].abandoned
             /\ Claimed(e, w).state = rows[e].state
             /\ ~rows[e].published /\ ~rows[e].abandoned /\ rows[e].state = "stored"
             /\ rows[e].attempts \in Nat
  <2>1. rows[e] \in Row /\ Claimable(e)
    BY <1>1 DEF OutboxInv, TypeOK
  <2>2. rows[e].attempts \in Nat /\ rows[e].attempts + 1 \in 0..MaxRetries
    BY <2>1, Bounds DEF Row, Claimable
  <2> QED BY <2>1, <2>2 DEF Row, Claimable, Claimed
<1>4. /\ rows' \in [Events -> Row]
      /\ \A e \in Events : rows'[e] = IF e \in S THEN Claimed(e, w) ELSE rows[e]
  BY <1>1, <1>3 DEF OutboxInv, TypeOK
<1>5. k \in Worker
  <2>1. \A e \in Events : (IF e \in S THEN rows'[e].attempts ELSE 0) \in 0..MaxRetries
    BY <1>4, Bounds DEF Row
  <2> QED BY <2>1 DEF Worker
<1>6. /\ k.pc = "connect" /\ k.row = Nobody /\ k.batch = S
      /\ \A e \in S : k.attempts[e] = rows'[e].attempts
  OBVIOUS
<1> HIDE DEF k
<1>7. /\ workers' \in [Workers -> Worker] /\ workers'[w] = k
      /\ \A v \in Workers \ {w} : workers'[v] = workers[v]
  BY <1>1, <1>5, WorkerEffect DEF OutboxInv
<1>8. TypeOK'
  BY <1>1, <1>4, <1>7 DEF OutboxInv, TypeOK
<1>9. \A e \in Events : /\ MayAdd(w, e)' <=> e \in S
                        /\ Busy(w, e)' <=> e \in S
                        /\ e \in S => Charge(w, e)' = rows'[e].attempts
  BY <1>6, <1>7, Bounds DEF MayAdd, Busy, Charge
<1>10. ASSUME NEW e \in Events
       PROVE  EventInv(e)'
  <2>1. CASE e \in S
    <3>1. Cardinality(Holders(e)') = Cardinality(Holders(e)) + 1
      BY <1>2, <1>7, <1>9, <2>1, Count, Holding
    <3>2. /\ EventInv(e) /\ stream[e] \in Nat /\ Cardinality(Holders(e)) \in Nat
      BY Holding DEF OutboxInv, TypeOK
    <3>3. Paid(e)'
      BY <1>1, <1>3, <1>4, <2>1, <3>1, <3>2 DEF EventInv, Paid
    <3> QED BY <1>1, <1>3, <1>4, <2>1, <3>2, <3>3 DEF EventInv, Streamed, Spent
  <2>2. CASE e \notin S
    <3>1. \A v \in Workers : MayAdd(v, e)' => MayAdd(v, e)
      BY <1>7, <1>9, <2>2, Others
    <3> QED BY <1>1, <1>4, <2>2, <3>1, EventKept
  <2> QED BY <2>1, <2>2
<1>11. ASSUME NEW v \in Workers
       PROVE  WorkerInv(v)'
  <2>1. CASE v = w
    BY <1>6, <1>7, <2>1 DEF WorkerInv
  <2>2. CASE v # w
    BY <1>1, <1>7, <2>2 DEF OutboxInv, WorkerInv
  <2> QED BY <2>1, <2>2
<1>12. ASSUME NEW v \in Workers, NEW e \in Events
       PROVE  Ranked(v, e)'
  <2>1. Ranked(v, e) /\ Charge(v, e) \in Nat
    BY Bounds DEF OutboxInv, TypeOK, Worker, Charge
  <2>2. CASE e \in S
    <3>1. /\ rows'[e].attempts = rows[e].attempts + 1 /\ rows'[e].claim = w
          /\ rows'[e].state = "stored" /\ rows[e].attempts \in Nat
      BY <1>3, <1>4, <2>2
    <3>2. \A u \in Workers \ {w} : Busy(u, e)' => Charge(u, e)' < rows'[e].attempts
      <4> TAKE u \in Workers \ {w}
      <4>1. Ranked(u, e) /\ Charge(u, e) \in Nat
        BY Bounds DEF OutboxInv, TypeOK, Worker, Charge
      <4>2. Busy(u, e)' = Busy(u, e) /\ Charge(u, e)' = Charge(u, e)
        BY <1>7, Others
      <4>3. Busy(u, e) => Charge(u, e) <= rows[e].attempts
        BY <1>3, <2>2, <4>1 DEF Ranked
      <4> QED BY <3>1, <4>1, <4>2, <4>3
    <3>3. CASE v = w
      BY <1>9, <2>2, <3>1, <3>2, <3>3 DEF Ranked
    <3>4. CASE v # w
      <4>1. Busy(v, e)' => Charge(v, e)' <= rows'[e].attempts
        <5>1. Charge(v, e)' = Charge(v, e)
          BY <1>7, <3>4, Others
        <5> QED BY <2>1, <3>1, <3>2, <3>4, <5>1
      <4> QED BY <3>1, <3>4, <4>1 DEF Ranked
    <3> QED BY <3>3, <3>4
  <2>3. CASE e \notin S
    <3>1. \A u \in Workers : Busy(u, e)' => Busy(u, e) /\ Charge(u, e)' = Charge(u, e)
      BY <1>7, <1>9, <2>3, Others
    <3>2. e \in workers'[v].batch => e \in workers[v].batch
      BY <1>6, <1>7, <2>3
    <3>3. rows'[e] = rows[e]
      BY <1>4, <2>3
    <3> QED BY <2>1, <3>1, <3>2, <3>3 DEF Ranked
  <2> QED BY <2>2, <2>3
<1> QED BY <1>8, <1>10, <1>11, <1>12 DEF OutboxInv

-----------------------------------------------------------------------------
LEMMA InitInv == Init => OutboxInv
<1> SUFFICES ASSUME Init PROVE OutboxInv
  OBVIOUS
<1>1. NoRow \in Row
  BY Bounds DEF NoRow, Row
<1>2. TypeOK
  BY <1>1, IdleTyped, Bounds DEF Init, TypeOK
<1>3. \A w \in Workers : WorkerInv(w) /\ \A e \in Events : ~Busy(w, e) /\ ~MayAdd(w, e)
  BY Bounds DEF Init, Idle, WorkerInv, Busy, MayAdd
<1>4. ASSUME NEW e \in Events
      PROVE  EventInv(e)
  <2>1. Holders(e) = {}
    BY <1>3 DEF Holders
  <2>2. Cardinality(Holders(e)) = 0
    BY <2>1, FS_EmptySet
  <2> QED BY <2>2 DEF Init, NoRow, EventInv, Paid, Streamed, Spent
<1> QED BY <1>2, <1>3, <1>4 DEF OutboxInv, Ranked

LEMMA Stutter ==
    ASSUME OutboxInv, UNCHANGED vars
    PROVE  OutboxInv'
<1>1. /\ TypeOK' /\ \A w \in Workers : WorkerInv(w)'
  BY DEF vars, OutboxInv, TypeOK, WorkerInv
<1>2. NothingNew
  BY Same DEF vars, NothingNew
<1>3. \A e \in Events : EventInv(e)'
  BY EventKept DEF vars, MayAdd
<1>4. \A v \in Workers, e \in Events : Ranked(v, e)'
  BY <1>2, RankedKept DEF vars
<1> QED BY <1>1, <1>3, <1>4 DEF OutboxInv

LEMMA StepInv == OutboxInv /\ [Next]_vars => OutboxInv'
<1> SUFFICES ASSUME OutboxInv, [Next]_vars PROVE OutboxInv'
  OBVIOUS
<1>1. CASE \E e \in Events : Store(e) \/ Elapse(e)
  BY <1>1, StoreInv, ElapseInv
<1>2. CASE \E S \in SUBSET Events : (\E w \in Workers : Claim(w, S)) \/ Sweep(S)
  BY <1>2, ClaimInv, SweepInv
<1>3. CASE \E w \in Workers : Work(w)
  BY <1>3, TakeInv, AddInv, MarkInv, FailInv, ReleaseInv DEF Work
<1>4. CASE \E w \in Workers :
             AddFails(w) \/ (\E e \in Events : ConnectFails(w, e)) \/ Crash(w)
  BY <1>4, AddFailsInv, ConnectFailsInv, CrashInv
<1>5. CASE Rescue
  BY <1>5, RescueInv
<1>6. CASE UNCHANGED vars
  BY <1>6, Stutter
<1> QED BY <1>1, <1>2, <1>3, <1>4, <1>5, <1>6 DEF Next

(* Every copy was paid for by a charged attempt, and the last claim of a   *)
(* row was charged the most: _claim_batch charges, only                    *)
(* _release_unattempted gives back.                                        *)
THEOREM OutboxInvariant == Spec => []OutboxInv
<1> QED BY InitInv, StepInv, PTL DEF Spec

(* Nothing is marked published that is not in the stream, and nothing      *)
(* uncommitted or suppressed is in it.                                     *)
THEOREM StreamAgrees == Spec => []StreamTrue
<1>1. OutboxInv => StreamTrue
  BY DEF OutboxInv, EventInv, Streamed, StreamTrue
<1> QED BY <1>1, OutboxInvariant, PTL

(* However many publishers there are and whatever becomes of them,         *)
(* consumers see an event at most MAX_RETRIES times.                       *)
THEOREM CopiesBounded == Spec => []BoundedCopies
<1>1. ASSUME OutboxInv, NEW e \in Events
      PROVE  stream[e] <= MaxRetries
  <2>1. /\ Paid(e) /\ stream[e] \in Nat /\ rows[e].attempts \in 0..MaxRetries
        /\ Cardinality(Holders(e)) \in Nat
    BY <1>1, Holding DEF OutboxInv, EventInv, TypeOK, Row
  <2> QED BY <2>1, Bounds DEF Paid
<1>2. OutboxInv => BoundedCopies
  BY <1>1 DEF BoundedCopies
<1> QED BY <1>2, OutboxInvariant, PTL

(* No row is given up with attempts left, though _mark_failure and the     *)
(* return of a batch write rows that another publisher may have taken.     *)
THEOREM SpentFirst == Spec => []GivenUpWhenSpent
<1>1. OutboxInv => GivenUpWhenSpent
  BY DEF OutboxInv, EventInv, Spent, GivenUpWhenSpent
<1> QED BY <1>1, OutboxInvariant, PTL
=============================================================================
