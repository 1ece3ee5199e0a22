------------------------- MODULE DerivedIndexProofs -------------------------
(* Theorems about DerivedIndex, for any resources and workers and any      *)
(* bounds of revisions, attempts and faults.                               *)
EXTENDS DerivedIndex, TLAPS

At(w) == workers[w].resource

\* A worker is at a revision that is there; what it has decided holds for as
\* long as that revision is the Head.
DecidedBy(w) ==
    /\ workers[w].pc \notin {"idle", "select"} => workers[w].rev \in 1..head[At(w)]
    /\ workers[w].pc = "complete" => ~AtHead(w)
    /\ workers[w].pc = "live" /\ AtHead(w) => live[At(w)]
    /\ workers[w].pc = "delete" /\ AtHead(w) => ~live[At(w)]
Decided == \A w \in Workers : DecidedBy(w)

\* Every revision has its intent, and only revisions have one.
Owed ==
    \A r \in Resources, v \in Revs : intents[r][v].outcome = "none" <=> v > head[r]

\* Without skew the stamps are in the order of the commits.
InOrder ==
    Skew = 0 => \A r \in Resources :
        Len(stamps[r]) = head[r] /\ \A i \in 1..head[r] : stamps[r][i] = i

TrueWhenClosed ==
    Skew = 0 => \A r \in Resources :
        head[r] > 0 /\ ~Pending(r, head[r]) /\ intents[r][head[r]].outcome # "abandoned"
          => Reflects(r)

DerivedInv == TypeOK /\ Decided /\ Owed /\ InOrder /\ TrueWhenClosed

-----------------------------------------------------------------------------
LEMMA Bounds ==
    /\ MaxRev \in Nat \ {0} /\ MaxRetries \in Nat \ {0}
    /\ MaxFaults \in Nat /\ Skew \in Nat
BY DerivedConstants

LEMMA IdleTyped == Idle \in Worker
BY DerivedConstants DEF Idle, Worker

LEMMA Inserted ==
    ASSUME NEW n \in Nat, NEW s \in Seq(1..n), NEW k \in 0..Len(s)
    PROVE  /\ InsertAt(s, Len(s) + 1 - k, n + 1) \in Seq(1..(n + 1))
           /\ k = 0 => InsertAt(s, Len(s) + 1, n + 1) = Append(s, n + 1)
<1> DEFINE i == Len(s) + 1 - k
<1>1. s \in Seq(1..(n + 1)) /\ i \in 1..(Len(s) + 1)
  OBVIOUS
<1> HIDE DEF i
<1>2. SubSeq(s, 1, i - 1) \in Seq(1..(n + 1)) /\ SubSeq(s, i, Len(s)) \in Seq(1..(n + 1))
  <2>1. i - 1 \in 0..Len(s) /\ Len(s) \in Nat
    BY <1>1
  <2>2. SubSeq(s, 1, i - 1) \in Seq(1..(n + 1))
    BY <1>1, <2>1
  <2>3. SubSeq(s, i, Len(s)) \in Seq(1..(n + 1))
    BY <1>1, <2>1
  <2> QED BY <2>2, <2>3
<1>3. <<n + 1>> \in Seq(1..(n + 1))
  OBVIOUS
<1>4. InsertAt(s, i, n + 1) \in Seq(1..(n + 1))
  BY <1>2, <1>3 DEF InsertAt
<1>5. k = 0 => InsertAt(s, Len(s) + 1, n + 1) = Append(s, n + 1)
  <2>1. SubSeq(s, 1, Len(s)) = s /\ SubSeq(s, Len(s) + 1, Len(s)) = <<>>
    OBVIOUS
  <2>2. s \o <<n + 1>> \o <<>> = Append(s, n + 1)
    OBVIOUS
  <2>3. InsertAt(s, Len(s) + 1, n + 1)
          = SubSeq(s, 1, Len(s) + 1 - 1) \o <<n + 1>> \o SubSeq(s, Len(s) + 1, Len(s))
    BY DEF InsertAt
  <2>4. SubSeq(s, 1, Len(s) + 1 - 1) = SubSeq(s, 1, Len(s))
    OBVIOUS
  <2> QED BY <2>1, <2>2, <2>3, <2>4
<1> QED BY <1>4, <1>5 DEF i

(* What the change of one intent leaves.                                   *)
LEMMA Rewritten ==
    ASSUME TypeOK, NEW r \in Resources, NEW v \in Revs, NEW i \in Intent,
           intents' = [intents EXCEPT ![r] = [@ EXCEPT ![v] = i]]
    PROVE  /\ intents' \in [Resources -> [Revs -> Intent]]
           /\ \A q \in Resources, u \in Revs :
                intents'[q][u] = IF q = r /\ u = v THEN i ELSE intents[q][u]
<1>1. intents[r] \in [Revs -> Intent]
  BY DEF TypeOK
<1>2. [intents[r] EXCEPT ![v] = i] \in [Revs -> Intent]
  BY <1>1
<1> QED BY <1>2, <1>1 DEF TypeOK

LEMMA ElapseEffect ==
    ASSUME TypeOK, NEW r \in Resources, NEW v \in Revs, Elapse(r, v)
    PROVE  /\ intents' \in [Resources -> [Revs -> Intent]]
           /\ \A q \in Resources, u \in Revs :
                intents'[q][u].outcome = intents[q][u].outcome
<1> DEFINE i == [intents[r][v] EXCEPT !.due = TRUE]
<1>1. intents[r][v] \in Intent
  BY DEF TypeOK
<1>2. i \in Intent /\ i.outcome = intents[r][v].outcome
  BY <1>1 DEF Intent
<1>3. intents' = [intents EXCEPT ![r] = [@ EXCEPT ![v] = i]]
  BY DEF Elapse
<1> HIDE DEF i
<1> QED BY <1>2, <1>3, Rewritten

LEMMA ClaimEffect ==
    ASSUME TypeOK, NEW w \in Workers, NEW r \in Resources, NEW v \in Revs, Claim(w, r, v)
    PROVE  /\ intents' \in [Resources -> [Revs -> Intent]]
           /\ \A q \in Resources, u \in Revs :
                intents'[q][u].outcome = intents[q][u].outcome
           /\ workers' \in [Workers -> Worker]
           /\ workers'[w].pc = "claimed" /\ workers'[w].resource = r /\ workers'[w].rev = v
           /\ \A x \in Workers \ {w} : workers'[x] = workers[x]
<1> DEFINE i == [intents[r][v] EXCEPT !.due = FALSE, !.attempts = @ + 1]
<1>1. intents[r][v] \in Intent
  BY DEF TypeOK
<1>2. i \in Intent /\ i.outcome = intents[r][v].outcome
  <2>1. intents[r][v].attempts + 1 \in 0..MaxRetries
    BY <1>1, Bounds DEF Intent, Claim, Claimable
  <2> QED BY <1>1, <2>1 DEF Intent
<1>3. intents' = [intents EXCEPT ![r] = [@ EXCEPT ![v] = i]]
  BY <1>1 DEF Claim, TypeOK, Intent
<1>4. /\ intents' \in [Resources -> [Revs -> Intent]]
      /\ \A q \in Resources, u \in Revs :
           intents'[q][u] = IF q = r /\ u = v THEN i ELSE intents[q][u]
  <2> HIDE DEF i
  <2> QED BY <1>2, <1>3, Rewritten
<1>5. intents'[r][v].attempts \in 0..MaxRetries
  BY <1>4 DEF Intent
<1> HIDE DEF i
<1>6. [pc |-> "claimed", resource |-> r, rev |-> v, attempts |-> intents'[r][v].attempts] \in Worker
  BY <1>5, DerivedConstants DEF Worker, Revs
<1> QED BY <1>2, <1>4, <1>6 DEF Claim, TypeOK

(* Each delivery closes or gives back the intent its worker holds, and no  *)
(* other.                                                                  *)
LEMMA CloseEffect ==
    ASSUME TypeOK, Decided, NEW w \in Workers, workers[w].pc \notin {"idle", "select"},
           NEW o \in {"applied", "superseded", "deleted"}, Close(w, o)
    PROVE  /\ intents' \in [Resources -> [Revs -> Intent]]
           /\ \A q \in Resources, u \in Revs :
                intents'[q][u].outcome = IF q = At(w) /\ u = workers[w].rev THEN o
                                         ELSE intents[q][u].outcome
<1> DEFINE r == At(w)  v == workers[w].rev
<1>1. r \in Resources /\ v \in Revs
  BY DerivedConstants DEF TypeOK, Worker, Decided, DecidedBy, At, Revs
<1>2. Closed(o) \in Intent /\ Closed(o).outcome = o
  BY DerivedConstants DEF Closed, Intent
<1>3. intents' = [intents EXCEPT ![r] = [@ EXCEPT ![v] = Closed(o)]]
  BY DEF Close, At
<1> QED BY <1>1, <1>2, <1>3, Rewritten

LEMMA FailEffect ==
    ASSUME TypeOK, Decided, NEW w \in Workers, Fail(w)
    PROVE  /\ intents' \in [Resources -> [Revs -> Intent]]
           /\ \A q \in Resources, u \in Revs :
                \/ intents'[q][u].outcome = intents[q][u].outcome
                \/ Pending(q, u) /\ intents'[q][u].outcome = "abandoned"
<1> DEFINE r == At(w)  v == workers[w].rev  i == Failed(w, intents[r][v])
<1>1. r \in Resources /\ v \in Revs
  <2>1. workers[w].rev \in 1..head[r]
    BY DEF Decided, DecidedBy, Fail
  <2> QED BY <2>1, Bounds DEF TypeOK, Worker, At, Revs
<1>2. intents[r][v] \in Intent
  BY <1>1 DEF TypeOK
<1>3. /\ i \in Intent
      /\ \/ i.outcome = intents[r][v].outcome
         \/ Pending(r, v) /\ i.outcome = "abandoned"
  <2>1. CASE intents[r][v].outcome # "pending"
    <3>1. i = intents[r][v]
      BY <2>1 DEF Failed
    <3> HIDE DEF i
    <3> QED BY <1>2, <3>1
  <2>2. CASE intents[r][v].outcome = "pending" /\ workers[w].attempts >= MaxRetries
    <3>1. i = [intents[r][v] EXCEPT !.outcome = "abandoned", !.due = TRUE]
      BY <2>2 DEF Failed
    <3> HIDE DEF i
    <3> QED BY <1>2, <2>2, <3>1 DEF Intent, Pending
  <2>3. CASE intents[r][v].outcome = "pending" /\ ~(workers[w].attempts >= MaxRetries)
    <3>1. i = [intents[r][v] EXCEPT !.due = FALSE]
      BY <2>3 DEF Failed
    <3> HIDE DEF i
    <3> QED BY <1>2, <2>3, <3>1 DEF Intent
  <2> QED BY <2>1, <2>2, <2>3
<1>4. intents' = [intents EXCEPT ![r] = [@ EXCEPT ![v] = i]]
  BY DEF Fail, At
<1> HIDE DEF i
<1> QED BY <1>1, <1>3, <1>4, Rewritten

LEMMA PublishEffect ==
    ASSUME TypeOK, NEW r \in Resources, NEW alive \in BOOLEAN, Publish(r, alive)
    PROVE  /\ intents' \in [Resources -> [Revs -> Intent]]
           /\ \A q \in Resources, u \in Revs :
                intents'[q][u].outcome = IF q = r /\ u = head[r] + 1 THEN "pending"
                                         ELSE intents[q][u].outcome
           /\ head' = [head EXCEPT ![r] = head[r] + 1]
           /\ head[r] + 1 \in Revs
<1>1. head[r] + 1 \in Revs
  BY Bounds DEF Publish, TypeOK, Revs
<1>2. NewIntent \in Intent /\ NewIntent.outcome = "pending"
  BY DerivedConstants DEF NewIntent, Intent
<1>3. intents' = [intents EXCEPT ![r] = [@ EXCEPT ![head[r] + 1] = NewIntent]]
  BY DEF Publish
<1>4. head' = [head EXCEPT ![r] = head[r] + 1]
  BY DEF Publish
<1> HIDE DEF Publish
<1> QED BY <1>1, <1>2, <1>3, <1>4, Rewritten

LEMMA DerivedEffect ==
    ASSUME TypeOK, NEW q \in Resources, NEW n \in 0..head[q],
           derived' = derived \/ derived' = [derived EXCEPT ![q] = n]
    PROVE  derived' \in [Resources -> 0..MaxRev] /\ \A r \in Resources : derived'[r] <= head[r]
<1>1. n \in 0..MaxRev /\ n <= head[q]
  BY Bounds DEF TypeOK
<1>2. CASE derived' = derived
  BY <1>2 DEF TypeOK
<1>3. CASE derived' = [derived EXCEPT ![q] = n]
  BY <1>1, <1>3 DEF TypeOK
<1> QED BY <1>2, <1>3

LEMMA SweepEffect ==
    ASSUME TypeOK, (\E w \in Workers : CloseOutranked(w)) \/ Rescue
    PROVE  /\ intents' \in [Resources -> [Revs -> Intent]]
           /\ \A q \in Resources, u \in Revs :
                \/ intents'[q][u].outcome = intents[q][u].outcome
                \/ Pending(q, u) /\ intents'[q][u].outcome = "abandoned"
                \/ Outranked(q, u) /\ intents'[q][u].outcome = "superseded"
<1>1. Closed("superseded") \in Intent /\ Closed("superseded").outcome = "superseded"
  BY DerivedConstants DEF Closed, Intent
<1>2. \A q \in Resources, u \in Revs :
        LET i == [intents[q][u] EXCEPT !.outcome = "abandoned"]
        IN  i \in Intent /\ i.outcome = "abandoned"
  <2> SUFFICES ASSUME NEW q \in Resources, NEW u \in Revs
               PROVE  LET i == [intents[q][u] EXCEPT !.outcome = "abandoned"]
                      IN  i \in Intent /\ i.outcome = "abandoned"
    OBVIOUS
  <2>1. intents[q][u] \in Intent
    BY DEF TypeOK
  <2> QED BY <2>1 DEF Intent
<1>3. \A q \in Resources, u \in Revs : Exhausted(q, u) => Pending(q, u)
  BY DEF Exhausted
<1>4. CASE \E w \in Workers : CloseOutranked(w)
  BY <1>1, <1>4 DEF CloseOutranked, TypeOK
<1>5. CASE Rescue
  BY <1>2, <1>3, <1>5 DEF Rescue, TypeOK
<1> QED BY <1>4, <1>5

-----------------------------------------------------------------------------
LEMMA TypeStep ==
    ASSUME TypeOK, Decided, [Next]_vars
    PROVE  TypeOK'
<1> USE DerivedConstants, IdleTyped DEF TypeOK
<1>1. ASSUME NEW r \in Resources, NEW alive \in BOOLEAN, Publish(r, alive) PROVE TypeOK'
  <2>1. head' \in [Resources -> 0..MaxRev] /\ live' \in [Resources -> BOOLEAN]
    BY <1>1 DEF Publish
  <2>2. ASSUME NEW q \in Resources PROVE stamps'[q] \in Seq(1..head'[q])
    <3>1. CASE q # r
      BY <1>1, <3>1 DEF Publish
    <3>2. CASE q = r
      <4>1. PICK k \in 0..Skew : k <= Len(stamps[r])
              /\ stamps' = [stamps EXCEPT ![r] = InsertAt(@, Len(@) + 1 - k, head[r] + 1)]
        BY <1>1 DEF Publish
      <4> QED BY <4>1, <3>2, <1>1, Inserted DEF Publish
    <3> QED BY <3>1, <3>2
  <2>3. \A q \in Resources : derived'[q] <= head'[q]
    BY <1>1 DEF Publish
  <2>4. stamps' \in [Resources -> Seq(Revs)]
    <3>1. \A q \in Resources : stamps'[q] \in Seq(Revs)
      BY <2>1, <2>2, Bounds DEF Revs
    <3>2. stamps' = [q \in Resources |-> stamps'[q]]
      BY <1>1 DEF Publish
    <3> QED BY <3>1, <3>2
  <2> QED BY <1>1, <2>1, <2>2, <2>3, <2>4, PublishEffect DEF Publish
<1>2. ASSUME NEW r \in Resources, NEW v \in Revs, Elapse(r, v) PROVE TypeOK'
  BY <1>2, ElapseEffect DEF Elapse, ledger
<1>3. ASSUME NEW w \in Workers, CloseOutranked(w) PROVE TypeOK'
  BY <1>3, SweepEffect DEF CloseOutranked, ledger, Worker
<1>4. ASSUME NEW w \in Workers, NEW r \in Resources, NEW v \in Revs, Claim(w, r, v) PROVE TypeOK'
  BY <1>4, ClaimEffect DEF Claim, ledger
<1>5. ASSUME NEW w \in Workers, NothingDue(w) PROVE TypeOK'
  BY <1>5 DEF NothingDue, ledger
<1>6. ASSUME NEW w \in Workers, Deliver(w) PROVE TypeOK'
  <2>0. At(w) \in Resources /\ (workers[w].pc \notin {"idle", "select"} => workers[w].rev \in 1..head[At(w)])
    BY DEF Worker, Decided, DecidedBy, At
  <2>1. CASE ReadHead(w)
    BY <2>1 DEF ReadHead, ledger, Worker
  <2>2. CASE Complete(w)
    BY <2>0, <2>2, CloseEffect DEF Complete, Close, ledger
  <2>3. CASE ApplyLive(w)
    <3>1. intents' \in [Resources -> [Revs -> Intent]]
      BY <2>3, CloseEffect DEF ApplyLive
    <3>2. derived' = derived \/ derived' = [derived EXCEPT ![At(w)] = workers[w].rev]
      BY <2>3 DEF ApplyLive, At
    <3>3. workers[w].rev \in 0..head[At(w)]
      BY <2>0, <2>3 DEF ApplyLive
    <3>4. derived' \in [Resources -> 0..MaxRev] /\ \A q \in Resources : derived'[q] <= head[q]
      BY <2>0, <3>2, <3>3, DerivedEffect
    <3> QED BY <2>3, <3>1, <3>4 DEF ApplyLive, Close, ledger
  <2>4. CASE ApplyDelete(w)
    <3>1. intents' \in [Resources -> [Revs -> Intent]]
      BY <2>4, CloseEffect DEF ApplyDelete
    <3>2. derived' = derived \/ derived' = [derived EXCEPT ![At(w)] = 0]
      BY <2>4 DEF ApplyDelete, At
    <3>3. 0 \in 0..head[At(w)]
      BY <2>0
    <3>4. derived' \in [Resources -> 0..MaxRev] /\ \A q \in Resources : derived'[q] <= head[q]
      BY <2>0, <3>2, <3>3, DerivedEffect
    <3> QED BY <2>4, <3>1, <3>4 DEF ApplyDelete, Close, ledger
  <2>5. CASE Fail(w)
    BY <2>0, <2>5, FailEffect DEF Fail, ledger
  <2> QED BY <1>6, <2>1, <2>2, <2>3, <2>4, <2>5 DEF Deliver
<1>7. ASSUME NEW w \in Workers, Raise(w) \/ Crash(w) PROVE TypeOK'
  <2>1. CASE Raise(w)
    <3>1. [workers[w] EXCEPT !.pc = "fail"] \in Worker
      BY DEF Worker
    <3>2. workers' \in [Workers -> Worker]
      BY <2>1, <3>1 DEF Raise
    <3> QED BY <2>1, <3>2, Bounds DEF Raise, ledger
  <2>2. CASE Crash(w)
    BY <2>2, Bounds DEF Crash, ledger
  <2> QED BY <1>7, <2>1, <2>2
<1>8. CASE Rescue
  BY <1>8, SweepEffect DEF Rescue, ledger
<1>9. CASE UNCHANGED vars
  BY <1>9 DEF vars, ledger
<1> QED BY <1>1, <1>2, <1>3, <1>4, <1>5, <1>6, <1>7, <1>8, <1>9 DEF Next

(* The workers that a step leaves alone, or takes out of their pass.       *)
LEMMA DecidedStep ==
    ASSUME TypeOK, Decided, Owed, [Next]_vars
    PROVE  Decided'
<1> USE Bounds DEF Decided, DecidedBy, At, AtHead
<1>1. ASSUME NEW r \in Resources, NEW alive \in BOOLEAN, Publish(r, alive) PROVE Decided'
  <2>1. \A w \in Workers : workers'[w] = workers[w] /\ workers[w].resource \in Resources
    BY <1>1 DEF Publish, Worker, TypeOK
  <2>2. \A q \in Resources : q # r => head'[q] = head[q] /\ live'[q] = live[q]
    BY <1>1 DEF Publish, TypeOK
  <2>3. head'[r] = head[r] + 1 /\ head[r] \in 0..MaxRev
    BY <1>1 DEF Publish, TypeOK
  <2>4. ASSUME NEW w \in Workers PROVE DecidedBy(w)'
    <3>1. CASE workers[w].resource # r
      BY <2>1, <2>2, <3>1
    <3>2. CASE workers[w].resource = r
      BY <2>1, <2>3, <3>2
    <3> QED BY <3>1, <3>2
  <2> QED BY <2>4
<1>2. ASSUME NEW r \in Resources, NEW v \in Revs, Elapse(r, v) PROVE Decided'
  BY <1>2 DEF Elapse, ledger
<1>3. ASSUME NEW w \in Workers, CloseOutranked(w) \/ NothingDue(w) PROVE Decided'
  <2>1. head' = head /\ live' = live
    BY <1>3 DEF CloseOutranked, NothingDue, ledger
  <2>2. workers'[w].pc \in {"idle", "select"}
    BY <1>3 DEF CloseOutranked, NothingDue, Idle, TypeOK, Worker
  <2>3. \A x \in Workers \ {w} : workers'[x] = workers[x]
    BY <1>3 DEF CloseOutranked, NothingDue, TypeOK
  <2> QED BY <2>1, <2>2, <2>3
<1>4. ASSUME NEW w \in Workers, NEW r \in Resources, NEW v \in Revs, Claim(w, r, v) PROVE Decided'
  <2>1. head' = head /\ live' = live
    BY <1>4 DEF Claim, ledger
  <2>2. v \in 1..head[r]
    BY <1>4 DEF Claim, Claimable, Pending, Owed, Revs, TypeOK
  <2>3. /\ workers'[w].pc = "claimed" /\ workers'[w].resource = r /\ workers'[w].rev = v
        /\ \A x \in Workers \ {w} : workers'[x] = workers[x]
    BY <1>4, ClaimEffect
  <2> QED BY <2>1, <2>2, <2>3
<1>5. ASSUME NEW w \in Workers, Deliver(w) \/ Raise(w) \/ Crash(w) PROVE Decided'
  <2>1. head' = head /\ live' = live
    BY <1>5 DEF Deliver, ReadHead, Complete, ApplyLive, ApplyDelete, Fail, Raise, Crash, ledger
  <2>2. \A x \in Workers \ {w} : workers'[x] = workers[x]
    BY <1>5 DEF Deliver, ReadHead, Complete, ApplyLive, ApplyDelete, Fail, Close, Raise, Crash, TypeOK
  <2>3. CASE ReadHead(w)
    BY <2>1, <2>2, <2>3 DEF ReadHead, Worker, TypeOK
  <2>4. CASE Raise(w)
    BY <2>1, <2>2, <2>4 DEF Raise, Worker, TypeOK
  <2>5. CASE Complete(w) \/ ApplyLive(w) \/ ApplyDelete(w) \/ Fail(w) \/ Crash(w)
    <3>1. workers'[w].pc = "idle"
      BY <2>5 DEF Complete, ApplyLive, ApplyDelete, Fail, Crash, Close, Idle, TypeOK
    <3> QED BY <2>1, <2>2, <3>1
  <2> QED BY <1>5, <2>3, <2>4, <2>5 DEF Deliver
<1>6. CASE Rescue
  BY <1>6 DEF Rescue, ledger
<1>7. CASE UNCHANGED vars
  BY <1>7 DEF vars, ledger
<1> QED BY <1>1, <1>2, <1>3, <1>4, <1>5, <1>6, <1>7 DEF Next

LEMMA OwedStep ==
    ASSUME TypeOK, Decided, Owed, [Next]_vars
    PROVE  Owed'
<1> USE DEF Owed
<1>1. ASSUME NEW r \in Resources, NEW alive \in BOOLEAN, Publish(r, alive) PROVE Owed'
  <2>1. \A q \in Resources : head[q] \in 0..MaxRev /\ head'[q] = IF q = r THEN head[r] + 1 ELSE head[q]
    BY <1>1, PublishEffect DEF TypeOK
  <2>2. \A q \in Resources, u \in Revs :
          intents'[q][u].outcome = IF q = r /\ u = head[r] + 1 THEN "pending" ELSE intents[q][u].outcome
    BY <1>1, PublishEffect
  <2>3. ASSUME NEW q \in Resources, NEW u \in Revs
        PROVE  intents'[q][u].outcome = "none" <=> u > head'[q]
    <3>1. u \in Int /\ head[q] \in Int /\ (intents[q][u].outcome = "none" <=> u > head[q])
      BY <2>1, Bounds DEF Revs
    <3>2. CASE q = r /\ u = head[r] + 1
      BY <2>1, <2>2, <3>1, <3>2
    <3>3. CASE ~(q = r /\ u = head[r] + 1)
      BY <2>1, <2>2, <3>1, <3>3
    <3> QED BY <3>2, <3>3
  <2> QED BY <2>3
<1>2. ASSUME head' = head,
             \A q \in Resources, u \in Revs :
               intents'[q][u].outcome = "none" <=> intents[q][u].outcome = "none"
      PROVE  Owed'
  BY <1>2
<1>3. ASSUME NEW r \in Resources, NEW v \in Revs, Elapse(r, v) PROVE Owed'
  BY <1>2, <1>3, ElapseEffect DEF Elapse, ledger
<1>4. ASSUME NEW w \in Workers, CloseOutranked(w) \/ NothingDue(w) PROVE Owed'
  <2>1. CASE CloseOutranked(w)
    <3>1. head' = head
      BY <2>1 DEF CloseOutranked, ledger
    <3>2. \A q \in Resources, u \in Revs :
            intents'[q][u].outcome = "none" <=> intents[q][u].outcome = "none"
      BY <2>1, SweepEffect DEF Outranked, Pending
    <3> QED BY <1>2, <3>1, <3>2
  <2>2. CASE NothingDue(w)
    BY <2>2 DEF NothingDue, ledger
  <2> QED BY <1>4, <2>1, <2>2
<1>5. ASSUME NEW w \in Workers, NEW r \in Resources, NEW v \in Revs, Claim(w, r, v) PROVE Owed'
  <2>1. head' = head
    BY <1>5 DEF Claim, ledger
  <2>2. \A q \in Resources, u \in Revs : intents'[q][u].outcome = intents[q][u].outcome
    BY <1>5, ClaimEffect
  <2> QED BY <1>2, <2>1, <2>2
<1>6. ASSUME NEW w \in Workers, Deliver(w) \/ Raise(w) \/ Crash(w) PROVE Owed'
  <2>1. head' = head
    BY <1>6 DEF Deliver, ReadHead, Complete, ApplyLive, ApplyDelete, Fail, Raise, Crash, ledger
  <2>2. CASE ReadHead(w) \/ Raise(w) \/ Crash(w)
    BY <2>1, <2>2 DEF ReadHead, Raise, Crash
  <2>3. CASE Fail(w)
    BY <1>2, <2>1, <2>3, FailEffect DEF Pending
  <2>4. ASSUME NEW o \in {"applied", "superseded", "deleted"}, Close(w, o),
               workers[w].pc \notin {"idle", "select"}
        PROVE  Owed'
    <3>1. At(w) \in Resources /\ workers[w].rev \in 1..head[At(w)] /\ head[At(w)] \in 0..MaxRev
      BY <2>4 DEF Decided, DecidedBy, TypeOK, Worker, At
    <3>2. workers[w].rev \in Revs /\ ~(workers[w].rev > head[At(w)])
      BY <3>1, Bounds DEF Revs
    <3> QED BY <1>2, <2>1, <2>4, <3>1, <3>2, CloseEffect
  <2>5. CASE Complete(w) \/ ApplyLive(w) \/ ApplyDelete(w)
    BY <2>4, <2>5 DEF Complete, ApplyLive, ApplyDelete
  <2> QED BY <1>6, <2>2, <2>3, <2>5 DEF Deliver
<1>7. CASE Rescue
  BY <1>2, <1>7, SweepEffect DEF Rescue, ledger, Outranked, Pending
<1>8. CASE UNCHANGED vars
  BY <1>8 DEF vars, ledger
<1> QED BY <1>1, <1>3, <1>4, <1>5, <1>6, <1>7, <1>8 DEF Next

LEMMA InOrderStep ==
    ASSUME TypeOK, InOrder, [Next]_vars
    PROVE  InOrder'
<1>1. ASSUME NEW r \in Resources, NEW alive \in BOOLEAN, Publish(r, alive), Skew = 0 PROVE InOrder'
  <2>1. stamps' = [stamps EXCEPT ![r] = Append(stamps[r], head[r] + 1)]
    <3>1. PICK k \in 0..Skew : stamps' = [stamps EXCEPT ![r] = InsertAt(@, Len(@) + 1 - k, head[r] + 1)]
      BY <1>1 DEF Publish
    <3>2. k = 0 /\ stamps[r] \in Seq(1..head[r]) /\ head[r] \in Nat /\ 0 \in 0..Len(stamps[r])
      BY <1>1 DEF TypeOK
    <3>3. InsertAt(stamps[r], Len(stamps[r]) + 1, head[r] + 1) = Append(stamps[r], head[r] + 1)
      BY <3>2, Inserted
    <3>4. Len(stamps[r]) + 1 - 0 = Len(stamps[r]) + 1
      BY <3>2
    <3> QED BY <3>1, <3>2, <3>3, <3>4
  <2>2. head' = [head EXCEPT ![r] = head[r] + 1] /\ head[r] \in Nat
    BY <1>1 DEF Publish, TypeOK
  <2>3. stamps[r] \in Seq(Revs) /\ Len(stamps[r]) = head[r] /\ \A i \in 1..head[r] : stamps[r][i] = i
    BY <1>1 DEF InOrder, TypeOK
  <2>4. /\ Len(stamps'[r]) = head'[r]
        /\ \A i \in 1..head'[r] : stamps'[r][i] = i
    <3>1. stamps'[r] = Append(stamps[r], head[r] + 1) /\ head'[r] = head[r] + 1
      BY <2>1, <2>2 DEF TypeOK
    <3> QED BY <3>1, <2>2, <2>3
  <2>5. \A q \in Resources : q # r => stamps'[q] = stamps[q] /\ head'[q] = head[q]
    BY <2>1, <2>2 DEF TypeOK
  <2> QED BY <1>1, <2>4, <2>5 DEF InOrder
<1>2. ASSUME NEW r \in Resources, NEW alive \in BOOLEAN, Publish(r, alive), Skew # 0 PROVE InOrder'
  BY <1>2 DEF InOrder
<1>3. CASE UNCHANGED ledger
  BY <1>3 DEF InOrder, ledger
<1> QED BY <1>1, <1>2, <1>3 DEF Next, vars, ledger, Elapse, CloseOutranked, Claim, NothingDue, Deliver,
           ReadHead, Complete, ApplyLive, ApplyDelete, Fail, Raise, Crash, Rescue

-----------------------------------------------------------------------------
(* A step that leaves the ledger and the chunks alone, and closes nothing  *)
(* at a Head but as abandoned.                                             *)
LEMMA Harmless ==
    ASSUME UNCHANGED <<ledger, derived>>, TrueWhenClosed,
           Skew = 0 => \A q \in Resources :
             head[q] > 0 =>
               \/ intents'[q][head[q]].outcome = intents[q][head[q]].outcome
               \/ intents'[q][head[q]].outcome = "abandoned"
    PROVE  TrueWhenClosed'
BY DEF TrueWhenClosed, Reflects, Pending, ledger

LEMMA TrueStep ==
    ASSUME TypeOK, Decided, InOrder, TrueWhenClosed, [Next]_vars
    PROVE  TrueWhenClosed'
<1>0. \A q \in Resources : head[q] \in 0..MaxRev /\ (head[q] > 0 => head[q] \in Revs)
  BY Bounds DEF TypeOK, Revs
<1>1. ASSUME NEW r \in Resources, NEW alive \in BOOLEAN, Publish(r, alive) PROVE TrueWhenClosed'
  <2>1. \A q \in Resources : q # r => head'[q] = head[q] /\ live'[q] = live[q] /\ derived'[q] = derived[q]
    BY <1>1 DEF Publish, TypeOK
  <2>2. head'[r] = head[r] + 1 /\ head[r] + 1 \in Revs
    BY <1>1, PublishEffect DEF TypeOK
  <2>3. intents'[r][head'[r]].outcome = "pending"
    BY <1>1, <2>2, PublishEffect
  <2>4. \A q \in Resources : q # r /\ head[q] > 0 => intents'[q][head'[q]].outcome = intents[q][head[q]].outcome
    BY <1>0, <1>1, <2>1, PublishEffect
  <2> QED BY <2>1, <2>3, <2>4 DEF TrueWhenClosed, Reflects, Pending
<1>2. ASSUME NEW r \in Resources, NEW v \in Revs, Elapse(r, v) PROVE TrueWhenClosed'
  BY <1>0, <1>2, ElapseEffect, Harmless DEF Elapse
<1>3. ASSUME (\E w \in Workers : CloseOutranked(w)) \/ Rescue PROVE TrueWhenClosed'
  <2>1. ASSUME Skew = 0, NEW q \in Resources, head[q] > 0 PROVE ~Outranked(q, head[q])
    <3> SUFFICES ASSUME NEW i \in DOMAIN stamps[q], NEW j \in DOMAIN stamps[q],
                        i < j, stamps[q][i] = head[q]
                 PROVE  FALSE
      BY DEF Outranked
    <3>1. DOMAIN stamps[q] = 1..head[q] /\ head[q] \in Nat
      BY <1>0, <2>1 DEF InOrder, TypeOK
    <3>2. stamps[q][i] = i
      BY <2>1, <3>1 DEF InOrder
    <3> QED BY <3>1, <3>2
  <2>2. UNCHANGED <<ledger, derived>>
    BY <1>3 DEF CloseOutranked, Rescue
  <2> QED BY <1>0, <1>3, <2>1, <2>2, SweepEffect, Harmless
<1>4. ASSUME NEW w \in Workers, NEW r \in Resources, NEW v \in Revs, Claim(w, r, v) PROVE TrueWhenClosed'
  <2>1. UNCHANGED <<ledger, derived>>
    BY <1>4 DEF Claim
  <2> QED BY <1>0, <1>4, <2>1, ClaimEffect, Harmless
<1>5. ASSUME NEW w \in Workers, NothingDue(w) \/ ReadHead(w) \/ Raise(w) \/ Crash(w) PROVE TrueWhenClosed'
  BY <1>5, Harmless DEF NothingDue, ReadHead, Raise, Crash
<1>6. ASSUME NEW w \in Workers, Fail(w) PROVE TrueWhenClosed'
  BY <1>0, <1>6, FailEffect, Harmless DEF Fail
<1>7. ASSUME NEW w \in Workers, Complete(w) \/ ApplyLive(w) \/ ApplyDelete(w) PROVE TrueWhenClosed'
  <2> DEFINE r == At(w)
  <2>1. PICK o \in {"applied", "superseded", "deleted"} : Close(w, o)
    BY <1>7 DEF Complete, ApplyLive, ApplyDelete
  <2>2. workers[w].pc \notin {"idle", "select"} /\ UNCHANGED ledger
    BY <1>7 DEF Complete, ApplyLive, ApplyDelete
  <2>3. \A q \in Resources, u \in Revs :
          ~(q = r /\ u = workers[w].rev) => intents'[q][u].outcome = intents[q][u].outcome
    BY <2>1, <2>2, CloseEffect
  <2>4. r \in Resources
    BY DEF At, TypeOK, Worker
  <2>5. CASE ~AtHead(w)
    <3>1. UNCHANGED derived
      BY <1>7, <2>5 DEF Complete, ApplyLive, ApplyDelete
    <3> QED BY <1>0, <2>2, <2>3, <2>5, <3>1, Harmless DEF AtHead, At
  <2>6. CASE AtHead(w)
    <3>1. derived' = [derived EXCEPT ![r] = IF live[r] THEN head[r] ELSE 0]
      BY <1>7, <2>6 DEF Complete, ApplyLive, ApplyDelete, Decided, DecidedBy, At, AtHead
    <3>2. derived'[r] = IF live'[r] THEN head'[r] ELSE 0
      <4>1. derived'[r] = IF live[r] THEN head[r] ELSE 0
        BY <2>4, <3>1 DEF TypeOK
      <4>2. live' = live /\ head' = head /\ workers[w].resource = r
        BY <2>2 DEF ledger, At
      <4> HIDE DEF r
      <4> QED BY <4>1, <4>2
    <3>3. \A q \in Resources \ {r} : derived'[q] = derived[q]
      BY <3>1 DEF TypeOK
    <3>4. head' = head /\ live' = live
      BY <2>2 DEF ledger
    <3>5. \A q \in Resources \ {r} : head[q] > 0 =>
            intents'[q][head[q]].outcome = intents[q][head[q]].outcome
      BY <1>0, <2>3
    <3> HIDE DEF r
    <3> QED BY <3>2, <3>3, <3>4, <3>5 DEF TrueWhenClosed, Reflects, Pending
  <2> QED BY <2>5, <2>6
<1>8. CASE UNCHANGED vars
  BY <1>8 DEF vars, ledger, TrueWhenClosed, Reflects, Pending
<1> QED BY <1>1, <1>2, <1>3, <1>4, <1>5, <1>6, <1>7, <1>8 DEF Next, Deliver

LEMMA InvInit == Init => DerivedInv
<1> SUFFICES ASSUME Init PROVE DerivedInv
  OBVIOUS
<1>1. NoIntent \in Intent /\ NoIntent.outcome = "none"
  BY Bounds DEF NoIntent, Intent
<1>2. TypeOK
  BY <1>1, Bounds, IdleTyped DEF Init, TypeOK
<1>3. \A w \in Workers : workers[w].pc = "idle"
  BY DEF Init, Idle
<1> QED BY <1>1, <1>2, <1>3 DEF Init, DerivedInv, Decided, DecidedBy, Owed, InOrder, TrueWhenClosed, Revs

(* The invariant, whatever the clocks do.                                  *)
THEOREM DerivedInvariant == Spec => []DerivedInv
<1>1. DerivedInv /\ [Next]_vars => DerivedInv'
  BY TypeStep, DecidedStep, OwedStep, InOrderStep, TrueStep DEF DerivedInv
<1> QED BY <1>1, InvInit, PTL DEF Spec

(* With one clock, an intent closed as done says so truthfully:            *)
(* native_derived_worker.py closes an intent of a Head only once the       *)
(* chunks are those of that Head.                                          *)
THEOREM Truthful == ASSUME Skew = 0 PROVE Spec => []HealthTruthful
<1>1. DerivedInv => HealthTruthful
  BY DEF DerivedInv, TrueWhenClosed, HealthTruthful
<1> QED BY <1>1, DerivedInvariant, PTL

(* No worker brings an older revision back, whatever the clocks do.        *)
THEOREM Forward == Spec => NeverBackwards
<1> DEFINE Step == \A r \in Resources : derived'[r] # derived[r] =>
                     \/ live[r] /\ derived'[r] = head[r]
                     \/ ~live[r] /\ derived'[r] = 0
<1>1. DerivedInv /\ [Next]_vars => [Step]_vars
  <2> SUFFICES ASSUME DerivedInv, Next PROVE Step
    OBVIOUS
  <2>1. CASE UNCHANGED derived
    BY <2>1
  <2>2. ASSUME NEW w \in Workers, ApplyLive(w) PROVE Step
    BY <2>2 DEF ApplyLive, AtHead, DerivedInv, TypeOK
  <2>3. ASSUME NEW w \in Workers, ApplyDelete(w) PROVE Step
    BY <2>3 DEF ApplyDelete, DerivedInv, TypeOK
  <2> QED BY <2>1, <2>2, <2>3 DEF Next, Publish, Elapse, CloseOutranked, Claim, NothingDue, Deliver,
             ReadHead, Complete, Fail, Raise, Crash, Rescue
<1> QED BY <1>1, DerivedInvariant, PTL DEF Spec, NeverBackwards
=============================================================================
