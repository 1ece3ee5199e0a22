------------------------- MODULE LaneAndStoreProofs -------------------------
(***************************************************************************)
(* Theorems about what is kept outside the database and how it is reached: *)
(* the lane of the writes that commit to Git (WriteLane), for any writes,  *)
(* chores, tails, connections and vaults, and the store of files and       *)
(* images (ObjectStore), for any files, images, workers and bounds.  The   *)
(* two share nothing but this module.                                      *)
(***************************************************************************)
EXTENDS WriteLane, ObjectStore, FiniteSetTheorems, SequenceTheorems,
        WellFoundedInduction, TLAPS

-----------------------------------------------------------------------------
(* The write lane. *)
WaitsIn == {w \in Writes : stage[w] \in {"gate", "slot"}}
Inside == {"inside", "commit", "leaving"}
Gate == {"slot"} \cup Inside

Typed ==
    /\ pc \in [Users -> States]
    /\ \A c \in Calls \ Nested : pc[c] \in {"away", "preflight", "work"}
    /\ stage \in [Jobs -> Stages]
    /\ cancelled \subseteq Jobs
    /\ slots \in Int
    /\ waiters \in Int
    /\ threads \in [Jobs -> {"none", "queued", "running", "done"}]

\* Only a job in its commit has a thread, and only a write that was given a
\* slot asks for a connection.
Ordered ==
    /\ \A j \in Jobs : threads[j] # "none" => stage[j] = "commit"
    /\ \A w \in Writes : pc[w] # "away" => stage[w] \in {"inside", "commit"}
    /\ \A c \in Chores : stage[c] \in {"idle", "slot", "owed", "commit"}

Gates ==
    /\ gates = {VaultOf[w] : w \in Gated}
    /\ \A v, w \in Gated : VaultOf[v] = VaultOf[w] => v = w

Counts ==
    /\ slots >= 0
    /\ slots + Cardinality(Admitted) = Concurrency
    /\ waiters = Cardinality(WaitsIn)

LaneInv == Typed /\ Ordered /\ Gates /\ Counts /\ InUse <= PoolSize

-----------------------------------------------------------------------------
LEMMA Sets ==
    /\ IsFiniteSet(Users) /\ IsFiniteSet(Jobs) /\ IsFiniteSet(Writes)
    /\ Writes \subseteq Users /\ Writes \subseteq Calls /\ Writes \subseteq Jobs
    /\ Chores \subseteq Jobs /\ Writes \cap Chores = {}
    /\ Writes \cap (Tails \cup Nested) = {} /\ Nested \subseteq Users
    /\ Atomic \subseteq Nested
<1>1. Writes \subseteq Users /\ Writes \cap Chores = {}
  BY LaneConstants DEF Users
<1>2. IsFiniteSet(Writes)
  BY <1>1, PoolConstants, FS_Subset DEF Users
<1>3. IsFiniteSet(Jobs)
  BY <1>2, LaneConstants, FS_Union DEF Jobs
<1> QED BY <1>1, <1>2, <1>3, PoolConstants, LaneConstants DEF Jobs, Users

LEMMA TypedStep ==
    ASSUME Typed, LaneNext
    PROVE  Typed'
<1> USE Sets DEF Typed, To, States, Stages, Goes
<1>1. ASSUME NEW w \in Writes, Write(w) PROVE Typed'
  <2>0. w \in Jobs /\ w \in Users
    BY Sets
  <2>1. CASE Enter(w)
    BY <2>0, <2>1 DEF Enter
  <2>2. CASE TakeGate(w)
    BY <2>0, <2>2 DEF TakeGate
  <2>3. CASE TakeSlot(w)
    BY <2>0, <2>3 DEF TakeSlot, Arrive
  <2>4. CASE GiveUp(w)
    BY <2>0, <2>4 DEF GiveUp
  <2>5. CASE Commit(w)
    BY <2>0, <2>5 DEF Commit
  <2>6. CASE Abort(w)
    BY <2>0, <2>6 DEF Abort, Disconnect
  <2>7. CASE Conclude(w)
    BY <2>0, <2>7 DEF Conclude
  <2>8. CASE Leave(w)
    BY <2>0, <2>8 DEF Leave
  <2>9. CASE ReapCommit(w)
    BY <2>0, <2>9 DEF ReapCommit, lane
  <2> QED BY <1>1, <2>1, <2>2, <2>3, <2>4, <2>5, <2>6, <2>7, <2>8, <2>9 DEF Write
<1>2. ASSUME NEW c \in Chores, Chore(c) PROVE Typed'
  BY <1>2 DEF Chore, StartChore, TakeChoreSlot, ConcludeChore
<1>3. ASSUME NEW j \in Jobs, Cancel(j) \/ RunThread(j) \/ EndThread(j) PROVE Typed'
  BY <1>3 DEF Cancel, Absorb, StopWaiting, RunThread, EndThread
<1>4. ASSUME Other, UNCHANGED lane PROVE Typed'
  <2>1. ASSUME NEW u \in Users \ Writes, Arrive(u) \/ Finish(u) \/ Disconnect(u) PROVE Typed'
    BY <1>4, <2>1, PoolConstants DEF lane, Users, Arrive, Finish, Disconnect
  <2>2. ASSUME NEW u \in Users, Grant(u) PROVE Typed'
    BY <1>4, <2>2, PoolConstants DEF lane, Users, Grant
  <2>3. ASSUME NEW u \in Tails \cup Nested, Ask(u) \/ Answer(u) \/ Reap(u) \/ Resume(u) PROVE Typed'
    BY <1>4, <2>3, PoolConstants DEF lane, Users, Ask, Answer, Reap, Resume
  <2> QED BY <1>4, <2>1, <2>2, <2>3 DEF Other, Ask, Answer, Reap
<1> QED BY <1>1, <1>2, <1>3, <1>4 DEF LaneNext

LEMMA OrderedStep ==
    ASSUME Typed, Ordered, LaneNext
    PROVE  Ordered'
<1> USE Sets DEF Typed, Ordered, To, Goes
<1>1. ASSUME NEW w \in Writes, Write(w) PROVE Ordered'
  <2>0. w \in Jobs /\ w \in Users
    BY Sets
  <2>1. CASE Enter(w)
    BY <2>0, <2>1 DEF Enter
  <2>2. CASE TakeGate(w)
    BY <2>0, <2>2 DEF TakeGate
  <2>3. CASE TakeSlot(w)
    BY <2>0, <2>3 DEF TakeSlot, Arrive
  <2>4. CASE GiveUp(w)
    BY <2>0, <2>4 DEF GiveUp
  <2>5. CASE Commit(w)
    BY <2>0, <2>5 DEF Commit
  <2>6. CASE Abort(w)
    BY <2>0, <2>6 DEF Abort, Disconnect
  <2>7. CASE Conclude(w)
    BY <2>0, <2>7 DEF Conclude
  <2>8. CASE Leave(w)
    BY <2>0, <2>8 DEF Leave
  <2>9. CASE ReapCommit(w)
    BY <2>0, <2>9 DEF ReapCommit, lane
  <2> QED BY <1>1, <2>1, <2>2, <2>3, <2>4, <2>5, <2>6, <2>7, <2>8, <2>9 DEF Write
<1>2. ASSUME NEW c \in Chores, Chore(c) PROVE Ordered'
  BY <1>2 DEF Chore, StartChore, TakeChoreSlot, ConcludeChore
<1>3. ASSUME NEW j \in Jobs, Cancel(j) \/ RunThread(j) \/ EndThread(j) PROVE Ordered'
  BY <1>3 DEF Cancel, Absorb, StopWaiting, RunThread, EndThread
<1>4. ASSUME Other, UNCHANGED lane PROVE Ordered'
  <2>1. ASSUME NEW u \in Users \ Writes, Arrive(u) \/ Finish(u) \/ Disconnect(u) PROVE Ordered'
    BY <1>4, <2>1, PoolConstants DEF lane, Users, Arrive, Finish, Disconnect
  <2>2. ASSUME NEW u \in Users, Grant(u) PROVE Ordered'
    BY <1>4, <2>2, PoolConstants DEF lane, Users, Grant
  <2>3. ASSUME NEW u \in Tails \cup Nested, Ask(u) \/ Answer(u) \/ Reap(u) \/ Resume(u) PROVE Ordered'
    BY <1>4, <2>3, PoolConstants DEF lane, Users, Ask, Answer, Reap, Resume
  <2> QED BY <1>4, <2>1, <2>2, <2>3 DEF Other, Ask, Answer, Reap
<1> QED BY <1>1, <1>2, <1>3, <1>4 DEF LaneNext

-----------------------------------------------------------------------------
(* What a change of one job's stage does to the sets that are counted.     *)
LEMMA Move ==
    ASSUME Typed, NEW j \in Jobs, NEW s \in Stages, To(j, s)
    PROVE  /\ Admitted' = IF s \in Inside THEN Admitted \cup {j} ELSE Admitted \ {j}
           /\ j \in Writes =>
                /\ Gated' = IF s \in Gate THEN Gated \cup {j} ELSE Gated \ {j}
                /\ WaitsIn' = IF s \in {"gate", "slot"} THEN WaitsIn \cup {j} ELSE WaitsIn \ {j}
           /\ j \notin Writes => Gated' = Gated /\ WaitsIn' = WaitsIn
BY Sets DEF Typed, To, Admitted, Gated, WaitsIn, Inside, Gate

LEMMA Cards ==
    /\ IsFiniteSet(Admitted) /\ Cardinality(Admitted) \in Nat
    /\ IsFiniteSet(WaitsIn) /\ Cardinality(WaitsIn) \in Nat
<1>1. Admitted \subseteq Jobs /\ WaitsIn \subseteq Writes
  BY DEF Admitted, WaitsIn
<1> QED BY <1>1, Sets, FS_Subset, FS_CardinalityType

LEMMA Keep ==
    ASSUME UNCHANGED stage
    PROVE  Admitted' = Admitted /\ Gated' = Gated /\ WaitsIn' = WaitsIn
BY DEF Admitted, Gated, WaitsIn

(* The counts after a change of one job's stage.                           *)
LEMMA Count ==
    ASSUME Typed, NEW j \in Jobs, NEW s \in Stages, To(j, s)
    PROVE  /\ Cardinality(Admitted') = Cardinality(Admitted)
                + (IF s \in Inside THEN 1 ELSE 0) - (IF stage[j] \in Inside THEN 1 ELSE 0)
           /\ j \in Writes => Cardinality(WaitsIn') = Cardinality(WaitsIn)
                + (IF s \in {"gate", "slot"} THEN 1 ELSE 0)
                - (IF stage[j] \in {"gate", "slot"} THEN 1 ELSE 0)
           /\ j \notin Writes => Cardinality(WaitsIn') = Cardinality(WaitsIn)
<1>1. j \in Admitted <=> stage[j] \in Inside
  BY DEF Admitted, Inside
<1>2. j \in Writes => (j \in WaitsIn <=> stage[j] \in {"gate", "slot"})
  BY DEF WaitsIn
<1>3. Cardinality(Admitted \cup {j}) = IF j \in Admitted THEN Cardinality(Admitted) ELSE Cardinality(Admitted) + 1
  BY Cards, FS_AddElement
<1>4. Cardinality(Admitted \ {j}) = IF j \in Admitted THEN Cardinality(Admitted) - 1 ELSE Cardinality(Admitted)
  BY Cards, FS_RemoveElement
<1>5. Cardinality(WaitsIn \cup {j}) = IF j \in WaitsIn THEN Cardinality(WaitsIn) ELSE Cardinality(WaitsIn) + 1
  BY Cards, FS_AddElement
<1>6. Cardinality(WaitsIn \ {j}) = IF j \in WaitsIn THEN Cardinality(WaitsIn) - 1 ELSE Cardinality(WaitsIn)
  BY Cards, FS_RemoveElement
<1>7. Cardinality(Admitted') = Cardinality(Admitted)
                + (IF s \in Inside THEN 1 ELSE 0) - (IF stage[j] \in Inside THEN 1 ELSE 0)
  <2>1. CASE s \in Inside
    <3>1. Admitted' = Admitted \cup {j}
      BY <2>1, Move
    <3> QED BY <3>1, <2>1, <1>1, <1>3, Cards
  <2>2. CASE s \notin Inside
    <3>1. Admitted' = Admitted \ {j}
      BY <2>2, Move
    <3> QED BY <3>1, <2>2, <1>1, <1>4, Cards
  <2> QED BY <2>1, <2>2
<1>8. j \in Writes => Cardinality(WaitsIn') = Cardinality(WaitsIn)
                + (IF s \in {"gate", "slot"} THEN 1 ELSE 0)
                - (IF stage[j] \in {"gate", "slot"} THEN 1 ELSE 0)
  <2> SUFFICES ASSUME j \in Writes
               PROVE  Cardinality(WaitsIn') = Cardinality(WaitsIn)
                        + (IF s \in {"gate", "slot"} THEN 1 ELSE 0)
                        - (IF stage[j] \in {"gate", "slot"} THEN 1 ELSE 0)
    OBVIOUS
  <2>1. CASE s \in {"gate", "slot"}
    <3>1. WaitsIn' = WaitsIn \cup {j}
      BY <2>1, Move
    <3> QED BY <3>1, <2>1, <1>2, <1>5, Cards
  <2>2. CASE s \notin {"gate", "slot"}
    <3>1. WaitsIn' = WaitsIn \ {j}
      BY <2>2, Move
    <3> QED BY <3>1, <2>2, <1>2, <1>6, Cards
  <2> QED BY <2>1, <2>2
<1> QED BY <1>7, <1>8, Move

LEMMA CountsStep ==
    ASSUME Typed, Ordered, Counts, LaneNext
    PROVE  Counts'
<1> DEFINE A == Cardinality(Admitted)
           W == Cardinality(WaitsIn)
<1>0. /\ slots \in Int /\ waiters \in Int /\ A \in Nat /\ W \in Nat
      /\ slots >= 0 /\ slots + A = Concurrency /\ waiters = W
      /\ Concurrency \in Nat
  BY Cards, LaneConstants DEF Typed, Counts
<1>1. ASSUME NEW w \in Writes, Write(w) PROVE Counts'
  <2>0. w \in Jobs
    BY Sets
  <2>1. CASE Enter(w)
    <3>1. A' = A /\ W' = W + 1
      BY <2>0, <2>1, Count, <1>0 DEF Enter, Stages, Inside
    <3> QED BY <3>1, <2>1, <1>0 DEF Enter, Counts
  <2>2. CASE TakeGate(w)
    <3>1. A' = A /\ W' = W
      BY <2>0, <2>2, Count, <1>0 DEF TakeGate, Stages, Inside
    <3> QED BY <3>1, <2>2, <1>0 DEF TakeGate, Counts
  <2>3. CASE TakeSlot(w)
    <3>1. A' = A + 1 /\ W' = W - 1
      BY <2>0, <2>3, Count, <1>0 DEF TakeSlot, Stages, Inside
    <3> QED BY <3>1, <2>3, <1>0 DEF TakeSlot, Counts
  <2>4. CASE GiveUp(w)
    <3>1. A' = A /\ W' = W - 1
      BY <2>0, <2>4, Count, <1>0 DEF GiveUp, Stages, Inside
    <3> QED BY <3>1, <2>4, <1>0 DEF GiveUp, Counts
  <2>5. CASE Commit(w)
    <3>1. A' = A /\ W' = W
      BY <2>0, <2>5, Count, <1>0 DEF Commit, Stages, Inside
    <3> QED BY <3>1, <2>5, <1>0 DEF Commit, Counts
  <2>6. CASE Abort(w)
    <3>1. A' = A /\ W' = W
      BY <2>0, <2>6, Count, <1>0 DEF Abort, Stages, Inside
    <3> QED BY <3>1, <2>6, <1>0 DEF Abort, Counts
  <2>7. CASE Conclude(w)
    <3>1. A' = A /\ W' = W
      BY <2>0, <2>7, Count, <1>0 DEF Conclude, Stages, Inside
    <3> QED BY <3>1, <2>7, <1>0 DEF Conclude, Counts
  <2>8. CASE Leave(w)
    <3>1. A' = A - 1 /\ W' = W
      BY <2>0, <2>8, Count, <1>0 DEF Leave, Stages, Inside
    <3> QED BY <3>1, <2>8, <1>0 DEF Leave, Counts
  <2>9. CASE ReapCommit(w)
    BY <2>9, <1>0, Keep DEF ReapCommit, lane, Counts
  <2> QED BY <1>1, <2>1, <2>2, <2>3, <2>4, <2>5, <2>6, <2>7, <2>8, <2>9 DEF Write
<1>2. ASSUME NEW c \in Chores, Chore(c) PROVE Counts'
  <2>0. c \in Jobs /\ c \notin Writes
    BY Sets
  <2>1. CASE StartChore(c)
    <3>1. A' = A /\ W' = W
      BY <2>0, <2>1, Count, <1>0 DEF StartChore, Stages, Inside
    <3> QED BY <3>1, <2>1, <1>0 DEF StartChore, Counts
  <2>2. CASE TakeChoreSlot(c)
    <3>1. A' = A + 1 /\ W' = W
      BY <2>0, <2>2, Count, <1>0 DEF TakeChoreSlot, Stages, Inside
    <3> QED BY <3>1, <2>2, <1>0 DEF TakeChoreSlot, Counts
  <2>3. CASE ConcludeChore(c)
    <3>1. A' = A - 1 /\ W' = W
      BY <2>0, <2>3, Count, <1>0 DEF ConcludeChore, Stages, Inside
    <3> QED BY <3>1, <2>3, <1>0 DEF ConcludeChore, Counts
  <2> QED BY <1>2, <2>1, <2>2, <2>3 DEF Chore
<1>3. ASSUME NEW j \in Jobs, j \in Chores, stage[j] = "slot", StopWaiting(j) PROVE Counts'
  <2>1. A' = A /\ W' = W
    BY <1>3, Count, Sets, <1>0 DEF StopWaiting, Stages, Inside
  <2> QED BY <2>1, <1>3, <1>0 DEF StopWaiting, Counts
<1>4. ASSUME UNCHANGED <<stage, slots, waiters>> PROVE Counts'
  BY <1>4, <1>0, Keep DEF Counts
<1> QED
  BY <1>1, <1>2, <1>3, <1>4 DEF LaneNext, Cancel, Absorb, RunThread, EndThread, lane

LEMMA GatesStep ==
    ASSUME Typed, Ordered, Gates, LaneNext
    PROVE  Gates'
<1>1. ASSUME NEW w \in Writes, Write(w) PROVE Gates'
  <2>0. w \in Jobs
    BY Sets
  <2>1. CASE Enter(w)
    <3>1. Gated' = Gated /\ gates' = gates
      BY <2>0, <2>1, Move DEF Enter, Stages, Gate, Inside, Gated
    <3> QED BY <3>1 DEF Gates
  <2>2. CASE TakeGate(w)
    <3>1. Gated' = Gated \cup {w} /\ gates' = gates \cup {VaultOf[w]} /\ VaultOf[w] \notin gates
      BY <2>0, <2>2, Move DEF TakeGate, Stages, Gate
    <3> QED BY <3>1 DEF Gates
  <2>3. CASE TakeSlot(w) \/ Commit(w) \/ Abort(w) \/ Conclude(w)
    <3>1. Gated' = Gated /\ gates' = gates
      BY <1>1, <2>0, <2>3, Move DEF TakeSlot, Commit, Abort, Conclude, Stages, Gate, Inside, Gated
    <3> QED BY <3>1 DEF Gates
  <2>4. CASE GiveUp(w)
    <3>1. CASE stage[w] = "slot"
      <4>1. w \in Gated /\ Gated' = Gated \ {w} /\ gates' = gates \ {VaultOf[w]}
        BY <2>0, <2>4, <3>1, Move DEF GiveUp, Stages, Gate, Inside, Gated
      <4> QED BY <4>1 DEF Gates
    <3>2. CASE stage[w] = "gate"
      <4>1. Gated' = Gated /\ gates' = gates
        BY <2>0, <2>4, <3>2, Move DEF GiveUp, Stages, Gate, Inside, Gated
      <4> QED BY <4>1 DEF Gates
    <3> QED BY <2>4, <3>1, <3>2 DEF GiveUp
  <2>5. CASE Leave(w)
    <3>1. w \in Gated /\ Gated' = Gated \ {w} /\ gates' = gates \ {VaultOf[w]}
      BY <2>0, <2>5, Move DEF Leave, Stages, Gate, Inside, Gated
    <3> QED BY <3>1 DEF Gates
  <2>6. CASE ReapCommit(w)
    BY <2>6, Keep DEF ReapCommit, lane, Gates
  <2> QED BY <1>1, <2>1, <2>2, <2>3, <2>4, <2>5, <2>6 DEF Write
<1>2. ASSUME NEW c \in Chores, Chore(c) \/ StopWaiting(c) PROVE Gates'
  <2>1. Gated' = Gated /\ gates' = gates
    BY <1>2, Sets, Move DEF Chore, StartChore, TakeChoreSlot, ConcludeChore, StopWaiting, Stages
  <2> QED BY <2>1 DEF Gates
<1>3. ASSUME UNCHANGED <<stage, gates>> PROVE Gates'
  BY <1>3, Keep DEF Gates
<1> QED
  BY <1>1, <1>2, <1>3 DEF LaneNext, Cancel, Absorb, RunThread, EndThread, lane

-----------------------------------------------------------------------------
(* The pool. *)
LEMMA PoolCards ==
    /\ IsFiniteSet(One) /\ Cardinality(One) \in Nat
    /\ IsFiniteSet(Two) /\ Cardinality(Two) \in Nat
<1>1. One \subseteq Users /\ Two \subseteq Users
  BY DEF One, Two
<1> QED BY <1>1, Sets, FS_Subset, FS_CardinalityType

(* Nobody has more connections than before.                                *)
LEMMA Shrink ==
    ASSUME InUse <= PoolSize, One' \subseteq One, Two' \subseteq Two
    PROVE  InUse' <= PoolSize
<1>1. /\ Cardinality(One') \in Nat /\ Cardinality(One') <= Cardinality(One)
      /\ Cardinality(Two') \in Nat /\ Cardinality(Two') <= Cardinality(Two)
  BY PoolCards, FS_Subset, FS_CardinalityType
<1> QED BY <1>1, PoolCards, PoolConstants DEF InUse

LEMMA Granting ==
    ASSUME Typed, InUse <= PoolSize, NEW u \in Users, Grant(u)
    PROVE  InUse' <= PoolSize
<1> DEFINE a == Cardinality(One)
           b == Cardinality(Two)
<1>0. a \in Nat /\ b \in Nat /\ a + b < PoolSize /\ PoolSize \in Nat
  BY PoolCards, PoolConstants DEF Grant, Granted, InUse
<1>1. CASE One' = One \cup {u} /\ Two' = Two
  <2>0. Cardinality(One \cup {u}) = IF u \in One THEN Cardinality(One) ELSE Cardinality(One) + 1
    BY PoolCards, FS_AddElement
  <2>1. Cardinality(One') <= a + 1 /\ Cardinality(One') \in Nat
    BY <1>0, <1>1, <2>0
  <2> QED BY <2>1, <1>0, <1>1 DEF InUse
<1>2. CASE One' = One /\ Two' = Two \cup {u}
  <2>0. Cardinality(Two \cup {u}) = IF u \in Two THEN Cardinality(Two) ELSE Cardinality(Two) + 1
    BY PoolCards, FS_AddElement
  <2>1. Cardinality(Two') <= b + 1 /\ Cardinality(Two') \in Nat
    BY <1>0, <1>2, <2>0
  <2> QED BY <2>1, <1>0, <1>2 DEF InUse
<1> QED BY <1>1, <1>2 DEF Typed, Grant, Goes, One, Two

LEMMA PoolStep ==
    ASSUME Typed, InUse <= PoolSize, LaneNext
    PROVE  InUse' <= PoolSize
<1>1. ASSUME NEW u \in Users, Grant(u) PROVE InUse' <= PoolSize
  BY <1>1, Granting
<1>2. ASSUME NEW u \in Users,
             \/ Arrive(u) \/ Finish(u) \/ Disconnect(u) \/ Ask(u) \/ Answer(u)
             \/ Resume(u) \/ Reap(u) \/ pc' = [pc EXCEPT ![u] = "away"]
      PROVE  InUse' <= PoolSize
  <2>1. One' \subseteq One /\ Two' \subseteq Two
    BY <1>2 DEF Typed, Arrive, Finish, Disconnect, Ask, Answer, Resume, Reap, Goes, One, Two
  <2> QED BY <2>1, Shrink
<1>3. ASSUME UNCHANGED pc PROVE InUse' <= PoolSize
  BY <1>3, Shrink DEF One, Two
<1>4. ASSUME NEW w \in Writes, Write(w) PROVE InUse' <= PoolSize
  BY <1>2, <1>3, <1>4, Sets
     DEF Write, Enter, TakeGate, TakeSlot, GiveUp, Commit, Abort, ReapCommit, Goes, Conclude, Leave
<1>5. ASSUME Other PROVE InUse' <= PoolSize
  BY <1>1, <1>2, <1>5 DEF Other, Users
<1>6. ASSUME \E c \in Chores : Chore(c) PROVE InUse' <= PoolSize
  BY <1>3, <1>6 DEF Chore, StartChore, TakeChoreSlot, ConcludeChore
<1>7. ASSUME \E j \in Jobs : Cancel(j) \/ RunThread(j) \/ EndThread(j) PROVE InUse' <= PoolSize
  BY <1>3, <1>7 DEF Cancel, Absorb, StopWaiting, RunThread, EndThread
<1> QED BY <1>4, <1>5, <1>6, <1>7 DEF LaneNext

-----------------------------------------------------------------------------
LEMMA LaneInvInit == LaneInit => LaneInv
<1> SUFFICES ASSUME LaneInit PROVE LaneInv
  OBVIOUS
<1>1. Typed /\ Ordered
  BY LaneConstants, Sets DEF LaneInit, PoolInit, Typed, Ordered, States, Stages, Users, Jobs
<1>2. Gated = {} /\ Admitted = {} /\ WaitsIn = {} /\ One = {} /\ Two = {}
  BY Sets DEF LaneInit, PoolInit, Gated, Admitted, WaitsIn, One, Two
<1>3. Gates /\ Counts
  BY <1>2, FS_EmptySet, LaneConstants DEF LaneInit, Gates, Counts
<1>4. InUse <= PoolSize
  BY <1>2, FS_EmptySet, PoolConstants DEF InUse
<1> QED BY <1>1, <1>3, <1>4 DEF LaneInv

LEMMA LaneInvStep == LaneInv /\ [LaneNext]_laneVars => LaneInv'
<1> SUFFICES ASSUME LaneInv, [LaneNext]_laneVars PROVE LaneInv'
  OBVIOUS
<1>1. CASE LaneNext
  BY <1>1, TypedStep, OrderedStep, GatesStep, CountsStep, PoolStep DEF LaneInv
<1>2. CASE UNCHANGED laneVars
  BY <1>2 DEF LaneInv, laneVars, lane, Typed, Ordered, Gates, Counts, InUse, One, Two,
              Gated, Admitted, WaitsIn
<1> QED BY <1>1, <1>2

LEMMA LaneInvariant == LaneSpec => []LaneInv
BY LaneInvInit, LaneInvStep, PTL DEF LaneSpec

(* Through deadlines, refusals and cancellations at every await of         *)
(* write_lane.py no gate, slot or count is leaked or given back twice, and *)
(* no more connections are held than the pool has.                         *)
THEOREM LaneAccounted == LaneSpec => []Accounted
<1>1. LaneInv => Accounted
  <2> SUFFICES ASSUME LaneInv PROVE Accounted
    OBVIOUS
  <2>1. slots \in 0..Concurrency /\ waiters \in Nat
    BY Cards, LaneConstants DEF LaneInv, Counts, Typed
  <2>2. gates \subseteq Vaults
    BY DEF LaneInv, Gates, Gated, Vaults
  <2> QED BY <2>1, <2>2 DEF LaneInv, Typed, Gates, Counts, WaitsIn, Accounted, LaneTypeOK, PoolTypeOK
<1> QED BY <1>1, LaneInvariant, PTL

(* The connections and threads of writes stay within the budget of the     *)
(* lane: what write_lane_concurrency leaves of the pool is the readers'.   *)
THEOREM LaneWithin == LaneSpec => []WithinLane
<1>1. LaneInv => WithinLane
  <2> SUFFICES ASSUME LaneInv PROVE WithinLane
    OBVIOUS
  <2> DEFINE Busy == (Writes \cap One) \cup {j \in Jobs : threads[j] # "none"}
  <2>1. Busy \subseteq Admitted
    BY Sets DEF LaneInv, Ordered, Admitted, One
  <2>2. Cardinality(Busy) <= Cardinality(Admitted) /\ Cardinality(Busy) \in Nat
    BY <2>1, Cards, FS_Subset, FS_CardinalityType
  <2>3. Cardinality(Admitted) <= Concurrency
    BY Cards, LaneConstants DEF LaneInv, Counts, Typed
  <2> QED BY <2>2, <2>3, Cards, LaneConstants DEF WithinLane
<1> QED BY <1>1, LaneInvariant, PTL

(* Two commits to one vault never run at a time, not even when the caller  *)
(* of the first was cancelled: the gate outlives it.                       *)
THEOREM LaneOneCommit == LaneSpec => []OneCommitPerVault
<1>1. LaneInv => OneCommitPerVault
  BY Sets DEF LaneInv, Ordered, Gates, Gated, OneCommitPerVault
<1> QED BY <1>1, LaneInvariant, PTL

-----------------------------------------------------------------------------
(* The object store. *)
IntentRec == [key : Keys, state : {"delayed", "due", "leased", "done", "abandoned"}]
RowRec == [state : {"absent", "pending", "confirmed", "gone"}, key : Keys, bytes : Contents]
CheckRec == [key : Keys, found : {"idle", "unread"} \cup Contents]
SwapRec == [step : {"idle", "copying", "ready"}, key : Keys, intent : Nat,
            pin : {"any"} \cup Contents]
WorkRec == [step : {"idle", "claimed", "deleting", "success", "release", "failure"},
            key : Keys, intent : Nat, lock : BOOLEAN]

\* What each variable holds.
Shapes ==
    /\ rows \in [Ids -> RowRec]
    /\ outbox \in Seq(IntentRec)
    /\ blobs \in [Keys -> Contents]
    /\ late \subseteq Keys
    /\ issued \in Nat /\ faults \in Nat
    /\ puts \subseteq [key : Keys, bytes : Bytes]
    /\ checks \in [Files -> CheckRec]
    /\ offer \in [state : {"none", "open", "expired"}, file : Files]
    /\ swap \in SwapRec
    /\ works \in [Workers -> WorkRec]
    /\ uploads \cup claimed \cup refs \cup kept \cup scanned \subseteq Images

\* Who does nothing looks it.
Resting ==
    /\ swap.step = "idle" => swap = NoSwap
    /\ \A w \in Workers : works[w].step = "idle" => works[w] = Idle
    /\ \A w \in Workers : works[w].lock => works[w].step = "deleting"
    /\ \A f \in Files : checks[f].found = "idle" => checks[f] = NoCheck
    /\ \A f \in Files : rows[f].state = "absent" => checks[f] = NoCheck

\* A key yet to be drawn is nowhere; no two rows live at one key.
Drawn(k) == k <= issued + 1
KeysInv ==
    /\ \A id \in Ids : Drawn(rows[id].key) /\ rows[id].key # Staging
    /\ \A p \in puts : Drawn(p.key)
    /\ \A f \in Files : Drawn(checks[f].key)
    /\ \A i \in DOMAIN outbox : Drawn(outbox[i].key)
    /\ Drawn(swap.key)
    /\ \A k \in Keys : blobs[k] # "none" => Drawn(k)
    /\ \A a, b \in Ids : Live(a) /\ Live(b) /\ rows[a].key = rows[b].key => a = b

\* A worker works on an intent that was ready; the intents of an owned key are
\* processed.
WorkInv ==
    /\ \A w \in Workers : works[w].step # "idle" =>
         /\ works[w].intent \in DOMAIN outbox
         /\ outbox[works[w].intent].key = works[w].key
         /\ outbox[works[w].intent].state # "delayed"
    /\ \A id \in Ids : Live(id) =>
         \A i \in DOMAIN outbox : outbox[i].key = rows[id].key => outbox[i].state = "done"

\* A candidate is known to its own intent alone.
SwapInv ==
    swap.step # "idle" =>
      /\ swap.key \notin {Staging, Preferred}
      /\ swap.intent \in DOMAIN outbox
      /\ outbox[swap.intent] = Intent(swap.key, "delayed")
      /\ \A i \in DOMAIN outbox : outbox[i].key = swap.key => i = swap.intent
      /\ \A id \in Ids : rows[id].key # swap.key
      /\ \A p \in puts : p.key # swap.key
      /\ \A f \in Files : checks[f].key # swap.key
      /\ swap.step = "ready" => blobs[swap.key] # "none"

\* The lease of each worker is good and its own.
Strict ==
    \A w \in Workers : works[w].step # "idle" =>
        /\ outbox[works[w].intent].state = "leased"
        /\ \A v \in Workers :
             works[v].step # "idle" /\ works[v].intent = works[w].intent => v = w

\* Each worker that deletes holds the lock of its key.
AllLocked == \A w \in Workers : works[w].step = "deleting" => works[w].lock

\* It takes two faults to lose both, and either bars the key to a new owner.
FaultInv ==
    /\ faults = 0 => Strict /\ AllLocked
    /\ faults <= 1 => Strict \/ AllLocked
    /\ faults <= 1 =>
         \A w \in Workers, id \in Ids :
             works[w].step = "deleting" /\ Live(id) => rows[id].key # works[w].key

\* A transfer is for a pending row, or is waited for, or is known to be late.
PutInv ==
    \A p \in puts :
        \/ p.key = Staging
        \/ p.key \in late
        \/ \E i \in DOMAIN outbox : outbox[i] = Intent(p.key, "delayed")
        \/ \E id \in Ids : rows[id].state = "pending" /\ rows[id].key = p.key

\* What an inspection found is there until the decision.
CheckInv ==
    faults <= 1 =>
      \A f \in Files :
        checks[f].found \in Bytes /\ rows[f].state = "pending" /\ rows[f].key = checks[f].key =>
            /\ blobs[rows[f].key] # "none"
            /\ blobs[rows[f].key] = checks[f].found \/ rows[f].key \in late

\* Nobody but its own upload writes the key of an image.
PictureInv ==
    \A m \in Images : Live(m) =>
        /\ rows[m].bytes = "other"
        /\ blobs[rows[m].key] \in {"none", "other"}
        /\ \A p \in puts : p.key = rows[m].key => p.bytes = "other" /\ rows[m].state = "pending"

CertInv ==
    faults <= 1 =>
      \A id \in Ids : rows[id].state = "confirmed" =>
        /\ blobs[rows[id].key] # "none"
        /\ blobs[rows[id].key] = rows[id].bytes \/ rows[id].key \in late

\* A deletion of k is to come that is not one about to be marked as done.
Pursued(k) ==
    \E i \in DOMAIN outbox :
        /\ outbox[i].key = k /\ outbox[i].state # "done"
        /\ \A w \in Workers : works[w].step = "success" => works[w].intent # i

OrphanInv ==
    \A k \in Keys \ {Staging} :
        blobs[k] # "none" /\ ~Owned(k) => Pursued(k) \/ k \in late

ImageInv ==
    /\ ImagesKept
    /\ refs \cup kept \subseteq claimed
    /\ (refs \cup kept) \cap scanned = {}

ObjectsInv == KeysInv /\ WorkInv /\ SwapInv /\ FaultInv /\ PutInv /\ CheckInv
                /\ PictureInv /\ CertInv /\ OrphanInv

StoreInv == Shapes /\ Resting /\ ObjectsInv /\ ImageInv

-----------------------------------------------------------------------------
LEMMA Least ==
    ASSUME NEW T, T \subseteq Nat, T # {}
    PROVE  \E n \in T : \A m \in T : n <= m
<1>1. PICK n \in T : \A m \in T : ~(<<m, n>> \in OpToRel(<, Nat))
  <2>1. IsWellFoundedOn(OpToRel(<, Nat), Nat)
    BY NatLessThanWellFounded
  <2> QED BY <2>1, WFMin
<1>2. \A m \in T : ~(m < n)
  BY <1>1 DEF OpToRel
<1> QED BY <1>2

LEMMA FirstIsFile == First \in Files
<1>1. \E f \in Files : \A g \in Files : f <= g
  BY Least, ObjectStoreAssumption DEF Ids
<1> QED BY <1>1 DEF First

LEMMA Spaces ==
    /\ Keys \subseteq Nat /\ Staging \in Keys /\ Preferred \in Keys /\ Staging # Preferred
    /\ Staging = 0 /\ Preferred = 1 /\ Bytes \subseteq Contents
    /\ "none" \in Contents /\ "none" \notin Bytes /\ Contents = Bytes \cup {"none"}
    /\ "idle" \notin Contents /\ "unread" \notin Contents
    /\ Files \subseteq Ids /\ Images \subseteq Ids /\ Files \cap Images = {}
    /\ Absent \in RowRec /\ Gone \in RowRec /\ Gone.state = "gone" /\ Gone.key = Preferred
    /\ Absent.state = "absent" /\ Absent.key = Preferred
    /\ NoCheck \in CheckRec /\ NoCheck.found = "idle" /\ NoCheck.key = Preferred
    /\ NoSwap \in SwapRec /\ NoSwap.step = "idle" /\ NoSwap.key = Preferred
    /\ Idle \in WorkRec /\ Idle.step = "idle" /\ ~Idle.lock
BY ObjectStoreAssumption
DEF Keys, Staging, Preferred, Bytes, Contents, Absent, Gone, NoCheck, NoSwap, Idle, Ids,
    RowRec, CheckRec, SwapRec, WorkRec

(* What the outbox holds once intents are put down.                        *)
LEMMA Listed ==
    ASSUME Shapes, NEW new \in Seq(IntentRec), outbox' = outbox \o new
    PROVE  /\ outbox' \in Seq(IntentRec)
           /\ DOMAIN outbox \subseteq DOMAIN outbox'
           /\ \A i \in DOMAIN outbox : outbox'[i] = outbox[i]
           /\ \A i \in DOMAIN outbox' \ DOMAIN outbox :
                \E j \in DOMAIN new : outbox'[i] = new[j]
           /\ \A j \in DOMAIN new :
                \E i \in DOMAIN outbox' \ DOMAIN outbox : outbox'[i] = new[j]
           /\ Len(new) = 1 => /\ Len(outbox) + 1 \in DOMAIN outbox' \ DOMAIN outbox
                               /\ outbox'[Len(outbox) + 1] = new[1]
<1>1. outbox \in Seq(IntentRec) /\ Len(outbox) \in Nat /\ Len(new) \in Nat
      /\ DOMAIN outbox = 1..Len(outbox) /\ DOMAIN new = 1..Len(new)
  BY DEF Shapes
<1>2. /\ outbox' \in Seq(IntentRec)
      /\ DOMAIN outbox' = 1..(Len(outbox) + Len(new))
      /\ \A i \in 1..Len(outbox) : outbox'[i] = outbox[i]
      /\ \A j \in 1..Len(new) : outbox'[Len(outbox) + j] = new[j]
  BY <1>1
<1>3. ASSUME NEW i \in DOMAIN outbox' \ DOMAIN outbox
      PROVE  \E j \in DOMAIN new : outbox'[i] = new[j]
  <2>1. i - Len(outbox) \in 1..Len(new) /\ i = Len(outbox) + (i - Len(outbox))
    BY <1>1, <1>2, <1>3
  <2> QED BY <1>1, <1>2, <2>1
<1>4. ASSUME NEW j \in 1..Len(new)
      PROVE  /\ Len(outbox) + j \in DOMAIN outbox' \ DOMAIN outbox
             /\ outbox'[Len(outbox) + j] = new[j]
  BY <1>1, <1>2
<1>5. ASSUME NEW j \in DOMAIN new
      PROVE  \E i \in DOMAIN outbox' \ DOMAIN outbox : outbox'[i] = new[j]
  BY <1>1, <1>4
<1>6. Len(new) = 1 => 1 \in 1..Len(new)
  OBVIOUS
<1>7. DOMAIN outbox \subseteq DOMAIN outbox'
  BY <1>1, <1>2
<1> QED BY <1>1, <1>2, <1>3, <1>4, <1>5, <1>6, <1>7

(* What it holds once an intent is marked.                                 *)
Marks == {"delayed", "due", "leased", "done", "abandoned"}
Mark(i, s) == [outbox EXCEPT ![i].state = s]

LEMMA Marking ==
    ASSUME Shapes, NEW i \in DOMAIN outbox, NEW s \in Marks
    PROVE  /\ Mark(i, s) \in Seq(IntentRec) /\ DOMAIN Mark(i, s) = DOMAIN outbox
           /\ \A j \in DOMAIN outbox :
                /\ Mark(i, s)[j].key = outbox[j].key
                /\ j # i => Mark(i, s)[j] = outbox[j]
           /\ Mark(i, s)[i].state = s
<1> DEFINE marked == Mark(i, s)
<1>1. outbox \in Seq(IntentRec) /\ \A j \in DOMAIN outbox : outbox[j] \in IntentRec
  BY DEF Shapes
<1>2. /\ DOMAIN marked = DOMAIN outbox
      /\ \A j \in DOMAIN outbox :
           marked[j] = IF j = i THEN [outbox[i] EXCEPT !.state = s] ELSE outbox[j]
  BY <1>1 DEF Mark
<1>3. ASSUME NEW r \in IntentRec
      PROVE  /\ [r EXCEPT !.state = s] \in IntentRec /\ [r EXCEPT !.state = s].key = r.key
             /\ [r EXCEPT !.state = s].state = s
  BY <1>3 DEF IntentRec, Marks
<1>4. marked \in Seq(IntentRec)
  <2>1. i \in 1..Len(outbox) /\ [outbox[i] EXCEPT !.state = s] \in IntentRec
    BY <1>1, <1>3
  <2>2. [outbox EXCEPT ![i] = [outbox[i] EXCEPT !.state = s]] \in Seq(IntentRec)
    BY <1>1, <2>1, ExceptSeq
  <2> QED BY <2>2 DEF Mark
<1> QED BY <1>1, <1>2, <1>3, <1>4

LEMMA Joined ==
    ASSUME NEW s \in Seq(IntentRec), NEW t \in Seq(IntentRec)
    PROVE  /\ s \o t \in Seq(IntentRec) /\ Len(s \o t) = Len(s) + Len(t)
           /\ \A i \in 1..Len(s) : (s \o t)[i] = s[i]
           /\ \A j \in 1..Len(t) : (s \o t)[Len(s) + j] = t[j]
OBVIOUS

LEMMA OneMore ==
    ASSUME NEW a \in IntentRec
    PROVE  /\ <<a>> \in Seq(IntentRec) /\ DOMAIN <<a>> = {1} /\ Len(<<a>>) = 1 /\ <<a>>[1] = a
OBVIOUS

LEMMA TwoMore ==
    ASSUME NEW a \in IntentRec, NEW b \in IntentRec
    PROVE  /\ <<a, b>> \in Seq(IntentRec) /\ DOMAIN <<a, b>> = {1, 2} /\ Len(<<a, b>>) = 2
           /\ <<a, b>>[1] = a /\ <<a, b>>[2] = b
OBVIOUS

LEMMA IntentTyped ==
    ASSUME NEW k \in Keys, NEW s \in {"delayed", "due", "leased", "done", "abandoned"}
    PROVE  Intent(k, s) \in IntentRec /\ Intent(k, s).key = k /\ Intent(k, s).state = s
BY DEF Intent, IntentRec

\* Two intents of one key, the second one delayed.
LEMMA PendingDeletes ==
    ASSUME NEW k \in Keys
    PROVE  /\ PendingDelete(k) \in Seq(IntentRec)
           /\ DOMAIN PendingDelete(k) = {1, 2}
           /\ \A j \in DOMAIN PendingDelete(k) :
                PendingDelete(k)[j].key = k /\ PendingDelete(k)[j].state # "done"
           /\ PendingDelete(k)[2] = Intent(k, "delayed")
<1>1. Intent(k, "due") \in IntentRec /\ Intent(k, "delayed") \in IntentRec
  BY IntentTyped
<1>2. PendingDelete(k) = <<Intent(k, "due"), Intent(k, "delayed")>>
  BY DEF PendingDelete
<1> QED BY <1>1, <1>2, TwoMore, IntentTyped

LEMMA Discarded ==
    ASSUME Shapes, NEW ks, Discard(ks)
    PROVE  /\ blobs' \in [Keys -> Contents]
           /\ \A k \in Keys : blobs'[k] = blobs[k] \/ (k \in ks /\ blobs'[k] = "none")
BY Spaces DEF Shapes, Discard

LEMMA RowTyped ==
    ASSUME NEW s \in {"pending", "confirmed"}, NEW k \in Keys, NEW b \in Contents
    PROVE  /\ Row(s, k, b) \in RowRec /\ Row(s, k, b).state = s /\ Row(s, k, b).key = k
           /\ Row(s, k, b).bytes = b
BY DEF Row, RowRec

\* The key drawn next.
LEMMA Drawing ==
    ASSUME Shapes, Draw
    PROVE  /\ Random \in Keys /\ Random \in Nat /\ issued' = issued + 1 /\ issued' \in Nat
           /\ Random = issued + 2 /\ Random # Staging /\ Random # Preferred
BY Spaces DEF Shapes, Draw, Random

-----------------------------------------------------------------------------
(* The shapes of the values stay.                                          *)
Formed == Shapes /\ Resting

LEMMA FormedFile ==
    ASSUME Formed, NEW f \in Files, File(f)
    PROVE  Formed'
<1>a. f \in Ids /\ rows \in [Ids -> RowRec] /\ checks \in [Files -> CheckRec]
  BY Spaces DEF Formed, Shapes
<1>b. rows[f] \in RowRec /\ rows[f].key \in Keys
  BY <1>a DEF RowRec
<1>k. checks[f] \in CheckRec /\ checks[f].key \in Keys
  BY <1>a DEF CheckRec
<1>c. ASSUME NEW new, Disown(f, new), new \in Seq(IntentRec)
      PROVE  rows' \in [Ids -> RowRec] /\ outbox' \in Seq(IntentRec)
             /\ \A g \in Files : rows'[g].state = "absent" => rows[g].state = "absent"
  BY <1>a, <1>c, Spaces, Listed DEF Disown, Enqueue, Formed
<1>1. ASSUME NEW declared \in BOOLEAN, Initiate(f, declared) PROVE Formed'
  <2>1. PICK k \in Keys : rows' = [rows EXCEPT ![f] = Row("pending", k, "none")]
    BY <1>1, Spaces, Drawing DEF Initiate, Formed
  <2>2. issued' \in Nat
    BY <1>1, Drawing DEF Initiate, Formed, Shapes
  <2>3. rows' \in [Ids -> RowRec]
        /\ \A g \in Files : rows'[g].state = "absent" => rows[g].state = "absent"
    BY <1>a, <2>1, RowTyped, Spaces
  <2> QED BY <1>1, <2>2, <2>3
          DEF Initiate, Formed, Shapes, Resting, store, replacing, imaging
<1>2. ASSUME StartConfirm(f) PROVE Formed'
  <2>1. checks' = [checks EXCEPT ![f] = [key |-> rows[f].key, found |-> "unread"]]
        /\ rows[f].state = "pending"
    BY <1>2 DEF StartConfirm
  <2>2. checks' \in [Files -> CheckRec]
    BY <1>a, <1>b, <2>1 DEF CheckRec
  <2>3. Resting'
    BY <1>2, <1>a, <2>1 DEF StartConfirm, Formed, Resting, database, replacing
  <2> QED BY <1>2, <2>2, <2>3 DEF StartConfirm, Formed, Shapes, database, store, replacing, imaging
<1>3. ASSUME Inspect(f) PROVE Formed'
  <2>1. checks' = [checks EXCEPT ![f].found = blobs[checks[f].key]]
        /\ checks[f].found = "unread" /\ blobs[checks[f].key] \in Contents
    BY <1>3, <1>k DEF Inspect, Formed, Shapes
  <2>2. checks' \in [Files -> CheckRec]
    BY <1>a, <2>1 DEF CheckRec
  <2>3. Resting'
    <3>1. rows[f].state # "absent"
      BY <2>1, Spaces DEF Formed, Resting
    <3>2. checks'[f].found # "idle" /\ \A g \in Files \ {f} : checks'[g] = checks[g]
      BY <1>a, <2>1, Spaces DEF CheckRec
    <3> QED BY <1>3, <3>1, <3>2 DEF Inspect, Formed, Resting, database, replacing
  <2> QED BY <1>3, <2>2, <2>3 DEF Inspect, Formed, Shapes, database, store, replacing, imaging
<1>4. ASSUME NEW mismatch \in BOOLEAN, FinishConfirm(f, mismatch) PROVE Formed'
  <2>1. checks' = [checks EXCEPT ![f] = NoCheck]
    BY <1>4 DEF FinishConfirm
  <2>2. checks' \in [Files -> CheckRec] /\ checks'[f] = NoCheck
        /\ \A g \in Files \ {f} : checks'[g] = checks[g]
    BY <1>a, <2>1, Spaces
  <2>3. /\ rows' \in [Ids -> RowRec] /\ outbox' \in Seq(IntentRec) /\ late' \subseteq Keys
        /\ \A g \in Files : rows'[g].state = "absent" => rows[g].state = "absent"
    <3>1. CASE UNCHANGED <<database, late>>
      BY <3>1 DEF Formed, Shapes, database
    <3>2. CASE Disown(f, PendingDelete(checks[f].key)) /\ UNCHANGED late
      BY <1>c, <1>k, <3>2, PendingDeletes DEF Formed, Shapes
    <3>3. CASE /\ rows' = [rows EXCEPT ![f] = Row("confirmed", checks[f].key, checks[f].found)]
               /\ LeaveBehind(checks[f].key) /\ UNCHANGED outbox
      <4>1. checks[f].found \in Contents
        BY <1>4 DEF FinishConfirm
      <4>2. rows' \in [Ids -> RowRec] /\ rows'[f].state = "confirmed"
            /\ \A g \in Ids \ {f} : rows'[g] = rows[g]
        BY <1>a, <1>k, <3>3, <4>1, RowTyped
      <4>3. late' \subseteq Keys
        BY <3>3 DEF LeaveBehind, Formed, Shapes
      <4> QED BY <3>3, <4>2, <4>3, Spaces DEF Formed, Shapes
    <3> QED BY <1>4, <3>1, <3>2, <3>3 DEF FinishConfirm
  <2>4. UNCHANGED <<blobs, issued, puts, replacing, imaging, works, requests, faults>>
    BY <1>4 DEF FinishConfirm
  <2>5. Resting'
    BY <2>2, <2>3, <2>4, Spaces DEF Formed, Resting, replacing
  <2> QED BY <2>2, <2>3, <2>4, <2>5 DEF Formed, Shapes, replacing, imaging
<1>5. ASSUME Withdraw(f) PROVE Formed'
  <2>1. /\ rows' \in [Ids -> RowRec] /\ outbox' \in Seq(IntentRec)
        /\ \A g \in Files : rows'[g].state = "absent" => rows[g].state = "absent"
    BY <1>5, <1>b, <1>c, PendingDeletes DEF Withdraw
  <2> QED BY <1>5, <2>1 DEF Withdraw, Formed, Shapes, Resting, store, replacing, imaging
<1>6. ASSUME Delete(f) PROVE Formed'
  <2>1. /\ rows' \in [Ids -> RowRec] /\ outbox' \in Seq(IntentRec)
        /\ \A g \in Files : rows'[g].state = "absent" => rows[g].state = "absent"
    BY <1>6, <1>b, <1>c, OneMore, IntentTyped DEF Delete
  <2>2. late' \subseteq Keys
    BY <1>6 DEF Delete, LeaveBehind, Formed, Shapes
  <2> QED BY <1>6, <2>1, <2>2 DEF Delete, Formed, Shapes, Resting, replacing, imaging
<1>7. ASSUME InitiateReplace(f) PROVE Formed'
  <2>1. outbox' \in Seq(IntentRec)
    BY <1>7, OneMore, IntentTyped, Listed, Spaces DEF InitiateReplace, Enqueue, Formed
  <2>2. offer' \in [state : {"none", "open", "expired"}, file : Files]
    BY <1>7 DEF InitiateReplace
  <2> QED BY <1>7, <2>1, <2>2 DEF InitiateReplace, Formed, Shapes, Resting, store, imaging
<1> QED BY <1>1, <1>2, <1>3, <1>4, <1>5, <1>6, <1>7 DEF File

LEMMA FormedSwap ==
    ASSUME Formed, SwapInv, Swap \/ ExpireOffer \/ RefuseSwap \/ AbandonSwap
    PROVE  Formed'
<1>a. offer.file \in Files /\ swap \in SwapRec /\ swap.key \in Keys /\ blobs[swap.key] \in Contents
  BY DEF Formed, Shapes, SwapRec
<1>b. offer.file \in Ids /\ rows[offer.file] \in RowRec
  BY <1>a, Spaces DEF Formed, Shapes
<1>c. rows[offer.file].bytes \in Contents /\ rows[offer.file].key \in Keys
  BY <1>b DEF RowRec
<1>1. ASSUME NEW pin \in {"any", rows[offer.file].bytes}, StartSwap(pin) PROVE Formed'
  <2>1. Draw /\ swap' = [step |-> "copying", key |-> Random, intent |-> Len(outbox) + 1,
                         pin |-> pin]
    BY <1>1 DEF StartSwap
  <2>2. Random \in Keys /\ issued' \in Nat
    BY <2>1, Drawing DEF Formed
  <2>3. outbox' \in Seq(IntentRec)
    BY <1>1, <2>2, OneMore, IntentTyped, Listed DEF StartSwap, Enqueue, Formed
  <2>4. swap' \in SwapRec /\ swap'.step = "copying"
    <3>1. Len(outbox) + 1 \in Nat
      BY DEF Formed, Shapes
    <3> QED BY <1>c, <2>1, <2>2, <3>1 DEF SwapRec
  <2> QED BY <1>1, <2>2, <2>3, <2>4 DEF StartSwap, Formed, Shapes, Resting, store, imaging
<1>2. ASSUME Copy PROVE Formed'
  <2>1. blobs' \in [Keys -> Contents]
    <3>1. CASE Discard({Staging, swap.key})
      BY <3>1, Discarded DEF Formed
    <3>2. CASE blobs' = [blobs EXCEPT ![swap.key] = blobs[Staging]]
      BY <3>2, Spaces DEF Formed, Shapes
    <3> QED BY <1>2, <3>1, <3>2 DEF Copy
  <2>2. swap' \in SwapRec /\ (swap'.step = "idle" => swap' = NoSwap)
    BY <1>2, <1>a, Spaces DEF Copy, SwapRec
  <2> QED BY <1>2, <2>1, <2>2 DEF Copy, Formed, Shapes, Resting, database, imaging
<1>3. ASSUME Publish PROVE Formed'
  <2>1. /\ Discard({Staging}) /\ swap' = NoSwap
        /\ UNCHANGED <<issued, puts, checks, offer, imaging, works, requests, faults>>
    BY <1>3 DEF Publish
  <2>2. blobs' \in [Keys -> Contents] /\ swap' \in SwapRec /\ swap'.step = "idle"
    BY <2>1, Discarded, Spaces DEF Formed
  <2>3. /\ rows' \in [Ids -> RowRec] /\ outbox' \in Seq(IntentRec) /\ late' \subseteq Keys
        /\ \A g \in Files : rows'[g].state = "absent" => rows[g].state = "absent"
    <3>1. CASE /\ Enqueue(<<Intent(Staging, "due"), Intent(swap.key, "due")>>)
               /\ UNCHANGED <<rows, late>>
      <4>1. Intent(Staging, "due") \in IntentRec /\ Intent(swap.key, "due") \in IntentRec
        BY <1>a, IntentTyped, Spaces
      <4>2. outbox' \in Seq(IntentRec)
        BY <3>1, <4>1, TwoMore, Listed DEF Enqueue, Formed
      <4> QED BY <3>1, <4>2 DEF Formed, Shapes
    <3>2. CASE /\ outbox' = [outbox EXCEPT ![swap.intent].state = "done"]
                            \o <<Intent(rows[offer.file].key, "due"), Intent(Staging, "due")>>
               /\ rows' = [rows EXCEPT ![offer.file] = Row(@.state, swap.key, blobs[swap.key])]
               /\ LeaveBehind(rows[offer.file].key)
               /\ Live(offer.file)
      <4>1. [outbox EXCEPT ![swap.intent].state = "done"] \in Seq(IntentRec)
        <5>1. swap.intent \in DOMAIN outbox
          BY <1>3, Spaces DEF Publish, SwapInv
        <5>2. Mark(swap.intent, "done") \in Seq(IntentRec)
          BY <5>1, Marking DEF Formed, Marks
        <5> QED BY <5>2 DEF Mark
      <4>2. <<Intent(rows[offer.file].key, "due"), Intent(Staging, "due")>> \in Seq(IntentRec)
        BY <1>c, TwoMore, IntentTyped, Spaces
      <4>3. outbox' \in Seq(IntentRec)
        BY <3>2, <4>1, <4>2
      <4>4. rows[offer.file].state \in {"pending", "confirmed"}
        BY <3>2 DEF Live
      <4>5. /\ Row(rows[offer.file].state, swap.key, blobs[swap.key]) \in RowRec
            /\ Row(rows[offer.file].state, swap.key, blobs[swap.key]).state # "absent"
        BY <1>a, <4>4, RowTyped
      <4>6. rows' \in [Ids -> RowRec]
            /\ \A g \in Files : rows'[g].state = "absent" => rows[g].state = "absent"
        BY <1>b, <3>2, <4>5, Spaces DEF Formed, Shapes
      <4>7. late' \subseteq Keys
        BY <3>2 DEF LeaveBehind, Formed, Shapes
      <4> QED BY <4>3, <4>6, <4>7
    <3> QED BY <1>3, <3>1, <3>2 DEF Publish, Pinned
  <2> QED BY <2>1, <2>2, <2>3 DEF Formed, Shapes, Resting, imaging
<1>4. ASSUME RollBack PROVE Formed'
  <2>1. blobs' \in [Keys -> Contents] /\ swap' = NoSwap
    BY <1>4, Discarded DEF RollBack, Formed
  <2> QED BY <1>4, <2>1, Spaces DEF RollBack, Formed, Shapes, Resting, database, imaging
<1>5. ASSUME ExpireOffer PROVE Formed'
  BY <1>5 DEF ExpireOffer, Formed, Shapes, Resting, database, store, imaging
<1>6. ASSUME RefuseSwap PROVE Formed'
  <2>1. blobs' \in [Keys -> Contents]
    BY <1>6, Discarded DEF RefuseSwap, Formed
  <2> QED BY <1>6, <2>1 DEF RefuseSwap, Formed, Shapes, Resting, database, replacing, imaging
<1>7. ASSUME AbandonSwap PROVE Formed'
  BY <1>7, Spaces DEF AbandonSwap, Formed, Shapes, Resting, database, store, imaging
<1> QED BY <1>1, <1>2, <1>3, <1>4, <1>5, <1>6, <1>7 DEF Swap

LEMMA FormedImage ==
    ASSUME Formed, NEW m \in Images, Image(m)
    PROVE  Formed'
<1>a. m \in Ids /\ m \notin Files /\ rows \in [Ids -> RowRec]
  BY Spaces DEF Formed, Shapes
<1>b. rows[m] \in RowRec /\ rows[m].key \in Keys
  BY <1>a DEF RowRec
<1>c. ASSUME NEW new, Disown(m, new), new \in Seq(IntentRec)
      PROVE  rows' \in [Ids -> RowRec] /\ outbox' \in Seq(IntentRec)
             /\ \A g \in Files : rows'[g] = rows[g]
  BY <1>a, <1>c, Spaces, Listed DEF Disown, Enqueue, Formed
<1>d. ASSUME Disown(m, <<Intent(rows[m].key, "due")>>) \/ Disown(m, PendingDelete(rows[m].key))
      PROVE  rows' \in [Ids -> RowRec] /\ outbox' \in Seq(IntentRec)
             /\ \A g \in Files : rows'[g] = rows[g]
  BY <1>b, <1>c, <1>d, OneMore, IntentTyped, PendingDeletes
<1>1. ASSUME UploadImage(m) PROVE Formed'
  <2>1. Random \in Keys /\ issued' \in Nat
    BY <1>1, Drawing DEF UploadImage, Formed
  <2>2. /\ rows' = [rows EXCEPT ![m] = Row("pending", Random, "other")]
        /\ puts' = puts \cup {[key |-> Random, bytes |-> "other"]}
    BY <1>1 DEF UploadImage
  <2>3. rows' \in [Ids -> RowRec] /\ \A g \in Files : rows'[g] = rows[g]
    <3>1. "other" \in Contents
      BY DEF Contents, Bytes
    <3> QED BY <1>a, <2>1, <2>2, <3>1, RowTyped, Spaces
  <2>4. puts' \subseteq [key : Keys, bytes : Bytes]
    BY <2>1, <2>2 DEF Formed, Shapes, Bytes
  <2>5. Resting'
    BY <1>1, <2>3 DEF UploadImage, Formed, Resting, replacing
  <2> QED BY <1>1, <2>1, <2>3, <2>4, <2>5 DEF UploadImage, Formed, Shapes, store, replacing
<1>2. ASSUME FinishImage(m) PROVE Formed'
  <2>1. rows' \in [Ids -> RowRec] /\ outbox' \in Seq(IntentRec)
        /\ \A g \in Files : rows'[g] = rows[g]
    <3>1. CASE rows' = [rows EXCEPT ![m].state = "confirmed"] /\ UNCHANGED outbox
      <4>1. [rows[m] EXCEPT !.state = "confirmed"] \in RowRec
        BY <1>b DEF RowRec
      <4>2. rows' = [rows EXCEPT ![m] = [rows[m] EXCEPT !.state = "confirmed"]]
        BY <3>1
      <4>3. rows' \in [Ids -> RowRec] /\ \A id \in Ids : id # m => rows'[id] = rows[id]
        BY <1>a, <4>1, <4>2
      <4>4. \A g \in Files : g \in Ids /\ g # m
        BY <1>a, Spaces
      <4> QED BY <3>1, <4>3, <4>4 DEF Formed, Shapes
    <3>2. CASE UNCHANGED database
      BY <3>2 DEF Formed, Shapes, database
    <3> QED BY <1>2, <1>d, <3>1, <3>2 DEF FinishImage
  <2> QED BY <1>2, <2>1 DEF FinishImage, Formed, Shapes, Resting, store, replacing
<1>3. ASSUME LetGo(m) PROVE Formed'
  BY <1>3 DEF LetGo, Formed, Shapes, Resting, database, store, replacing
<1>4. ASSUME DiscardImage(m) PROVE Formed'
  <2>1. rows' \in [Ids -> RowRec] /\ outbox' \in Seq(IntentRec)
        /\ \A g \in Files : rows'[g] = rows[g]
    BY <1>4, <1>d DEF DiscardImage
  <2> QED BY <1>4, <2>1 DEF DiscardImage, Formed, Shapes, Resting, store, replacing, imaging
<1>5. ASSUME Scan(m) PROVE Formed'
  BY <1>5 DEF Scan, Formed, Shapes, Resting, database, store, replacing
<1>6. ASSUME Collect(m) PROVE Formed'
  <2>1. rows' \in [Ids -> RowRec] /\ outbox' \in Seq(IntentRec)
        /\ \A g \in Files : rows'[g] = rows[g]
    <3>1. CASE UNCHANGED database
      BY <3>1 DEF Formed, Shapes, database
    <3> QED BY <1>6, <1>d, <3>1 DEF Collect
  <2> QED BY <1>6, <2>1 DEF Collect, Formed, Shapes, Resting, store, replacing
<1> QED BY <1>1, <1>2, <1>3, <1>4, <1>5, <1>6 DEF Image

LEMMA FormedDrain ==
    ASSUME Formed, WorkInv, Drain \/ Reconcile
    PROVE  Formed'
<1>a. works \in [Workers -> WorkRec] /\ \A w \in Workers : works[w] \in WorkRec
  BY DEF Formed, Shapes
<1>1. ASSUME NEW w \in Workers, NEW i \in DOMAIN outbox, Claim(w, i) PROVE Formed'
  <2>1. outbox' \in Seq(IntentRec)
    <3>1. outbox' = Mark(i, "leased")
      BY <1>1 DEF Claim, Mark
    <3> QED BY <3>1, Marking DEF Formed, Marks
  <2>2. outbox[i].key \in Keys /\ i \in Nat
    <3>1. outbox[i] \in IntentRec /\ i \in Nat
      BY DEF Formed, Shapes
    <3> QED BY <3>1 DEF IntentRec
  <2>3. works' = [works EXCEPT ![w] = [step |-> "claimed", key |-> outbox[i].key,
                                       intent |-> i, lock |-> FALSE]]
    BY <1>1 DEF Claim
  <2>4. works' \in [Workers -> WorkRec] /\ works'[w].step = "claimed" /\ ~works'[w].lock
        /\ \A v \in Workers \ {w} : works'[v] = works[v]
    BY <1>a, <2>2, <2>3 DEF WorkRec
  <2>5. Resting'
    BY <1>1, <2>4 DEF Claim, Formed, Resting, replacing
  <2> QED BY <1>1, <2>1, <2>4, <2>5 DEF Claim, Formed, Shapes, store, replacing, imaging
<1>2. ASSUME NEW w \in Workers, Probe(w) PROVE Formed'
  <2>1. PICK s \in {"release", "success", "deleting"}, l \in BOOLEAN :
          /\ works' = [works EXCEPT ![w] = [@ EXCEPT !.step = s, !.lock = l]]
          /\ l => s = "deleting"
    <3>1. ~works[w].lock
      BY <1>2 DEF Probe, Formed, Resting
    <3>2. \A s : [works[w] EXCEPT !.step = s] = [works[w] EXCEPT !.step = s, !.lock = FALSE]
      BY <1>a, <3>1 DEF WorkRec
    <3> QED BY <1>2, <3>2 DEF Probe
  <2>2. works' \in [Workers -> WorkRec] /\ works'[w].step = s /\ works'[w].lock = l
        /\ \A v \in Workers \ {w} : works'[v] = works[v]
    BY <1>a, <2>1 DEF WorkRec
  <2>3. Resting'
    BY <1>2, <2>1, <2>2 DEF Probe, Formed, Resting, replacing, database
  <2> QED BY <1>2, <2>2, <2>3 DEF Probe, Formed, Shapes, database, store, replacing, imaging
<1>3. ASSUME NEW w \in Workers, RemoteDelete(w) PROVE Formed'
  <2>1. PICK s \in {"success", "failure"} :
          works' = [works EXCEPT ![w].step = s, ![w].lock = FALSE]
    BY <1>3 DEF RemoteDelete
  <2>2. works' \in [Workers -> WorkRec] /\ works'[w].step = s /\ ~works'[w].lock
        /\ \A v \in Workers \ {w} : works'[v] = works[v]
    BY <1>a, <2>1 DEF WorkRec
  <2>3. blobs' \in [Keys -> Contents] /\ faults' \in Nat
    <3>1. works[w].key \in Keys
      BY <1>a DEF WorkRec
    <3>2. blobs' \in {blobs, [blobs EXCEPT ![works[w].key] = "none"]} /\ faults' \in {faults, faults + 1}
      BY <1>3 DEF RemoteDelete, Fault
    <3> QED BY <3>1, <3>2, Spaces DEF Formed, Shapes
  <2>4. Resting'
    BY <1>3, <2>1, <2>2 DEF RemoteDelete, Formed, Resting, replacing, database
  <2> QED BY <1>3, <2>2, <2>3, <2>4 DEF RemoteDelete, Formed, Shapes, database, replacing, imaging
<1>4. ASSUME NEW w \in Workers, Record(w) PROVE Formed'
  <2>1. PICK s \in {"done", "due", "abandoned"} :
          outbox' = [outbox EXCEPT ![works[w].intent].state = s]
    BY <1>4 DEF Record, Marked
  <2>2. works[w].intent \in DOMAIN outbox
    BY <1>4 DEF Record, WorkInv
  <2>3. outbox' \in Seq(IntentRec)
    <3>1. outbox' = Mark(works[w].intent, s)
      BY <2>1 DEF Mark
    <3> QED BY <2>2, <3>1, Marking DEF Formed, Marks
  <2>4. works' \in [Workers -> WorkRec] /\ works'[w] = Idle
        /\ \A v \in Workers \ {w} : works'[v] = works[v]
    BY <1>4, <1>a, Spaces DEF Record
  <2>5. Resting'
    BY <1>4, <2>4, Spaces DEF Record, Formed, Resting, replacing
  <2> QED BY <1>4, <2>3, <2>4, <2>5 DEF Record, Formed, Shapes, store, replacing, imaging
<1>5. ASSUME NEW w \in Workers, Crash(w) PROVE Formed'
  <2>1. blobs' \in [Keys -> Contents] /\ faults' \in Nat
    BY <1>5, Discarded DEF Crash, Fault, Formed, Shapes
  <2>2. works' \in [Workers -> WorkRec] /\ works'[w] = Idle
        /\ \A v \in Workers \ {w} : works'[v] = works[v]
    BY <1>5, <1>a, Spaces DEF Crash
  <2>3. Resting'
    BY <1>5, <2>2, Spaces DEF Crash, Formed, Resting, replacing, database
  <2> QED BY <1>5, <2>1, <2>2, <2>3 DEF Crash, Formed, Shapes, database, replacing, imaging
<1>6. ASSUME NEW w \in Workers, LoseLock(w) PROVE Formed'
  <2>1. works' \in [Workers -> WorkRec] /\ ~works'[w].lock /\ works'[w].step = works[w].step
        /\ \A v \in Workers \ {w} : works'[v] = works[v]
    BY <1>6, <1>a DEF LoseLock, WorkRec
  <2>2. works[w].step # "idle" /\ faults' \in Nat
    BY <1>6 DEF LoseLock, Formed, Resting, Fault, Shapes
  <2>3. Resting'
    BY <1>6, <2>1, <2>2 DEF LoseLock, Formed, Resting, replacing, database
  <2> QED BY <1>6, <2>1, <2>2, <2>3
          DEF LoseLock, Formed, Shapes, database, store, replacing, imaging
<1>7. ASSUME NEW i \in DOMAIN outbox, LeaseExpires(i) PROVE Formed'
  <2>1. outbox' \in Seq(IntentRec) /\ faults' \in Nat
    <3>1. outbox' = Mark(i, "due") /\ faults' \in {faults, faults + 1}
      BY <1>7 DEF LeaseExpires, Fault, Mark
    <3>2. outbox' \in Seq(IntentRec)
      BY <3>1, Marking DEF Formed, Marks
    <3> QED BY <3>1, <3>2 DEF Formed, Shapes
  <2> QED BY <1>7, <2>1 DEF LeaseExpires, Formed, Shapes, Resting, store, replacing, imaging
<1>8. ASSUME Reconcile PROVE Formed'
  <2>1. outbox' \in Seq(IntentRec)
    BY <1>8, IntentTyped, Spaces DEF Reconcile, Formed, Shapes
  <2> QED BY <1>8, <2>1 DEF Reconcile, Formed, Shapes, Resting, store, replacing, imaging
<1> QED BY <1>1, <1>2, <1>3, <1>4, <1>5, <1>6, <1>7, <1>8 DEF Drain, Work

LEMMA FormedStep ==
    ASSUME Formed, SwapInv, WorkInv, [Next]_vars
    PROVE  Formed'
<1>1. ASSUME NEW k \in Keys, NEW b \in Bytes, StartTransfer(k, b) PROVE Formed'
  <2>1. puts' \subseteq [key : Keys, bytes : Bytes]
    BY <1>1 DEF StartTransfer, Formed, Shapes
  <2> QED BY <1>1, <2>1 DEF StartTransfer, Formed, Shapes, Resting, database, store, replacing, imaging
<1>2. ASSUME NEW p \in puts, EndTransfer(p) PROVE Formed'
  <2>1. p.key \in Keys /\ p.bytes \in Contents
    BY Spaces DEF Formed, Shapes
  <2>2. blobs' \in [Keys -> Contents] /\ late' \subseteq Keys /\ puts' \subseteq puts
    BY <1>2, <2>1 DEF EndTransfer, Formed, Shapes, store
  <2> QED BY <1>2, <2>2 DEF EndTransfer, Formed, Shapes, Resting, database, replacing, imaging
<1>3. ASSUME NEW ms \in SUBSET Images, WriteDocument(ms) PROVE Formed'
  BY <1>3 DEF WriteDocument, Formed, Shapes, Resting, database, store, replacing
<1>4. CASE UNCHANGED vars
  BY <1>4 DEF vars, Formed, Shapes, Resting, database, store, replacing, imaging
<1> QED BY <1>1, <1>2, <1>3, <1>4, FormedFile, FormedSwap, FormedImage, FormedDrain DEF Next

-----------------------------------------------------------------------------
(* The collector and the writers of documents.                             *)
LEMMA ImageStep ==
    ASSUME Formed, ImageInv, [Next]_vars
    PROVE  ImageInv'
<1>a. rows \in [Ids -> RowRec] /\ refs \cup kept \subseteq Images /\ claimed \subseteq Images
      /\ scanned \subseteq Images /\ Images \subseteq Ids /\ Files \subseteq Ids
      /\ Images \cap Files = {} /\ offer.file \in Files
  BY Spaces DEF Formed, Shapes
<1>b. ASSUME UNCHANGED <<refs, kept, claimed>>, scanned' \subseteq scanned,
             \A m \in refs \cup kept : rows'[m].state = rows[m].state
      PROVE  ImageInv'
  BY <1>b DEF ImageInv, ImagesKept
<1>c. ASSUME NEW id \in Ids, id \notin refs \cup kept, NEW r,
             rows' = [rows EXCEPT ![id] = r], UNCHANGED <<refs, kept, claimed>>,
             scanned' \subseteq scanned
      PROVE  ImageInv'
  BY <1>a, <1>b, <1>c
<1>1. ASSUME NEW f \in Files, File(f) PROVE ImageInv'
  <2>1. f \notin refs \cup kept /\ f \in Ids
    BY <1>a
  <2>2. UNCHANGED imaging
    BY <1>1 DEF File, Initiate, StartConfirm, Inspect, FinishConfirm, Withdraw, Delete,
                InitiateReplace
  <2>3. rows' = rows \/ \E r : rows' = [rows EXCEPT ![f] = r]
    BY <1>1 DEF File, Initiate, StartConfirm, Inspect, FinishConfirm, Withdraw, Delete,
                InitiateReplace, Disown, database
  <2> QED BY <1>b, <1>c, <2>1, <2>2, <2>3 DEF imaging
<1>2. ASSUME Swap \/ ExpireOffer \/ RefuseSwap \/ AbandonSwap PROVE ImageInv'
  <2>1. offer.file \notin refs \cup kept /\ offer.file \in Ids
    BY <1>a
  <2>2. UNCHANGED imaging
    BY <1>2 DEF Swap, StartSwap, Copy, Publish, RollBack, ExpireOffer, RefuseSwap, AbandonSwap
  <2>3. rows' = rows \/ \E r : rows' = [rows EXCEPT ![offer.file] = r]
    BY <1>2 DEF Swap, StartSwap, Copy, Publish, RollBack, ExpireOffer, RefuseSwap,
                AbandonSwap, database
  <2> QED BY <1>b, <1>c, <2>1, <2>2, <2>3 DEF imaging
<1>3. ASSUME NEW m \in Images, Image(m) PROVE ImageInv'
  <2>a. m \in Ids /\ (m \in refs \cup kept => rows[m].state = "confirmed" /\ m \in claimed
                                             /\ m \notin scanned)
    BY <1>a DEF ImageInv, ImagesKept
  <2>1. CASE UploadImage(m)
    <3>1. m \notin refs \cup kept
      BY <2>1, <2>a, Spaces DEF UploadImage
    <3> QED BY <1>c, <2>1, <2>a, <3>1 DEF UploadImage
  <2>2. CASE FinishImage(m)
    <3>1. UNCHANGED <<refs, kept, claimed, scanned>>
      BY <2>2 DEF FinishImage
    <3>2. CASE UNCHANGED database
      BY <1>b, <3>1, <3>2 DEF database
    <3>3. CASE rows[m].state = "pending"
      <4>1. m \notin refs \cup kept
        BY <2>a, <3>3
      <4>2. rows' = rows \/ \E r : rows' = [rows EXCEPT ![m] = r]
        BY <2>2 DEF FinishImage, Disown, database
      <4> QED BY <1>b, <1>c, <2>a, <3>1, <4>1, <4>2
    <3> QED BY <2>2, <3>2, <3>3 DEF FinishImage
  <2>3. CASE LetGo(m)
    BY <2>3 DEF LetGo, ImageInv, ImagesKept, database
  <2>4. CASE DiscardImage(m)
    <3>1. m \notin refs \cup kept
      BY <2>4, <2>a DEF DiscardImage
    <3> QED BY <1>c, <2>4, <2>a, <3>1 DEF DiscardImage, Disown, imaging
  <2>5. CASE Scan(m)
    BY <2>5 DEF Scan, ImageInv, ImagesKept, database
  <2>6. CASE Collect(m)
    <3>1. m \notin refs \cup kept /\ scanned' \subseteq scanned
          /\ UNCHANGED <<refs, kept, claimed>>
      BY <2>6, <2>a DEF Collect
    <3>2. rows' = rows \/ \E r : rows' = [rows EXCEPT ![m] = r]
      BY <2>6 DEF Collect, Disown, database
    <3> QED BY <1>b, <1>c, <2>a, <3>1, <3>2
  <2> QED BY <1>3, <2>1, <2>2, <2>3, <2>4, <2>5, <2>6 DEF Image
<1>4. ASSUME NEW ms \in SUBSET Images, WriteDocument(ms) PROVE ImageInv'
  BY <1>4 DEF WriteDocument, ImageInv, ImagesKept, database
<1>5. ASSUME Drain \/ Reconcile PROVE ImageInv'
  <2>1. rows' = rows /\ UNCHANGED imaging
    BY <1>5 DEF Drain, Reconcile, Work, LeaseExpires, Claim, Probe, RemoteDelete, Record,
                Crash, LoseLock, database
  <2> QED BY <1>b, <2>1 DEF imaging
<1>6. ASSUME (\E k \in Keys, b \in Bytes : StartTransfer(k, b)) \/ (\E p \in puts : EndTransfer(p))
             \/ UNCHANGED vars
      PROVE  ImageInv'
  <2>1. rows' = rows /\ UNCHANGED imaging
    BY <1>6 DEF StartTransfer, EndTransfer, database, vars
  <2> QED BY <1>b, <2>1 DEF imaging
<1> QED BY <1>1, <1>2, <1>3, <1>4, <1>5, <1>6 DEF Next

-----------------------------------------------------------------------------
(* The bytes.  Parts of the invariant a step does not disturb.             *)
LEMMA KeysStay ==
    ASSUME KeysInv, UNCHANGED <<rows, puts, checks, outbox, swap, blobs, issued>>
    PROVE  KeysInv'
BY DEF KeysInv, Drawn, Live

LEMMA WorkStays ==
    ASSUME WorkInv, UNCHANGED <<rows, outbox, works>>
    PROVE  WorkInv'
BY DEF WorkInv, Live

LEMMA SwapStays ==
    ASSUME SwapInv, UNCHANGED <<rows, puts, checks, outbox, swap, blobs>>
    PROVE  SwapInv'
BY DEF SwapInv

LEMMA FaultStays ==
    ASSUME FaultInv, UNCHANGED <<rows, outbox, works, faults>>
    PROVE  FaultInv'
BY DEF FaultInv, Strict, AllLocked, Live

LEMMA PutStays ==
    ASSUME PutInv, UNCHANGED <<rows, outbox>>, puts' \subseteq puts, late \subseteq late'
    PROVE  PutInv'
BY DEF PutInv

LEMMA CheckStays ==
    ASSUME CheckInv, UNCHANGED <<rows, blobs, checks, faults>>, late \subseteq late'
    PROVE  CheckInv'
BY DEF CheckInv

LEMMA PictureStays ==
    ASSUME PictureInv, UNCHANGED <<rows, blobs>>, puts' \subseteq puts
    PROVE  PictureInv'
BY DEF PictureInv, Live

LEMMA CertStays ==
    ASSUME CertInv, UNCHANGED <<rows, blobs, faults>>, late \subseteq late'
    PROVE  CertInv'
BY DEF CertInv

LEMMA OrphanStays ==
    ASSUME OrphanInv, UNCHANGED <<rows, outbox, works, blobs>>, late \subseteq late'
    PROVE  OrphanInv'
BY DEF OrphanInv, Pursued, Owned, Live

LEMMA ObjectsStay ==
    ASSUME ObjectsInv, UNCHANGED <<rows, outbox, blobs, late, issued, puts, checks, swap, works, faults>>
    PROVE  ObjectsInv'
BY KeysStay, WorkStays, SwapStays, FaultStays, PutStays, CheckStays, PictureStays,
   CertStays, OrphanStays
DEF ObjectsInv

\* The facts of Formed the lemmas below use.
LEMMA Ranges ==
    ASSUME Formed
    PROVE  /\ rows \in [Ids -> RowRec] /\ \A id \in Ids : rows[id].key \in Keys
           /\ \A k \in Keys : k \in Nat
           /\ issued \in Nat /\ faults \in Nat
           /\ \A i \in DOMAIN outbox : outbox[i].key \in Keys /\ i \in Nat
           /\ blobs \in [Keys -> Contents]
           /\ \A p \in puts : p.key \in Keys /\ p.bytes \in Bytes
           /\ checks \in [Files -> CheckRec] /\ \A f \in Files : checks[f].key \in Keys
           /\ swap.key \in Keys
           /\ works \in [Workers -> WorkRec] /\ \A w \in Workers : works[w].key \in Keys
<1>1. /\ \A id \in Ids : rows[id] \in RowRec
      /\ \A i \in DOMAIN outbox : outbox[i] \in IntentRec /\ i \in Nat
      /\ \A f \in Files : checks[f] \in CheckRec
      /\ \A w \in Workers : works[w] \in WorkRec
      /\ swap \in SwapRec
  BY DEF Formed, Shapes
<1>2. \A r \in RowRec : r.key \in Keys
  BY DEF RowRec
<1>3. \A r \in IntentRec : r.key \in Keys
  BY DEF IntentRec
<1>4. \A r \in CheckRec : r.key \in Keys
  BY DEF CheckRec
<1>5. \A r \in WorkRec : r.key \in Keys
  BY DEF WorkRec
<1>6. \A r \in SwapRec : r.key \in Keys
  BY DEF SwapRec
<1> QED BY <1>1, <1>2, <1>3, <1>4, <1>5, <1>6, Spaces DEF Formed, Shapes

(* A row goes, and leaves behind the deletion of its object; a transfer    *)
(* that may still come is waited for, or known to be late.                 *)
LEMMA Disowning ==
    ASSUME Formed, ObjectsInv, NEW id \in Ids, Live(id), NEW new \in Seq(IntentRec),
           Disown(id, new), new # <<>>,
           \A j \in DOMAIN new : new[j].key = rows[id].key /\ new[j].state # "done",
           UNCHANGED <<blobs, puts, works, swap, issued, faults>>, late \subseteq late',
           \/ \E j \in DOMAIN new : new[j] = Intent(rows[id].key, "delayed")
           \/ \A p \in puts : p.key = rows[id].key => p.key \in late',
           \A f \in Files : checks'[f] \in {checks[f], NoCheck}
    PROVE  ObjectsInv'
<1> DEFINE k == rows[id].key
<1>a. /\ rows' = [rows EXCEPT ![id] = Gone] /\ outbox' = outbox \o new
      /\ rows'[id] = Gone /\ \A o \in Ids \ {id} : rows'[o] = rows[o]
  BY Ranges DEF Disown, Enqueue
<1>b. /\ DOMAIN outbox \subseteq DOMAIN outbox'
      /\ \A i \in DOMAIN outbox : outbox'[i] = outbox[i]
      /\ \A i \in DOMAIN outbox' \ DOMAIN outbox : \E j \in DOMAIN new : outbox'[i] = new[j]
      /\ \A j \in DOMAIN new :
            \E i \in DOMAIN outbox' \ DOMAIN outbox : outbox'[i] = new[j]
  BY <1>a, Listed DEF Formed
<1>c. \A i \in DOMAIN outbox' \ DOMAIN outbox : outbox'[i].key = k /\ outbox'[i].state # "done"
  BY <1>b
<1>d. /\ k \in Keys /\ k # Staging /\ Drawn(k) /\ Drawn(Preferred)
      /\ \A o \in Ids : Live(o) /\ o # id => rows[o].key # k
  BY Ranges, Spaces DEF ObjectsInv, KeysInv, Drawn
<1>e. ~Live(id)' /\ \A o \in Ids : Live(o)' => Live(o) /\ o # id /\ rows'[o] = rows[o]
  BY <1>a, Spaces DEF Live
<1>f. /\ KeysInv /\ WorkInv /\ SwapInv /\ FaultInv /\ PutInv /\ CheckInv /\ PictureInv
      /\ CertInv /\ OrphanInv
  BY DEF ObjectsInv
<1>1. KeysInv'
  <2>1. \A o \in Ids : rows'[o].key <= issued + 1 /\ rows'[o].key # Staging
    BY <1>a, <1>d, <1>f, Spaces DEF KeysInv, Drawn
  <2>2. \A f \in Files : checks'[f].key <= issued + 1
    BY <1>d, <1>f, Spaces DEF KeysInv, Drawn
  <2>3. \A i \in DOMAIN outbox' : outbox'[i].key <= issued + 1
    BY <1>b, <1>c, <1>d, <1>f DEF KeysInv, Drawn
  <2>4. \A a, b \in Ids : Live(a)' /\ Live(b)' /\ rows'[a].key = rows'[b].key => a = b
    BY <1>e, <1>f DEF KeysInv
  <2> QED BY <1>f, <2>1, <2>2, <2>3, <2>4 DEF KeysInv, Drawn
<1>2. WorkInv'
  <2>1. ASSUME NEW o \in Ids, Live(o)', NEW i \in DOMAIN outbox', outbox'[i].key = rows'[o].key
        PROVE  outbox'[i].state = "done"
    BY <1>b, <1>c, <1>d, <1>e, <1>f, <2>1 DEF WorkInv
  <2>2. \A w \in Workers : works'[w].step # "idle" =>
         /\ works'[w].intent \in DOMAIN outbox'
         /\ outbox'[works'[w].intent].key = works'[w].key
         /\ outbox'[works'[w].intent].state # "delayed"
    BY <1>b, <1>f DEF WorkInv
  <2> QED BY <2>1, <2>2 DEF WorkInv
<1>3. SwapInv'
  <2> SUFFICES ASSUME swap.step # "idle" PROVE SwapInv'
    BY DEF SwapInv
  <2>1. k # swap.key /\ swap.key # Preferred
    BY <1>f DEF SwapInv
  <2>2. \A i \in DOMAIN outbox' : outbox'[i].key = swap.key => i = swap.intent
    BY <1>b, <1>c, <1>f, <2>1 DEF SwapInv
  <2>3. \A o \in Ids : rows'[o].key # swap.key
    BY <1>a, <1>f, <2>1, Spaces DEF SwapInv
  <2>4. \A f \in Files : checks'[f].key # swap.key
    BY <1>f, <2>1, Spaces DEF SwapInv
  <2>5. swap.intent \in DOMAIN outbox' /\ outbox'[swap.intent] = Intent(swap.key, "delayed")
    BY <1>b, <1>f DEF SwapInv
  <2> QED BY <1>f, <2>2, <2>3, <2>4, <2>5 DEF SwapInv
<1>4. FaultInv'
  <2>1. \A w \in Workers : works[w].step # "idle" =>
          works[w].intent \in DOMAIN outbox /\ outbox'[works[w].intent] = outbox[works[w].intent]
    BY <1>b, <1>f DEF WorkInv
  <2>2. Strict => Strict'
    BY <2>1 DEF Strict
  <2>3. AllLocked => AllLocked'
    BY DEF AllLocked
  <2>4. \A w \in Workers, o \in Ids :
          faults <= 1 /\ works[w].step = "deleting" /\ Live(o)' => rows'[o].key # works[w].key
    BY <1>e, <1>f DEF FaultInv
  <2> QED BY <1>f, <2>2, <2>3, <2>4 DEF FaultInv
<1>5. PutInv'
  <2> SUFFICES ASSUME NEW p \in puts, p.key # Staging, p.key \notin late'
               PROVE  \/ \E i \in DOMAIN outbox' : outbox'[i] = Intent(p.key, "delayed")
                      \/ \E o \in Ids : rows'[o].state = "pending" /\ rows'[o].key = p.key
    BY DEF PutInv
  <2>1. CASE \E i \in DOMAIN outbox : outbox[i] = Intent(p.key, "delayed")
    BY <1>b, <2>1
  <2>2. CASE p.key = k
    BY <1>b, <2>2
  <2>3. CASE \E o \in Ids : rows[o].state = "pending" /\ rows[o].key = p.key /\ p.key # k
    BY <1>a, <2>3
  <2> QED BY <1>f, <2>1, <2>2, <2>3 DEF PutInv
<1>6. CheckInv'
  <2> SUFFICES ASSUME faults <= 1, NEW f \in Files, checks'[f].found \in Bytes,
                      rows'[f].state = "pending", rows'[f].key = checks'[f].key
               PROVE  /\ blobs[rows'[f].key] # "none"
                      /\ blobs[rows'[f].key] = checks'[f].found \/ rows'[f].key \in late'
    BY DEF CheckInv
  <2>1. checks'[f] = checks[f] /\ rows'[f] = rows[f]
    BY <1>a, Spaces
  <2> QED BY <1>f, <2>1 DEF CheckInv
<1>7. PictureInv'
  BY <1>e, <1>f DEF PictureInv, Ids
<1>8. CertInv'
  <2>1. \A o \in Ids : rows'[o].state = "confirmed" => rows[o].state = "confirmed" /\ rows'[o] = rows[o]
    BY <1>a, Spaces
  <2> QED BY <1>f, <2>1 DEF CertInv
<1>9. OrphanInv'
  <2> SUFFICES ASSUME NEW q \in Keys \ {Staging}, blobs[q] # "none", ~Owned(q)', q \notin late'
               PROVE  Pursued(q)'
    BY DEF OrphanInv
  <2>1. CASE q = k
    <3>1. PICK j \in DOMAIN new : TRUE
      OBVIOUS
    <3>2. PICK i \in DOMAIN outbox' \ DOMAIN outbox : outbox'[i] = new[j]
      BY <1>b
    <3>3. outbox'[i].key = q /\ outbox'[i].state # "done"
      BY <2>1, <3>2
    <3>4. \A w \in Workers : works[w].step = "success" => works[w].intent # i
      BY <1>f, <3>2 DEF WorkInv
    <3> QED BY <3>3, <3>4 DEF Pursued
  <2>2. CASE q # k
    <3>1. ~Owned(q)
      BY <1>a, <2>2 DEF Owned, Live
    <3>2. Pursued(q)
      BY <1>f, <3>1 DEF OrphanInv
    <3> QED BY <1>b, <3>2 DEF Pursued
  <2> QED BY <2>1, <2>2
<1> QED BY <1>1, <1>2, <1>3, <1>4, <1>5, <1>6, <1>7, <1>8, <1>9 DEF ObjectsInv

(* Intents are put down and objects taken away that no row names.          *)
LEMMA Tidying ==
    ASSUME Formed, ObjectsInv, NEW new \in Seq(IntentRec), outbox' = outbox \o new,
           swap' \in {swap, NoSwap},
           \A j \in DOMAIN new :
              /\ Drawn(new[j].key) /\ ~Owned(new[j].key)
              /\ swap'.step # "idle" => new[j].key # swap.key,
           blobs' \in [Keys -> Contents],
           \A k \in Keys :
              \/ blobs'[k] = blobs[k]
              \/ blobs'[k] = "none" /\ ~Owned(k) /\ (swap'.step # "idle" => k # swap.key),
           UNCHANGED <<rows, late, issued, puts, checks, works, faults>>
    PROVE  ObjectsInv'
<1>a. /\ KeysInv /\ WorkInv /\ SwapInv /\ FaultInv /\ PutInv /\ CheckInv /\ PictureInv
      /\ CertInv /\ OrphanInv
  BY DEF ObjectsInv
<1>b. /\ DOMAIN outbox \subseteq DOMAIN outbox'
      /\ \A i \in DOMAIN outbox : outbox'[i] = outbox[i]
      /\ \A i \in DOMAIN outbox' \ DOMAIN outbox : \E j \in DOMAIN new : outbox'[i] = new[j]
  BY Listed DEF Formed
<1>c. \A i \in DOMAIN outbox' \ DOMAIN outbox :
        /\ Drawn(outbox'[i].key) /\ ~Owned(outbox'[i].key)
        /\ swap'.step # "idle" => outbox'[i].key # swap.key
  BY <1>b
<1>d. \A id \in Ids : Live(id) => Owned(rows[id].key) /\ blobs'[rows[id].key] = blobs[rows[id].key]
  BY Ranges DEF Owned
<1>e. \A w \in Workers : works[w].step # "idle" =>
        works[w].intent \in DOMAIN outbox /\ outbox'[works[w].intent] = outbox[works[w].intent]
  BY <1>a, <1>b DEF WorkInv
<1>1. KeysInv'
  <2>1. \A i \in DOMAIN outbox' : outbox'[i].key <= issued + 1
    BY <1>a, <1>b, <1>c DEF KeysInv, Drawn
  <2>2. swap'.key <= issued + 1
    <3>1. swap.key <= issued + 1 /\ NoSwap.key <= issued + 1
      BY <1>a, Ranges, Spaces DEF KeysInv, Drawn
    <3> QED BY <3>1
  <2>3. \A k \in Keys : blobs'[k] # "none" => k <= issued + 1
    BY <1>a DEF KeysInv, Drawn
  <2> QED BY <1>a, <2>1, <2>2, <2>3 DEF KeysInv, Drawn, Live
<1>2. WorkInv'
  <2>1. \A id \in Ids : Live(id) =>
         \A i \in DOMAIN outbox' : outbox'[i].key = rows[id].key => outbox'[i].state = "done"
    BY <1>a, <1>b, <1>c, <1>d DEF WorkInv
  <2> QED BY <1>a, <1>b, <1>e, <2>1 DEF WorkInv, Live
<1>3. SwapInv'
  <2> SUFFICES ASSUME swap'.step # "idle" PROVE SwapInv'
    BY DEF SwapInv
  <2>1. swap' = swap
    BY Spaces
  <2>2. swap.key \in Keys /\ (blobs[swap.key] # "none" => blobs'[swap.key] # "none")
    BY <2>1, Ranges
  <2> QED BY <1>a, <1>b, <1>c, <2>1, <2>2 DEF SwapInv
<1>4. FaultInv'
  <2>1. Strict => Strict'
    BY <1>e DEF Strict
  <2>2. AllLocked => AllLocked'
    BY DEF AllLocked
  <2> QED BY <1>a, <2>1, <2>2 DEF FaultInv, Live
<1>5. PutInv'
  BY <1>a, <1>b DEF PutInv
<1>6. CheckInv'
  <2>1. \A f \in Files : rows[f].state = "pending" => blobs'[rows[f].key] = blobs[rows[f].key]
    BY <1>d, Spaces DEF Live
  <2> QED BY <1>a, <2>1 DEF CheckInv
<1>7. PictureInv'
  <2>1. \A m \in Images : Live(m) => blobs'[rows[m].key] = blobs[rows[m].key]
    BY <1>d, Spaces
  <2> QED BY <1>a, <2>1 DEF PictureInv, Live
<1>8. CertInv'
  <2>1. \A id \in Ids : rows[id].state = "confirmed" => blobs'[rows[id].key] = blobs[rows[id].key]
    BY <1>d DEF Live
  <2> QED BY <1>a, <2>1 DEF CertInv
<1>9. OrphanInv'
  <2>1. \A k : Owned(k)' = Owned(k)
    BY DEF Owned, Live
  <2>2. \A k : Pursued(k) => Pursued(k)'
    BY <1>b DEF Pursued
  <2> QED BY <1>a, <2>1, <2>2 DEF OrphanInv
<1> QED BY <1>1, <1>2, <1>3, <1>4, <1>5, <1>6, <1>7, <1>8, <1>9 DEF ObjectsInv

(* A row is given a key that no row names and no deletion is coming for.   *)
LEMMA Naming ==
    ASSUME Formed, ObjectsInv, NEW id \in Ids, rows[id].state = "absent",
           NEW k \in Keys \ {Staging}, NEW b \in Contents,
           rows' = [rows EXCEPT ![id] = Row("pending", k, b)],
           ~Owned(k), issued' \in Nat, issued <= issued', k <= issued' + 1,
           \A i \in DOMAIN outbox : outbox[i].key = k => outbox[i].state = "done",
           swap.step # "idle" => k # swap.key,
           faults <= 1 => \A w \in Workers : works[w].step = "deleting" => works[w].key # k,
           \/ id \in Files /\ puts' = puts
           \/ /\ id \in Images /\ puts' = puts \cup {[key |-> k, bytes |-> "other"]}
              /\ b = "other" /\ blobs[k] = "none" /\ \A p \in puts : p.key # k,
           UNCHANGED <<outbox, blobs, late, checks, swap, works, faults>>
    PROVE  ObjectsInv'
<1>a. /\ KeysInv /\ WorkInv /\ SwapInv /\ FaultInv /\ PutInv /\ CheckInv /\ PictureInv
      /\ CertInv /\ OrphanInv
  BY DEF ObjectsInv
<1>b. /\ rows'[id].state = "pending" /\ rows'[id].key = k /\ rows'[id].bytes = b
      /\ \A o \in Ids \ {id} : rows'[o] = rows[o]
  BY Ranges, RowTyped
<1>c. \A o \in Ids \ {id} : Live(o)' = Live(o) /\ (Live(o) => rows[o].key # k)
  BY <1>b DEF Live, Owned
<1>d. \A p \in puts' : p \in puts \/ (p.key = k /\ p.bytes = "other" /\ id \in Images)
  OBVIOUS
<1>1. KeysInv'
  <2>1. \A n \in Keys : n <= issued + 1 => n <= issued' + 1
    BY Ranges
  <2>2. \A o \in Ids : rows'[o].key <= issued' + 1 /\ rows'[o].key # Staging
    BY <1>a, <1>b, <2>1, Ranges DEF KeysInv, Drawn
  <2>3. \A p \in puts' : p.key <= issued' + 1
    BY <1>a, <1>d, <2>1, Ranges DEF KeysInv, Drawn
  <2>4. \A f \in Files : checks[f].key <= issued' + 1
    BY <1>a, <2>1, Ranges DEF KeysInv, Drawn
  <2>5. \A i \in DOMAIN outbox : outbox[i].key <= issued' + 1
    BY <1>a, <2>1, Ranges DEF KeysInv, Drawn
  <2>6. swap.key <= issued' + 1
    BY <1>a, <2>1, Ranges DEF KeysInv, Drawn
  <2>7. \A n \in Keys : blobs[n] # "none" => n <= issued' + 1
    BY <1>a, <2>1 DEF KeysInv, Drawn
  <2>8. \A x, y \in Ids : Live(x)' /\ Live(y)' /\ rows'[x].key = rows'[y].key => x = y
    BY <1>a, <1>b, <1>c DEF KeysInv
  <2> QED BY <2>2, <2>3, <2>4, <2>5, <2>6, <2>7, <2>8 DEF KeysInv, Drawn
<1>2. WorkInv'
  <2>1. ASSUME NEW o \in Ids, Live(o)', NEW i \in DOMAIN outbox, outbox[i].key = rows'[o].key
        PROVE  outbox[i].state = "done"
    BY <1>a, <1>b, <1>c, <2>1 DEF WorkInv
  <2> QED BY <1>a, <2>1 DEF WorkInv
<1>3. SwapInv'
  <2> SUFFICES ASSUME swap.step # "idle" PROVE SwapInv'
    BY DEF SwapInv
  <2>1. \A o \in Ids : rows'[o].key # swap.key
    BY <1>a, <1>b DEF SwapInv
  <2>2. \A p \in puts' : p.key # swap.key
    BY <1>a, <1>d DEF SwapInv
  <2> QED BY <1>a, <2>1, <2>2 DEF SwapInv
<1>4. FaultInv'
  <2>1. (Strict => Strict') /\ (AllLocked => AllLocked')
    BY DEF Strict, AllLocked
  <2>2. ASSUME faults <= 1, NEW w \in Workers, NEW o \in Ids, works[w].step = "deleting", Live(o)'
        PROVE  rows'[o].key # works[w].key
    BY <1>a, <1>b, <1>c, <2>2 DEF FaultInv
  <2> QED BY <1>a, <2>1, <2>2 DEF FaultInv
<1>5. PutInv'
  <2> SUFFICES ASSUME NEW p \in puts', p.key # Staging, p.key \notin late,
                      ~\E i \in DOMAIN outbox : outbox[i] = Intent(p.key, "delayed")
               PROVE  \E o \in Ids : rows'[o].state = "pending" /\ rows'[o].key = p.key
    BY DEF PutInv
  <2>1. CASE p.key = k
    BY <1>b, <2>1
  <2>2. CASE p \in puts
    <3>1. PICK o \in Ids : rows[o].state = "pending" /\ rows[o].key = p.key
      BY <1>a, <2>2 DEF PutInv
    <3> QED BY <1>b, <3>1
  <2> QED BY <1>d, <2>1, <2>2
<1>6. CheckInv'
  <2>1. id \in Files => checks[id].found \notin Bytes
    BY Spaces DEF Formed, Resting
  <2>2. \A f \in Files : f # id => rows'[f] = rows[f]
    BY <1>b, Spaces
  <2> QED BY <1>a, <2>1, <2>2 DEF CheckInv
<1>7. PictureInv'
  <2> SUFFICES ASSUME NEW m \in Images, Live(m)'
               PROVE  /\ rows'[m].bytes = "other"
                      /\ blobs[rows'[m].key] \in {"none", "other"}
                      /\ \A p \in puts' : p.key = rows'[m].key =>
                           p.bytes = "other" /\ rows'[m].state = "pending"
    BY DEF PictureInv
  <2>1. CASE m = id
    BY <1>b, <1>d, <2>1, Spaces
  <2>2. CASE m # id
    BY <1>a, <1>b, <1>c, <1>d, <2>2, Spaces DEF PictureInv
  <2> QED BY <2>1, <2>2
<1>8. CertInv'
  BY <1>a, <1>b DEF CertInv
<1>9. OrphanInv'
  <2>1. \A n : Owned(n) => Owned(n)'
    BY <1>b DEF Owned, Live
  <2>2. \A n : Pursued(n)' = Pursued(n)
    BY DEF Pursued
  <2> QED BY <1>a, <2>1, <2>2 DEF OrphanInv
<1> QED BY <1>1, <1>2, <1>3, <1>4, <1>5, <1>6, <1>7, <1>8, <1>9 DEF ObjectsInv

(* A pending row is confirmed with the bytes its object holds, or will hold *)
(* when a transfer known to be late ends.                                  *)
LEMMA Confirming ==
    ASSUME Formed, ObjectsInv, NEW id \in Ids, rows[id].state = "pending", NEW r \in RowRec,
           r.state = "confirmed", r.key = rows[id].key,
           rows' = [rows EXCEPT ![id] = r], late \subseteq late',
           \A p \in puts : p.key = r.key => p.key \in late' /\ id \in Files,
           id \in Images => r.bytes = "other",
           faults <= 1 => /\ blobs[r.key] # "none"
                          /\ blobs[r.key] = r.bytes \/ r.key \in late',
           \A f \in Files : checks'[f] \in {checks[f], NoCheck},
           UNCHANGED <<outbox, blobs, issued, puts, swap, works, faults>>
    PROVE  ObjectsInv'
<1>a. /\ KeysInv /\ WorkInv /\ SwapInv /\ FaultInv /\ PutInv /\ CheckInv /\ PictureInv
      /\ CertInv /\ OrphanInv
  BY DEF ObjectsInv
<1>b. /\ rows'[id] = r /\ \A o \in Ids \ {id} : rows'[o] = rows[o]
      /\ \A o \in Ids : rows'[o].key = rows[o].key /\ Live(o)' = Live(o)
  BY Ranges DEF Live
<1>c. Drawn(rows[id].key) /\ Drawn(Preferred)
  BY <1>a, Ranges, Spaces DEF KeysInv, Drawn
<1>1. KeysInv'
  <2>1. \A f \in Files : checks'[f].key <= issued + 1
    BY <1>a, <1>c, Spaces DEF KeysInv, Drawn
  <2> QED BY <1>a, <1>b, <2>1 DEF KeysInv, Drawn
<1>2. WorkInv'
  BY <1>a, <1>b DEF WorkInv
<1>3. SwapInv'
  <2>1. swap.step # "idle" => \A f \in Files : checks'[f].key # swap.key
    BY <1>a, Spaces DEF SwapInv
  <2> QED BY <1>a, <1>b, <2>1 DEF SwapInv
<1>4. FaultInv'
  <2>1. (Strict => Strict') /\ (AllLocked => AllLocked')
    BY DEF Strict, AllLocked
  <2> QED BY <1>a, <1>b, <2>1 DEF FaultInv
<1>5. PutInv'
  <2> SUFFICES ASSUME NEW p \in puts, p.key # Staging, p.key \notin late',
                      ~\E i \in DOMAIN outbox : outbox[i] = Intent(p.key, "delayed")
               PROVE  \E o \in Ids : rows'[o].state = "pending" /\ rows'[o].key = p.key
    BY DEF PutInv
  <2>1. PICK o \in Ids : rows[o].state = "pending" /\ rows[o].key = p.key
    BY <1>a DEF PutInv
  <2> QED BY <1>b, <2>1
<1>6. CheckInv'
  <2>1. ASSUME NEW f \in Files, checks'[f].found \in Bytes, rows'[f].state = "pending"
        PROVE  checks'[f] = checks[f] /\ rows'[f] = rows[f]
    BY <1>b, <2>1, Spaces
  <2> QED BY <1>a, <2>1 DEF CheckInv
<1>7. PictureInv'
  <2> SUFFICES ASSUME NEW m \in Images, Live(m)'
               PROVE  /\ rows'[m].bytes = "other"
                      /\ blobs[rows'[m].key] \in {"none", "other"}
                      /\ \A p \in puts : p.key = rows'[m].key =>
                           p.bytes = "other" /\ rows'[m].state = "pending"
    BY DEF PictureInv
  <2>1. m \in Ids /\ Live(m) /\ rows'[m].key = rows[m].key
    BY <1>b, Spaces
  <2>2. CASE m = id
    <3>1. \A p \in puts : p.key # r.key
      BY <2>2, Spaces
    <3> QED BY <1>a, <1>b, <2>1, <2>2, <3>1 DEF PictureInv
  <2>3. CASE m # id
    BY <1>a, <1>b, <2>1, <2>3 DEF PictureInv
  <2> QED BY <2>2, <2>3
<1>8. CertInv'
  <2> SUFFICES ASSUME faults <= 1, NEW o \in Ids, rows'[o].state = "confirmed"
               PROVE  /\ blobs[rows'[o].key] # "none"
                      /\ blobs[rows'[o].key] = rows'[o].bytes \/ rows'[o].key \in late'
    BY DEF CertInv
  <2> QED BY <1>a, <1>b DEF CertInv
<1>9. OrphanInv'
  <2>1. \A n : Owned(n)' = Owned(n) /\ Pursued(n)' = Pursued(n)
    BY <1>b DEF Owned, Pursued
  <2> QED BY <1>a, <2>1 DEF OrphanInv
<1> QED BY <1>1, <1>2, <1>3, <1>4, <1>5, <1>6, <1>7, <1>8, <1>9 DEF ObjectsInv

(* Confirmations begin, look and end.                                      *)
LEMMA Checking ==
    ASSUME Formed, ObjectsInv,
           \A f \in Files :
              \/ checks'[f] \in {checks[f], NoCheck}
              \/ /\ checks'[f].key \in {rows[f].key, checks[f].key}
                 /\ checks'[f].found \in Bytes => checks'[f].found = blobs[checks'[f].key],
           UNCHANGED <<rows, outbox, blobs, late, issued, puts, swap, works, faults>>
    PROVE  ObjectsInv'
<1>a. KeysInv /\ SwapInv /\ CheckInv
  BY DEF ObjectsInv
<1>1. KeysInv'
  <2>1. \A f \in Files : rows[f].key <= issued + 1 /\ checks[f].key <= issued + 1
                         /\ NoCheck.key <= issued + 1
    BY <1>a, Ranges, Spaces DEF KeysInv, Drawn
  <2>2. \A f \in Files : checks'[f].key <= issued + 1
    BY <2>1
  <2> QED BY <1>a, <2>2 DEF KeysInv, Drawn, Live
<1>2. SwapInv'
  <2>1. swap.step # "idle" =>
          \A f \in Files : rows[f].key # swap.key /\ checks[f].key # swap.key /\ NoCheck.key # swap.key
    BY <1>a, Spaces DEF SwapInv
  <2>2. swap.step # "idle" => \A f \in Files : checks'[f].key # swap.key
    BY <2>1
  <2> QED BY <1>a, <2>2 DEF SwapInv
<1>3. CheckInv'
  <2> SUFFICES ASSUME faults <= 1, NEW f \in Files, checks'[f].found \in Bytes,
                      rows[f].state = "pending", rows[f].key = checks'[f].key
               PROVE  /\ blobs[rows[f].key] # "none"
                      /\ blobs[rows[f].key] = checks'[f].found \/ rows[f].key \in late
    BY DEF CheckInv
  <2>1. checks'[f] # NoCheck
    BY Spaces
  <2> QED BY <1>a, <2>1, Spaces DEF CheckInv
<1> QED BY <1>1, <1>2, <1>3, WorkStays, FaultStays, PutStays, PictureStays, CertStays, OrphanStays
        DEF ObjectsInv

(* A transfer is let in for a pending file or for the staging key.         *)
LEMMA LettingIn ==
    ASSUME Formed, ObjectsInv, NEW k \in Keys, NEW b \in Bytes, StartTransfer(k, b)
    PROVE  ObjectsInv'
<1>a. KeysInv /\ SwapInv /\ PutInv /\ PictureInv /\ CheckInv
  BY DEF ObjectsInv
<1>b. /\ puts' = puts \cup {[key |-> k, bytes |-> b]}
      /\ UNCHANGED <<rows, outbox, blobs, late, issued, checks, swap, works, faults>>
  BY DEF StartTransfer, database, store, replacing
<1>c. \A p \in puts' : p \in puts \/ p.key = k
  BY <1>b
<1>d. k # Staging => \E f \in Files : rows[f].state = "pending" /\ rows[f].key = k
  BY DEF StartTransfer, Writable
<1>1. KeysInv'
  <2>1. k <= issued + 1
    <3>1. CASE k = Staging
      BY <3>1, Ranges, Spaces
    <3>2. CASE k # Staging
      BY <1>a, <1>d, <3>2, Spaces DEF KeysInv, Drawn
    <3> QED BY <3>1, <3>2
  <2>2. \A p \in puts' : p.key <= issued + 1
    BY <1>a, <1>c, <2>1 DEF KeysInv, Drawn
  <2> QED BY <1>a, <1>b, <2>2 DEF KeysInv, Drawn, Live
<1>2. SwapInv'
  <2>1. swap.step # "idle" => k # swap.key
    BY <1>a, <1>d, Spaces DEF SwapInv
  <2>2. swap.step # "idle" => \A p \in puts' : p.key # swap.key
    BY <1>a, <1>c, <2>1 DEF SwapInv
  <2> QED BY <1>a, <1>b, <2>2 DEF SwapInv
<1>3. PutInv'
  BY <1>a, <1>b, <1>c, <1>d, Spaces DEF PutInv
<1>4. PictureInv'
  <2>1. \A m \in Images : Live(m) => rows[m].key # k
    <3> SUFFICES ASSUME NEW m \in Images, Live(m), rows[m].key = k PROVE FALSE
      OBVIOUS
    <3>1. k # Staging /\ m \in Ids
      BY <1>a, Spaces DEF KeysInv
    <3>2. PICK f \in Files : rows[f].state = "pending" /\ rows[f].key = k
      BY <1>d, <3>1
    <3>3. f = m
      BY <1>a, <3>1, <3>2, Spaces DEF KeysInv, Live
    <3> QED BY <3>3, Spaces
  <2> QED BY <1>a, <1>b, <1>c, <2>1 DEF PictureInv, Live
<1> QED BY <1>1, <1>2, <1>3, <1>4, <1>b, WorkStays, FaultStays, CheckStays, CertStays, OrphanStays
        DEF ObjectsInv

(* A transfer ends: its bytes are those of a pending row, or are known to  *)
(* be late, or a deletion of them is to come.                              *)
LEMMA Landing ==
    ASSUME Formed, ObjectsInv, NEW p \in puts, EndTransfer(p)
    PROVE  ObjectsInv'
<1>a. /\ KeysInv /\ WorkInv /\ SwapInv /\ FaultInv /\ PutInv /\ CheckInv /\ PictureInv
      /\ CertInv /\ OrphanInv
  BY DEF ObjectsInv
<1>b. /\ puts' \subseteq puts /\ late \subseteq late'
      /\ UNCHANGED <<rows, outbox, issued, checks, swap, works, faults>>
  BY DEF EndTransfer, database, replacing, store
<1>1. CASE UNCHANGED blobs
  <2>1. KeysInv' /\ SwapInv'
    BY <1>1, <1>a, <1>b DEF KeysInv, SwapInv, Drawn, Live
  <2> QED BY <1>1, <1>a, <1>b, <2>1, WorkStays, FaultStays, PutStays, CheckStays, PictureStays,
             CertStays, OrphanStays DEF ObjectsInv
<1>2. CASE /\ blobs' = [blobs EXCEPT ![p.key] = p.bytes]
           /\ late' = IF Inspected(p.key) THEN late \cup {p.key} ELSE late
  <2>a. /\ p.key \in Keys /\ p.bytes \in Bytes /\ p.bytes # "none" /\ blobs'[p.key] = p.bytes
        /\ \A k \in Keys \ {p.key} : blobs'[k] = blobs[k]
    BY <1>2, Ranges, Spaces
  <2>b. /\ \A id \in Ids : rows[id].key \in Keys
        /\ \A f \in Files : checks[f].key \in Keys
        /\ swap.key \in Keys
    BY Ranges
  <2>1. KeysInv'
    <3>1. \A k \in Keys : blobs'[k] # "none" => k <= issued + 1
      BY <1>a, <2>a DEF KeysInv, Drawn
    <3> QED BY <1>a, <1>b, <3>1 DEF KeysInv, Drawn, Live
  <2>2. SwapInv'
    <3>1. swap.step # "idle" => blobs'[swap.key] = blobs[swap.key]
      BY <1>a, <2>a, <2>b DEF SwapInv
    <3> QED BY <1>a, <1>b, <3>1 DEF SwapInv
  <2>3. CheckInv'
    <3> SUFFICES ASSUME faults <= 1, NEW f \in Files, checks[f].found \in Bytes,
                        rows[f].state = "pending", rows[f].key = checks[f].key
                 PROVE  /\ blobs'[rows[f].key] # "none"
                        /\ blobs'[rows[f].key] = checks[f].found \/ rows[f].key \in late'
      BY <1>b DEF CheckInv
    <3>1. CASE rows[f].key = p.key
      <4>1. Inspected(p.key)
        BY <3>1, Spaces DEF Inspected
      <4> QED BY <1>2, <2>a, <3>1, <4>1
    <3>2. CASE rows[f].key # p.key
      <4>1. blobs'[rows[f].key] = blobs[rows[f].key]
        BY <2>a, <2>b, <3>2, Spaces
      <4> QED BY <1>a, <1>b, <4>1 DEF CheckInv
    <3> QED BY <3>1, <3>2
  <2>4. PictureInv'
    <3>1. \A m \in Images : Live(m) => blobs'[rows[m].key] \in {"none", "other"}
      BY <1>a, <2>a, <2>b, Spaces DEF PictureInv
    <3> QED BY <1>a, <1>b, <3>1 DEF PictureInv, Live
  <2>5. CertInv'
    <3> SUFFICES ASSUME faults <= 1, NEW id \in Ids, rows[id].state = "confirmed"
                 PROVE  /\ blobs'[rows[id].key] # "none"
                        /\ blobs'[rows[id].key] = rows[id].bytes \/ rows[id].key \in late'
      BY <1>b DEF CertInv
    <3>1. CASE rows[id].key = p.key
      <4>1. Live(id) /\ p.key # Staging
        BY <1>a, <3>1 DEF Live, KeysInv
      <4>2. ~\E i \in DOMAIN outbox : outbox[i] = Intent(p.key, "delayed")
        <5>1. Intent(p.key, "delayed").key = p.key /\ Intent(p.key, "delayed").state = "delayed"
          BY DEF Intent
        <5> QED BY <1>a, <3>1, <4>1, <5>1 DEF WorkInv
      <4>3. ~\E o \in Ids : rows[o].state = "pending" /\ rows[o].key = p.key
        BY <1>a, <3>1, <4>1 DEF KeysInv, Live
      <4> QED BY <1>a, <1>b, <2>a, <3>1, <4>1, <4>2, <4>3 DEF PutInv
    <3>2. CASE rows[id].key # p.key
      <4>1. blobs'[rows[id].key] = blobs[rows[id].key]
        BY <2>a, <2>b, <3>2
      <4> QED BY <1>a, <1>b, <4>1 DEF CertInv
    <3> QED BY <3>1, <3>2
  <2>6. OrphanInv'
    <3> SUFFICES ASSUME NEW k \in Keys \ {Staging}, blobs'[k] # "none", ~Owned(k), k \notin late'
                 PROVE  Pursued(k)
      BY <1>b DEF OrphanInv, Owned, Live, Pursued
    <3>1. CASE k = p.key
      <4>1. ~\E o \in Ids : rows[o].state = "pending" /\ rows[o].key = k
        BY DEF Owned, Live
      <4>2. PICK i \in DOMAIN outbox : outbox[i] = Intent(k, "delayed")
        BY <1>a, <1>b, <3>1, <4>1 DEF PutInv
      <4>3. outbox[i].key = k /\ outbox[i].state = "delayed"
        BY <4>2 DEF Intent
      <4> QED BY <1>a, <4>3 DEF WorkInv, Pursued
    <3>2. CASE k # p.key
      BY <1>a, <1>b, <2>a, <3>2 DEF OrphanInv
    <3> QED BY <3>1, <3>2
  <2> QED BY <1>a, <1>b, <2>1, <2>2, <2>3, <2>4, <2>5, <2>6, WorkStays, FaultStays, PutStays
          DEF ObjectsInv
<1> QED BY <1>1, <1>2 DEF EndTransfer, store

-----------------------------------------------------------------------------
(* The replacement.                                                        *)

\* A key not yet drawn is nowhere.
LEMMA Fresh ==
    ASSUME Formed, ObjectsInv, Draw
    PROVE  /\ Random \in Keys /\ Random # Staging /\ Random # Preferred
           /\ issued' = issued + 1 /\ issued' \in Nat /\ Random = issued' + 1
           /\ ~Owned(Random) /\ blobs[Random] = "none"
           /\ \A id \in Ids : rows[id].key # Random
           /\ \A p \in puts : p.key # Random
           /\ \A f \in Files : checks[f].key # Random
           /\ \A i \in DOMAIN outbox : outbox[i].key # Random
           /\ swap.key # Random
           /\ \A w \in Workers : works[w].step # "idle" => works[w].key # Random
<1>1. /\ Random \in Keys /\ Random # Staging /\ Random # Preferred
      /\ issued' = issued + 1 /\ issued' \in Nat /\ Random = issued + 2 /\ issued \in Nat
  BY Drawing DEF Formed, Shapes
<1>2. ~Drawn(Random)
  BY <1>1 DEF Drawn
<1>3. KeysInv /\ WorkInv
  BY DEF ObjectsInv
<1>4. /\ \A id \in Ids : rows[id].key # Random
      /\ \A p \in puts : p.key # Random
      /\ \A f \in Files : checks[f].key # Random
      /\ \A i \in DOMAIN outbox : outbox[i].key # Random
      /\ swap.key # Random /\ blobs[Random] = "none"
  BY <1>1, <1>2, <1>3 DEF KeysInv
<1>5. \A w \in Workers : works[w].step # "idle" => works[w].key # Random
  BY <1>3, <1>4 DEF WorkInv
<1> QED BY <1>1, <1>4, <1>5 DEF Owned

LEMMA Starting ==
    ASSUME Formed, ObjectsInv, NEW pin, StartSwap(pin)
    PROVE  ObjectsInv'
<1>a. /\ KeysInv /\ WorkInv /\ SwapInv /\ FaultInv /\ PutInv /\ CheckInv /\ PictureInv
      /\ CertInv /\ OrphanInv
  BY DEF ObjectsInv
<1>b. /\ Draw /\ outbox' = outbox \o <<Intent(Random, "delayed")>>
      /\ swap' = [step |-> "copying", key |-> Random, intent |-> Len(outbox) + 1, pin |-> pin]
      /\ UNCHANGED <<rows, blobs, late, puts, checks, works, faults>>
  BY DEF StartSwap, Enqueue, store
<1>c. /\ Random \in Keys /\ Random # Staging /\ Random # Preferred
      /\ issued' = issued + 1 /\ issued' \in Nat /\ Random = issued' + 1
      /\ ~Owned(Random)
      /\ \A id \in Ids : rows[id].key # Random
      /\ \A p \in puts : p.key # Random
      /\ \A f \in Files : checks[f].key # Random
      /\ \A i \in DOMAIN outbox : outbox[i].key # Random
  BY <1>b, Fresh
<1>d. /\ Intent(Random, "delayed") \in IntentRec /\ Intent(Random, "delayed").key = Random
  BY <1>c, IntentTyped
<1>e. /\ DOMAIN outbox \subseteq DOMAIN outbox'
      /\ \A i \in DOMAIN outbox : outbox'[i] = outbox[i]
      /\ \A i \in DOMAIN outbox' \ DOMAIN outbox : outbox'[i] = Intent(Random, "delayed")
      /\ Len(outbox) + 1 \in DOMAIN outbox' \ DOMAIN outbox
      /\ \A i \in DOMAIN outbox' \ DOMAIN outbox : i = Len(outbox) + 1
  <2>1. /\ <<Intent(Random, "delayed")>> \in Seq(IntentRec)
        /\ DOMAIN <<Intent(Random, "delayed")>> = {1} /\ Len(<<Intent(Random, "delayed")>>) = 1
        /\ <<Intent(Random, "delayed")>>[1] = Intent(Random, "delayed")
    BY <1>d, OneMore
  <2>2. outbox \in Seq(IntentRec)
    BY DEF Formed, Shapes
  <2>3. DOMAIN outbox' = 1..(Len(outbox) + 1) /\ DOMAIN outbox = 1..Len(outbox) /\ Len(outbox) \in Nat
    BY <1>b, <2>1, <2>2
  <2>4. /\ DOMAIN outbox \subseteq DOMAIN outbox'
        /\ \A i \in DOMAIN outbox : outbox'[i] = outbox[i]
        /\ \A i \in DOMAIN outbox' \ DOMAIN outbox :
             \E j \in {1} : outbox'[i] = <<Intent(Random, "delayed")>>[j]
    BY <1>b, <2>1, Listed DEF Formed
  <2> QED BY <2>1, <2>3, <2>4
<1>f. \A w \in Workers : works[w].step # "idle" =>
        works[w].intent \in DOMAIN outbox /\ outbox'[works[w].intent] = outbox[works[w].intent]
  BY <1>a, <1>e DEF WorkInv
<1>1. KeysInv'
  <2>1. \A k \in Keys : k <= issued + 1 => k <= issued' + 1
    BY <1>c, Ranges
  <2>2. \A i \in DOMAIN outbox' : outbox'[i].key <= issued' + 1
    <3>1. ASSUME NEW i \in DOMAIN outbox PROVE outbox'[i].key <= issued' + 1
      BY <1>a, <1>e, <2>1, Ranges DEF KeysInv, Drawn
    <3>2. ASSUME NEW i \in DOMAIN outbox' \ DOMAIN outbox PROVE outbox'[i].key <= issued' + 1
      BY <1>c, <1>d, <1>e
    <3> QED BY <3>1, <3>2
  <2>3. swap'.key <= issued' + 1
    BY <1>b, <1>c
  <2>4. \A k \in Keys : blobs[k] # "none" => k <= issued' + 1
    BY <1>a, <2>1 DEF KeysInv, Drawn
  <2>5. \A id \in Ids : rows[id].key <= issued' + 1
    BY <1>a, <2>1, Ranges DEF KeysInv, Drawn
  <2>6. \A p \in puts : p.key <= issued' + 1
    BY <1>a, <2>1, Ranges DEF KeysInv, Drawn
  <2>7. \A f \in Files : checks[f].key <= issued' + 1
    BY <1>a, <2>1, Ranges DEF KeysInv, Drawn
  <2> QED BY <1>a, <1>b, <2>2, <2>3, <2>4, <2>5, <2>6, <2>7 DEF KeysInv, Drawn, Live
<1>2. WorkInv'
  <2>1. \A id \in Ids : Live(id) =>
         \A i \in DOMAIN outbox' : outbox'[i].key = rows[id].key => outbox'[i].state = "done"
    BY <1>a, <1>c, <1>d, <1>e DEF WorkInv
  <2>2. \A w \in Workers : works[w].step # "idle" =>
         /\ works[w].intent \in DOMAIN outbox'
         /\ outbox'[works[w].intent].key = works[w].key
         /\ outbox'[works[w].intent].state # "delayed"
    BY <1>a, <1>e, <1>f DEF WorkInv
  <2> QED BY <1>b, <2>1, <2>2 DEF WorkInv, Live
<1>3. SwapInv'
  <2>1. swap'.key = Random /\ swap'.intent = Len(outbox) + 1 /\ swap'.step = "copying"
    BY <1>b
  <2>2. \A i \in DOMAIN outbox' : outbox'[i].key = Random => i = Len(outbox) + 1
    BY <1>c, <1>e
  <2> QED BY <1>b, <1>c, <1>e, <2>1, <2>2 DEF SwapInv
<1>4. FaultInv'
  <2>1. (Strict => Strict') /\ (AllLocked => AllLocked')
    BY <1>b, <1>f DEF Strict, AllLocked
  <2> QED BY <1>a, <1>b, <2>1 DEF FaultInv, Live
<1>5. PutInv'
  BY <1>a, <1>b, <1>e DEF PutInv
<1>6. OrphanInv'
  <2>1. \A k : (Owned(k)' = Owned(k)) /\ (Pursued(k) => Pursued(k)')
    BY <1>b, <1>e DEF Owned, Live, Pursued
  <2> QED BY <1>a, <1>b, <2>1 DEF OrphanInv
<1> QED BY <1>1, <1>2, <1>3, <1>4, <1>5, <1>6, <1>a, <1>b, CheckStays, PictureStays, CertStays
        DEF ObjectsInv

(* A candidate is made: its own intent pursues it.                         *)
LEMMA Copying ==
    ASSUME Formed, ObjectsInv, swap.step = "copying", blobs[Staging] # "none",
           blobs' = [blobs EXCEPT ![swap.key] = blobs[Staging]],
           swap' = [swap EXCEPT !.step = "ready"],
           UNCHANGED <<rows, outbox, late, issued, puts, checks, works, faults>>
    PROVE  ObjectsInv'
<1>a. /\ KeysInv /\ WorkInv /\ SwapInv /\ FaultInv /\ PutInv /\ CheckInv /\ PictureInv
      /\ CertInv /\ OrphanInv
  BY DEF ObjectsInv
<1>b. /\ swap.key \in Keys /\ blobs'[swap.key] = blobs[Staging]
      /\ \A k \in Keys \ {swap.key} : blobs'[k] = blobs[k]
  BY Ranges
<1>c. /\ swap'.key = swap.key /\ swap'.intent = swap.intent /\ swap'.step = "ready"
  BY DEF Formed, Shapes, SwapRec
<1>d. /\ swap.intent \in DOMAIN outbox /\ outbox[swap.intent] = Intent(swap.key, "delayed")
      /\ \A id \in Ids : rows[id].key # swap.key
  BY <1>a DEF SwapInv
<1>e. \A id \in Ids : blobs'[rows[id].key] = blobs[rows[id].key]
  BY <1>b, <1>d, Ranges
<1>1. KeysInv'
  <2>1. Drawn(swap.key)
    BY <1>a DEF KeysInv
  <2>2. \A k \in Keys : blobs'[k] # "none" => k <= issued + 1
    BY <1>a, <1>b, <2>1 DEF KeysInv, Drawn
  <2> QED BY <1>a, <1>c, <2>2 DEF KeysInv, Drawn, Live
<1>2. SwapInv'
  BY <1>a, <1>b, <1>c DEF SwapInv
<1>3. CheckInv' /\ CertInv'
  BY <1>a, <1>e, Spaces DEF CheckInv, CertInv
<1>4. PictureInv'
  BY <1>a, <1>e, Spaces DEF PictureInv, Live
<1>5. OrphanInv'
  <2>1. outbox[swap.intent].key = swap.key /\ outbox[swap.intent].state = "delayed"
    BY <1>d DEF Intent
  <2>2. Pursued(swap.key)
    BY <1>a, <1>d, <2>1 DEF Pursued, WorkInv
  <2>3. \A k : (Owned(k)' = Owned(k)) /\ (Pursued(k)' = Pursued(k))
    BY DEF Owned, Live, Pursued
  <2> QED BY <1>a, <1>b, <2>2, <2>3 DEF OrphanInv
<1> QED BY <1>a, <1>1, <1>2, <1>3, <1>4, <1>5, WorkStays, FaultStays, PutStays DEF ObjectsInv

(* A candidate is published: the row moves to its key, and what it leaves   *)
(* is deleted.                                                             *)
LEMMA Publishing ==
    ASSUME Formed, ObjectsInv, NEW f \in Files, swap.step = "ready", Live(f),
           outbox' = [outbox EXCEPT ![swap.intent].state = "done"]
                     \o <<Intent(rows[f].key, "due"), Intent(Staging, "due")>>,
           rows' = [rows EXCEPT ![f] = Row(@.state, swap.key, blobs[swap.key])],
           LeaveBehind(rows[f].key), Discard({Staging}), swap' = NoSwap,
           UNCHANGED <<issued, puts, checks, works, faults>>
    PROVE  ObjectsInv'
<1> DEFINE old == rows[f].key
           marked == Mark(swap.intent, "done")
           new == <<Intent(old, "due"), Intent(Staging, "due")>>
<1>a. /\ KeysInv /\ WorkInv /\ SwapInv /\ FaultInv /\ PutInv /\ CheckInv /\ PictureInv
      /\ CertInv /\ OrphanInv
  BY DEF ObjectsInv
<1>b. /\ swap.key \notin {Staging, Preferred} /\ swap.intent \in DOMAIN outbox
      /\ outbox[swap.intent] = Intent(swap.key, "delayed")
      /\ \A i \in DOMAIN outbox : outbox[i].key = swap.key => i = swap.intent
      /\ \A id \in Ids : rows[id].key # swap.key
      /\ \A p \in puts : p.key # swap.key
      /\ \A g \in Files : checks[g].key # swap.key
      /\ blobs[swap.key] # "none"
  BY <1>a, Spaces DEF SwapInv
<1>c. /\ f \in Ids /\ f \notin Images /\ old \in Keys /\ swap.key \in Keys /\ old # swap.key
      /\ old # Staging /\ Drawn(old) /\ Drawn(swap.key) /\ Drawn(Staging)
  BY <1>a, <1>b, Ranges, Spaces DEF KeysInv, Drawn
<1>d. /\ outbox[swap.intent].key = swap.key /\ outbox[swap.intent].state = "delayed"
      /\ Intent(old, "due").key = old /\ Intent(old, "due").state = "due"
      /\ Intent(Staging, "due").key = Staging /\ Intent(Staging, "due").state = "due"
  BY <1>b DEF Intent
<1>e. /\ marked \in Seq(IntentRec) /\ DOMAIN marked = DOMAIN outbox
      /\ \A j \in DOMAIN outbox :
           /\ marked[j].key = outbox[j].key
           /\ j # swap.intent => marked[j] = outbox[j]
      /\ marked[swap.intent].state = "done"
  BY <1>b, Marking DEF Formed, Marks
<1>f. /\ new \in Seq(IntentRec) /\ Len(new) = 2 /\ new[1] = Intent(old, "due")
      /\ new[2] = Intent(Staging, "due")
  BY <1>c, TwoMore, IntentTyped, Spaces
<1>g. /\ outbox' \in Seq(IntentRec) /\ Len(outbox') = Len(outbox) + 2 /\ Len(outbox) \in Nat
      /\ DOMAIN outbox = 1..Len(outbox) /\ DOMAIN outbox' = 1..(Len(outbox) + 2)
      /\ \A i \in 1..Len(outbox) : outbox'[i] = marked[i]
      /\ outbox'[Len(outbox) + 1] = new[1] /\ outbox'[Len(outbox) + 2] = new[2]
  <2>1. outbox' = marked \o new
    BY DEF Mark
  <2>2. outbox \in Seq(IntentRec)
    BY DEF Formed, Shapes
  <2>3. Len(marked) = Len(outbox) /\ Len(outbox) \in Nat /\ DOMAIN outbox = 1..Len(outbox)
    BY <1>e, <2>2
  <2> HIDE DEF marked, new
  <2>4. 1 \in 1..Len(new) /\ 2 \in 1..Len(new)
    BY <1>f
  <2>a. /\ marked \o new \in Seq(IntentRec) /\ Len(marked \o new) = Len(marked) + Len(new)
        /\ \A i \in 1..Len(marked) : (marked \o new)[i] = marked[i]
        /\ \A j \in 1..Len(new) : (marked \o new)[Len(marked) + j] = new[j]
    BY <1>e, <1>f, Joined, Zenon
  <2>5. /\ outbox' \in Seq(IntentRec) /\ Len(outbox') = Len(marked) + Len(new)
        /\ \A i \in 1..Len(marked) : outbox'[i] = marked[i]
        /\ \A j \in 1..Len(new) : outbox'[Len(marked) + j] = new[j]
    BY <2>1, <2>a, Zenon
  <2>6. Len(outbox') = Len(outbox) + 2 /\ DOMAIN outbox' = 1..(Len(outbox) + 2)
    BY <1>f, <2>3, <2>5
  <2> QED BY <2>3, <2>4, <2>5, <2>6
<1>h. /\ DOMAIN outbox \subseteq DOMAIN outbox'
      /\ \A i \in DOMAIN outbox : outbox'[i].key = outbox[i].key
      /\ \A i \in DOMAIN outbox : i # swap.intent => outbox'[i] = outbox[i]
      /\ outbox'[swap.intent].state = "done"
      /\ \A i \in DOMAIN outbox' \ DOMAIN outbox :
           outbox'[i].key \in {old, Staging} /\ outbox'[i].state = "due"
      /\ \E i \in DOMAIN outbox' \ DOMAIN outbox : outbox'[i].key = old
  <2> HIDE DEF marked, new
  <2>1. DOMAIN outbox' \ DOMAIN outbox = {Len(outbox) + 1, Len(outbox) + 2}
    BY <1>g
  <2>2. swap.intent \in 1..Len(outbox)
    BY <1>b, <1>g
  <2>3. \A i \in DOMAIN outbox : i \in DOMAIN outbox' /\ outbox'[i] = marked[i]
    <3>1. DOMAIN outbox \subseteq DOMAIN outbox'
      <4>1. \A n \in Nat : 1..n \subseteq 1..(n + 2)
        OBVIOUS
      <4> QED BY <1>g, <4>1, Zenon
    <3>2. \A i \in DOMAIN outbox : outbox'[i] = marked[i]
      BY <1>g, Zenon
    <3> QED BY <3>1, <3>2, Zenon
  <2>4. /\ \A i \in DOMAIN outbox : outbox'[i].key = outbox[i].key
        /\ \A i \in DOMAIN outbox : i # swap.intent => outbox'[i] = outbox[i]
        /\ outbox'[swap.intent].state = "done"
    BY <1>b, <1>e, <2>3
  <2>5. \A i \in DOMAIN outbox' \ DOMAIN outbox :
          outbox'[i].key \in {old, Staging} /\ outbox'[i].state = "due"
    BY <1>d, <1>f, <1>g, <2>1
  <2>6. outbox'[Len(outbox) + 1].key = old
    BY <1>d, <1>f, <1>g
  <2> QED BY <2>1, <2>3, <2>4, <2>5, <2>6
<1>i. /\ \A o \in Ids \ {f} : rows'[o] = rows[o]
      /\ rows'[f].state = rows[f].state /\ rows'[f].key = swap.key
      /\ rows'[f].bytes = blobs[swap.key]
  <2>1. rows[f].state \in {"pending", "confirmed"} /\ blobs[swap.key] \in Contents
    BY <1>c, Ranges DEF Live
  <2> QED BY <1>c, <2>1, Ranges, RowTyped
<1>j. /\ \A o \in Ids : Live(o)' = Live(o)
      /\ \A o \in Ids : Live(o) /\ o # f => rows[o].key # old
  BY <1>a, <1>c, <1>i DEF Live, KeysInv
<1>k. /\ \A k \in Keys \ {Staging} : blobs'[k] = blobs[k]
      /\ \A k \in Keys : blobs'[k] # "none" => blobs[k] # "none"
  BY Discarded DEF Formed
<1>l. /\ late \subseteq late'
      /\ \A p \in puts : p.key = old => p.key \in late'
  BY DEF LeaveBehind
<1>m. \A w \in Workers : works[w].step # "idle" =>
        /\ works[w].intent \in DOMAIN outbox /\ works[w].intent # swap.intent
        /\ outbox'[works[w].intent] = outbox[works[w].intent]
        /\ works[w].key # swap.key
  <2> SUFFICES ASSUME NEW w \in Workers, works[w].step # "idle"
               PROVE  /\ works[w].intent \in DOMAIN outbox /\ works[w].intent # swap.intent
                      /\ outbox'[works[w].intent] = outbox[works[w].intent]
                      /\ works[w].key # swap.key
    OBVIOUS
  <2>1. /\ works[w].intent \in DOMAIN outbox
        /\ outbox[works[w].intent].key = works[w].key
        /\ outbox[works[w].intent].state # "delayed"
    BY <1>a DEF WorkInv
  <2>2. works[w].intent # swap.intent
    BY <1>d, <2>1
  <2>3. works[w].key # swap.key
    BY <1>b, <2>1, <2>2
  <2> QED BY <1>h, <2>1, <2>2, <2>3
<1> HIDE DEF old, marked, new
<1>1. KeysInv'
  <2>1. \A o \in Ids : rows'[o].key <= issued + 1 /\ rows'[o].key # Staging
    BY <1>a, <1>b, <1>c, <1>i DEF KeysInv, Drawn
  <2>2. \A i \in DOMAIN outbox' : outbox'[i].key <= issued + 1
    BY <1>a, <1>c, <1>h DEF KeysInv, Drawn
  <2>3. swap'.key <= issued + 1
    BY Ranges, Spaces
  <2>4. \A k \in Keys : blobs'[k] # "none" => k <= issued + 1
    BY <1>a, <1>k DEF KeysInv, Drawn
  <2>5. \A x, y \in Ids : Live(x)' /\ Live(y)' /\ rows'[x].key = rows'[y].key => x = y
    BY <1>a, <1>b, <1>i, <1>j DEF KeysInv
  <2> QED BY <1>a, <2>1, <2>2, <2>3, <2>4, <2>5 DEF KeysInv, Drawn
<1>2. WorkInv'
  <2>1. ASSUME NEW o \in Ids, Live(o)', NEW i \in DOMAIN outbox', outbox'[i].key = rows'[o].key
        PROVE  outbox'[i].state = "done"
    <3>1. CASE o = f
      <4>1. i \in DOMAIN outbox /\ i = swap.intent
        BY <1>b, <1>c, <1>h, <1>i, <2>1, <3>1
      <4> QED BY <1>h, <4>1
    <3>2. CASE o # f
      <4>1. Live(o) /\ rows'[o] = rows[o] /\ rows[o].key # old /\ rows[o].key # Staging
            /\ rows[o].key # swap.key
        BY <1>a, <1>b, <1>i, <1>j, <2>1, <3>2 DEF KeysInv
      <4>2. i \in DOMAIN outbox /\ i # swap.intent /\ outbox'[i] = outbox[i]
        BY <1>d, <1>h, <2>1, <4>1
      <4> QED BY <1>a, <2>1, <4>1, <4>2 DEF WorkInv
    <3> QED BY <3>1, <3>2
  <2>2. \A w \in Workers : works[w].step # "idle" =>
         /\ works[w].intent \in DOMAIN outbox'
         /\ outbox'[works[w].intent].key = works[w].key
         /\ outbox'[works[w].intent].state # "delayed"
    <3>1. ASSUME NEW w \in Workers, works[w].step # "idle"
          PROVE  /\ outbox[works[w].intent].key = works[w].key
                 /\ outbox[works[w].intent].state # "delayed"
      BY <1>a, <3>1 DEF WorkInv
    <3>2. ASSUME NEW w \in Workers, works[w].step # "idle"
          PROVE  /\ works[w].intent \in DOMAIN outbox'
                 /\ outbox'[works[w].intent] = outbox[works[w].intent]
      BY <1>h, <1>m, <3>2
    <3> QED BY <3>1, <3>2
  <2> QED BY <2>1, <2>2 DEF WorkInv
<1>3. SwapInv'
  BY Spaces DEF SwapInv
<1>4. FaultInv'
  <2>1. (Strict => Strict') /\ (AllLocked => AllLocked')
    BY <1>m DEF Strict, AllLocked
  <2>2. ASSUME faults <= 1, NEW w \in Workers, NEW o \in Ids, works[w].step = "deleting", Live(o)'
        PROVE  rows'[o].key # works[w].key
    <3>1. CASE o = f
      BY <1>i, <1>m, <2>2, <3>1
    <3>2. CASE o # f
      BY <1>a, <1>i, <1>j, <2>2, <3>2 DEF FaultInv
    <3> QED BY <3>1, <3>2
  <2> QED BY <1>a, <2>1, <2>2 DEF FaultInv
<1>5. PutInv'
  <2> SUFFICES ASSUME NEW p \in puts, p.key # Staging, p.key \notin late'
               PROVE  \/ \E i \in DOMAIN outbox' : outbox'[i] = Intent(p.key, "delayed")
                      \/ \E o \in Ids : rows'[o].state = "pending" /\ rows'[o].key = p.key
    BY DEF PutInv
  <2>1. p.key # old /\ p.key # swap.key
    BY <1>b, <1>l
  <2>2. CASE \E i \in DOMAIN outbox : outbox[i] = Intent(p.key, "delayed")
    <3>1. PICK i \in DOMAIN outbox : outbox[i] = Intent(p.key, "delayed")
      BY <2>2
    <3>2. outbox[i].key = p.key
      BY <3>1 DEF Intent
    <3>3. i # swap.intent
      BY <1>d, <2>1, <3>2
    <3> QED BY <1>h, <3>1, <3>3
  <2>3. CASE \E o \in Ids : rows[o].state = "pending" /\ rows[o].key = p.key
    <3>1. PICK o \in Ids : rows[o].state = "pending" /\ rows[o].key = p.key
      BY <2>3
    <3>2. o # f
      BY <2>1, <3>1 DEF old
    <3> QED BY <1>i, <3>1, <3>2
  <2> QED BY <1>a, <1>l, <2>2, <2>3 DEF PutInv
<1>6. CheckInv'
  <2> SUFFICES ASSUME faults <= 1, NEW g \in Files, checks[g].found \in Bytes,
                      rows'[g].state = "pending", rows'[g].key = checks[g].key
               PROVE  /\ blobs'[rows'[g].key] # "none"
                      /\ blobs'[rows'[g].key] = checks[g].found \/ rows'[g].key \in late'
    BY DEF CheckInv
  <2>1. g # f /\ rows'[g] = rows[g]
    BY <1>b, <1>i, Spaces
  <2>2. blobs'[rows[g].key] = blobs[rows[g].key]
    BY <1>a, <1>k, Ranges, Spaces DEF KeysInv
  <2> QED BY <1>a, <1>l, <2>1, <2>2 DEF CheckInv
<1>7. PictureInv'
  <2> SUFFICES ASSUME NEW m \in Images, Live(m)'
               PROVE  /\ rows'[m].bytes = "other"
                      /\ blobs'[rows'[m].key] \in {"none", "other"}
                      /\ \A p \in puts : p.key = rows'[m].key =>
                           p.bytes = "other" /\ rows'[m].state = "pending"
    BY DEF PictureInv
  <2>1. m \in Ids /\ rows'[m] = rows[m] /\ Live(m)
    BY <1>c, <1>i, <1>j, Spaces
  <2>2. blobs'[rows[m].key] = blobs[rows[m].key]
    BY <1>a, <1>k, <2>1, Ranges DEF KeysInv
  <2> QED BY <1>a, <2>1, <2>2 DEF PictureInv
<1>8. CertInv'
  <2> SUFFICES ASSUME faults <= 1, NEW o \in Ids, rows'[o].state = "confirmed"
               PROVE  /\ blobs'[rows'[o].key] # "none"
                      /\ blobs'[rows'[o].key] = rows'[o].bytes \/ rows'[o].key \in late'
    BY DEF CertInv
  <2>1. CASE o = f
    BY <1>b, <1>c, <1>i, <1>k, <2>1
  <2>2. CASE o # f
    <3>1. rows'[o] = rows[o] /\ blobs'[rows[o].key] = blobs[rows[o].key]
      BY <1>a, <1>i, <1>k, <2>2, Ranges DEF KeysInv
    <3> QED BY <1>a, <1>l, <3>1 DEF CertInv
  <2> QED BY <2>1, <2>2
<1>9. OrphanInv'
  <2> SUFFICES ASSUME NEW k \in Keys \ {Staging}, blobs'[k] # "none", ~Owned(k)', k \notin late'
               PROVE  Pursued(k)'
    BY DEF OrphanInv
  <2>1. k # swap.key
    BY <1>c, <1>i, <1>j DEF Owned
  <2>2. CASE k = old
    <3>1. PICK i \in DOMAIN outbox' \ DOMAIN outbox : outbox'[i].key = old
      BY <1>h
    <3>2. outbox'[i].state # "done" /\ \A w \in Workers : works[w].step = "success" => works[w].intent # i
      BY <1>h, <1>m, <3>1
    <3> QED BY <2>2, <3>1, <3>2 DEF Pursued
  <2>3. CASE k # old
    <3>1. ~Owned(k)
      BY <1>i, <1>j, <2>3 DEF Owned, old
    <3>2. Pursued(k)
      BY <1>a, <1>k, <1>l, <3>1 DEF OrphanInv
    <3>3. PICK i \in DOMAIN outbox :
            /\ outbox[i].key = k /\ outbox[i].state # "done"
            /\ \A w \in Workers : works[w].step = "success" => works[w].intent # i
      BY <3>2 DEF Pursued
    <3>4. i \in DOMAIN outbox' /\ outbox'[i] = outbox[i]
      BY <1>d, <1>h, <2>1, <3>3
    <3> QED BY <3>3, <3>4 DEF Pursued
  <2> QED BY <2>2, <2>3
<1> QED BY <1>1, <1>2, <1>3, <1>4, <1>5, <1>6, <1>7, <1>8, <1>9 DEF ObjectsInv

-----------------------------------------------------------------------------
(* The worker.                                                             *)

\* What every step of a worker shows of itself: it marks intents, never one
\* that a candidate or a transfer waits for, and takes away what it deletes.
LEMMA Draining ==
    ASSUME Formed, ObjectsInv, UNCHANGED <<rows, late, issued, puts, checks, swap>>,
           DOMAIN outbox' = DOMAIN outbox,
           \A i \in DOMAIN outbox :
              /\ outbox'[i].key = outbox[i].key
              /\ outbox[i].state = "done" => outbox'[i].state = "done"
              /\ outbox[i].state = "delayed" =>
                   \/ outbox'[i] = outbox[i]
                   \/ /\ i # swap.intent \/ swap.step = "idle"
                      /\ outbox[i].key = Staging \/ \A p \in puts : p.key # outbox[i].key,
           \A w \in Workers : works'[w].step # "idle" =>
              /\ works'[w].intent \in DOMAIN outbox
              /\ outbox[works'[w].intent].key = works'[w].key
              /\ outbox'[works'[w].intent].state # "delayed",
           faults' \in {faults, faults + 1},
           faults' = 0 => Strict' /\ AllLocked',
           faults' <= 1 => Strict' \/ AllLocked',
           faults' <= 1 =>
              \A w \in Workers : works'[w].step = "deleting" => ~Owned(works'[w].key),
           blobs' \in [Keys -> Contents],
           \A k \in Keys :
              \/ blobs'[k] = blobs[k]
              \/ /\ blobs'[k] = "none" /\ (faults' <= 1 => ~Owned(k))
                 /\ \E w \in Workers : works[w].step = "deleting" /\ works[w].key = k,
           \A k \in Keys : ~Owned(k) /\ Pursued(k) /\ blobs'[k] # "none" => Pursued(k)'
    PROVE  ObjectsInv'
<1>a. /\ KeysInv /\ WorkInv /\ SwapInv /\ FaultInv /\ PutInv /\ CheckInv /\ PictureInv
      /\ CertInv /\ OrphanInv
  BY DEF ObjectsInv
<1>b. /\ \A k : Owned(k)' = Owned(k)
      /\ \A id \in Ids : Live(id)' = Live(id) /\ (Live(id) => Owned(rows[id].key))
  BY DEF Owned, Live
<1>c. faults' <= 1 => \A id \in Ids : Live(id) => blobs'[rows[id].key] = blobs[rows[id].key]
  BY <1>b, Ranges
<1>d. faults' <= 1 => faults <= 1
  BY Ranges
<1>1. KeysInv'
  <2>1. \A k \in Keys : blobs'[k] # "none" => k <= issued + 1
    BY <1>a DEF KeysInv, Drawn
  <2>2. \A i \in DOMAIN outbox' : outbox'[i].key <= issued + 1
    BY <1>a DEF KeysInv, Drawn
  <2> QED BY <1>a, <2>1, <2>2 DEF KeysInv, Drawn, Live
<1>2. WorkInv'
  BY <1>a, <1>b DEF WorkInv
<1>3. SwapInv'
  <2> SUFFICES ASSUME swap.step # "idle" PROVE SwapInv'
    BY DEF SwapInv
  <2>1. /\ swap.intent \in DOMAIN outbox /\ outbox[swap.intent] = Intent(swap.key, "delayed")
        /\ outbox[swap.intent].key = swap.key /\ outbox[swap.intent].state = "delayed"
        /\ \A i \in DOMAIN outbox : outbox[i].key = swap.key => i = swap.intent
        /\ swap.key # Staging
    BY <1>a DEF SwapInv, Intent
  <2>2. outbox'[swap.intent] = outbox[swap.intent]
    BY <2>1
  <2>3. \A w \in Workers : works[w].step = "deleting" => works[w].key # swap.key
    BY <1>a, <2>1 DEF WorkInv
  <2>4. blobs'[swap.key] = blobs[swap.key]
    BY <2>3, Ranges
  <2> QED BY <1>a, <2>1, <2>2, <2>4 DEF SwapInv
<1>4. FaultInv'
  BY <1>b DEF FaultInv
<1>5. PutInv'
  <2> SUFFICES ASSUME NEW p \in puts, p.key # Staging, p.key \notin late,
                      NEW i \in DOMAIN outbox, outbox[i] = Intent(p.key, "delayed")
               PROVE  outbox'[i] = outbox[i]
    BY <1>a DEF PutInv
  <2>1. outbox[i].key = p.key /\ outbox[i].state = "delayed"
    BY DEF Intent
  <2> QED BY <2>1
<1>6. CheckInv'
  BY <1>a, <1>c, <1>d, Spaces DEF CheckInv, Live
<1>7. PictureInv'
  <2>1. \A m \in Images : Live(m) => blobs'[rows[m].key] \in {"none", "other"}
    BY <1>a, Ranges, Spaces DEF PictureInv
  <2> QED BY <1>a, <2>1 DEF PictureInv, Live
<1>8. CertInv'
  BY <1>a, <1>c, <1>d DEF CertInv, Live
<1>9. OrphanInv'
  <2>1. \A k \in Keys : blobs'[k] # "none" => blobs[k] # "none"
    OBVIOUS
  <2> QED BY <1>a, <1>b, <2>1 DEF OrphanInv
<1> QED BY <1>1, <1>2, <1>3, <1>4, <1>5, <1>6, <1>7, <1>8, <1>9 DEF ObjectsInv

\* The parts of the invariant, as the steps of a worker use them.
LEMMA Worker ==
    ASSUME Formed, ObjectsInv
    PROVE  /\ \A w \in Workers : works[w].step # "idle" =>
                /\ works[w].intent \in DOMAIN outbox
                /\ outbox[works[w].intent].key = works[w].key
                /\ outbox[works[w].intent].state # "delayed"
           /\ \A k : Owned(k) => \A i \in DOMAIN outbox : outbox[i].key = k => outbox[i].state = "done"
           /\ faults = 0 => Strict /\ AllLocked
           /\ faults <= 1 => Strict \/ AllLocked
           /\ faults <= 1 => \A w \in Workers : works[w].step = "deleting" => ~Owned(works[w].key)
           /\ \A w \in Workers : works[w].step = "idle" => works[w] = Idle
           /\ \A w \in Workers : works[w].lock => works[w].step = "deleting"
           /\ blobs \in [Keys -> Contents]
BY DEF Formed, Shapes, Resting, ObjectsInv, WorkInv, FaultInv, Owned

LEMMA Claiming ==
    ASSUME Formed, ObjectsInv, NEW w \in Workers, NEW i \in DOMAIN outbox, Claim(w, i)
    PROVE  ObjectsInv'
<1> DEFINE r == [step |-> "claimed", key |-> outbox[i].key, intent |-> i, lock |-> FALSE]
<1>a. /\ works[w].step = "idle" /\ Ready(i)
      /\ outbox' = [outbox EXCEPT ![i].state = "leased"]
      /\ UNCHANGED <<rows, blobs, late, issued, puts, checks, swap, faults>>
  BY Spaces DEF Claim, store, replacing
<1>b. /\ works'[w] = r /\ \A v \in Workers \ {w} : works'[v] = works[v]
  <2>1. works' = [works EXCEPT ![w] = r]
    BY DEF Claim
  <2> QED BY <2>1, Ranges
<1>c. /\ outbox' \in Seq(IntentRec) /\ DOMAIN outbox' = DOMAIN outbox
      /\ \A j \in DOMAIN outbox :
           outbox'[j].key = outbox[j].key /\ (j # i => outbox'[j] = outbox[j])
      /\ outbox'[i].state = "leased"
  <2>1. outbox' = Mark(i, "leased")
    BY <1>a DEF Mark
  <2> QED BY <2>1, Marking DEF Formed, Marks
<1>d. outbox[i].state \in {"due", "delayed"}
      /\ (outbox[i].state = "delayed" /\ outbox[i].key # Staging =>
            i # swap.intent /\ \A p \in puts : p.key # outbox[i].key)
  BY <1>a DEF Ready
<1>e. outbox[i].state = "delayed" => i # swap.intent \/ swap.step = "idle"
  <2>1. swap.step # "idle" => outbox[swap.intent].key # Staging
    BY DEF ObjectsInv, SwapInv, Intent
  <2> QED BY <1>d, <2>1
<1>1. \A v \in Workers : works'[v].step # "idle" =>
        /\ works'[v].intent \in DOMAIN outbox
        /\ outbox[works'[v].intent].key = works'[v].key
        /\ outbox'[works'[v].intent].state # "delayed"
  BY <1>b, <1>c, Worker
<1>2. Strict => Strict'
  BY <1>b, <1>c, <1>d, Worker DEF Strict
<1>3. AllLocked => AllLocked'
  BY <1>b DEF AllLocked
<1>4. faults <= 1 => \A v \in Workers : works'[v].step = "deleting" => ~Owned(works'[v].key)
  BY <1>b, Worker
<1>5. \A k : Pursued(k) => Pursued(k)'
  BY <1>b, <1>c DEF Pursued
<1> QED BY <1>a, <1>c, <1>d, <1>e, <1>1, <1>2, <1>3, <1>4, <1>5, Worker, Draining

LEMMA Probing ==
    ASSUME Formed, ObjectsInv, NEW w \in Workers, Probe(w)
    PROVE  ObjectsInv'
<1>a. /\ works[w].step = "claimed"
      /\ UNCHANGED <<rows, outbox, blobs, late, issued, puts, checks, swap, faults>>
  BY DEF Probe, database, store, replacing
<1>b. /\ works'[w].key = works[w].key /\ works'[w].intent = works[w].intent
      /\ works'[w].step \in {"release", "success", "deleting"}
      /\ works'[w].step = "deleting" => works'[w].lock /\ ~Owned(works[w].key)
      /\ works'[w].step = "success" => Owned(works[w].key)
      /\ \A v \in Workers \ {w} : works'[v] = works[v]
  <2>1. works[w] \in WorkRec
    BY Ranges
  <2> QED BY <2>1, Ranges DEF Probe, WorkRec
<1>1. \A v \in Workers : works'[v].step # "idle" =>
        /\ works'[v].intent \in DOMAIN outbox
        /\ outbox[works'[v].intent].key = works'[v].key
        /\ outbox[works'[v].intent].state # "delayed"
  BY <1>a, <1>b, Worker
<1>2. Strict => Strict'
  BY <1>a, <1>b DEF Strict
<1>3. AllLocked => AllLocked'
  BY <1>b DEF AllLocked
<1>4. faults <= 1 => \A v \in Workers : works'[v].step = "deleting" => ~Owned(works'[v].key)
  BY <1>b, Worker
<1>5. \A k : ~Owned(k) /\ Pursued(k) => Pursued(k)'
  <2> SUFFICES ASSUME NEW k, ~Owned(k), NEW i \in DOMAIN outbox,
                      outbox[i].key = k /\ outbox[i].state # "done",
                      \A v \in Workers : works[v].step = "success" => works[v].intent # i,
                      NEW v \in Workers, works'[v].step = "success", works'[v].intent = i
               PROVE  FALSE
    BY <1>a DEF Pursued
  <2>1. v = w
    BY <1>b
  <2>2. outbox[i].key = works[w].key
    BY <1>a, <1>b, <2>1, Worker
  <2> QED BY <1>b, <2>1, <2>2
<1>6. \A i \in DOMAIN outbox : outbox'[i] = outbox[i]
  BY <1>a
<1> QED BY <1>a, <1>1, <1>2, <1>3, <1>4, <1>5, <1>6, Worker, Draining

LEMMA Deleting ==
    ASSUME Formed, ObjectsInv, NEW w \in Workers, RemoteDelete(w)
    PROVE  ObjectsInv'
<1>a. /\ works[w].step = "deleting" /\ works[w].key \in Keys
      /\ UNCHANGED <<rows, outbox, late, issued, puts, checks, swap>>
  BY Ranges DEF RemoteDelete, database, replacing
<1>b. PICK s \in {"success", "failure"} :
        /\ works' = [works EXCEPT ![w].step = s, ![w].lock = FALSE]
        /\ s = "success" => blobs' = [blobs EXCEPT ![works[w].key] = "none"] /\ faults' = faults
        /\ s = "failure" => blobs' = blobs /\ faults' = faults + 1
  BY DEF RemoteDelete, Fault
<1>c. /\ works'[w].key = works[w].key /\ works'[w].intent = works[w].intent
      /\ works'[w].step = s
      /\ \A v \in Workers \ {w} : works'[v] = works[v]
  <2>1. works[w] \in WorkRec
    BY Ranges
  <2> QED BY <1>b, <2>1, Ranges DEF WorkRec
<1>d. /\ faults \in Nat /\ faults' \in {faults, faults + 1}
      /\ (faults' = 0 => faults = 0) /\ (faults' <= 1 => faults <= 1)
  BY <1>b, Ranges
<1>e. /\ blobs' \in [Keys -> Contents]
      /\ \A k \in Keys : blobs'[k] = blobs[k] \/ (k = works[w].key /\ blobs'[k] = "none" /\ s = "success")
      /\ s = "success" => blobs'[works[w].key] = "none"
  BY <1>a, <1>b, Ranges, Spaces
<1>1. \A v \in Workers : works'[v].step # "idle" =>
        /\ works'[v].intent \in DOMAIN outbox
        /\ outbox[works'[v].intent].key = works'[v].key
        /\ outbox[works'[v].intent].state # "delayed"
  BY <1>a, <1>c, Worker
<1>2. Strict => Strict'
  BY <1>a, <1>c DEF Strict
<1>3. AllLocked => AllLocked'
  BY <1>c DEF AllLocked
<1>4. faults <= 1 => \A v \in Workers : works'[v].step = "deleting" => ~Owned(works'[v].key)
  BY <1>c, Worker
<1>5. faults <= 1 => ~Owned(works[w].key)
  BY <1>a, Worker
<1>6. \A k \in Keys : ~Owned(k) /\ Pursued(k) /\ blobs'[k] # "none" => Pursued(k)'
  <2> SUFFICES ASSUME NEW k \in Keys, blobs'[k] # "none", NEW i \in DOMAIN outbox,
                      outbox[i].key = k /\ outbox[i].state # "done",
                      \A v \in Workers : works[v].step = "success" => works[v].intent # i,
                      NEW v \in Workers, works'[v].step = "success", works'[v].intent = i
               PROVE  FALSE
    BY <1>a DEF Pursued
  <2>1. v = w /\ s = "success"
    BY <1>c
  <2>2. outbox[i].key = works[w].key
    BY <1>a, <1>c, <2>1, Worker
  <2> QED BY <1>e, <2>1, <2>2
<1>7. \A i \in DOMAIN outbox : outbox'[i] = outbox[i]
  BY <1>a
<1>8. (faults' = 0 => Strict' /\ AllLocked') /\ (faults' <= 1 => Strict' \/ AllLocked')
  BY <1>2, <1>3, <1>d, Worker
<1> QED BY <1>a, <1>d, <1>e, <1>1, <1>4, <1>5, <1>6, <1>7, <1>8, Worker, Draining

LEMMA Recording ==
    ASSUME Formed, ObjectsInv, NEW w \in Workers, Record(w)
    PROVE  ObjectsInv'
<1> DEFINE i == works[w].intent
<1>a. /\ works[w].step \in {"success", "release", "failure"}
      /\ UNCHANGED <<rows, blobs, late, issued, puts, checks, swap, faults>>
  BY DEF Record, store, replacing
<1>b. PICK s \in Marked(outbox[i].state, works[w].step) : outbox' = [outbox EXCEPT ![i].state = s]
  BY DEF Record
<1>c. /\ s \in {"done", "due", "abandoned"}
      /\ outbox[i].state = "done" => s = "done"
      /\ s = "done" => outbox[i].state = "done" \/ works[w].step = "success"
  BY <1>a, <1>b DEF Marked
<1>d. i \in DOMAIN outbox /\ outbox[i].state # "delayed"
  BY <1>a, Worker
<1>e. /\ DOMAIN outbox' = DOMAIN outbox
      /\ \A j \in DOMAIN outbox :
           outbox'[j].key = outbox[j].key /\ (j # i => outbox'[j] = outbox[j])
      /\ outbox'[i].state = s
  <2>1. s \in Marks /\ outbox' = Mark(i, s)
    BY <1>b, <1>c DEF Marks, Mark
  <2> QED BY <1>d, <2>1, Marking DEF Formed
<1>f. works'[w] = Idle /\ \A v \in Workers \ {w} : works'[v] = works[v]
  BY Ranges DEF Record
<1>1. \A v \in Workers : works'[v].step # "idle" =>
        /\ works'[v].intent \in DOMAIN outbox
        /\ outbox[works'[v].intent].key = works'[v].key
        /\ outbox'[works'[v].intent].state # "delayed"
  BY <1>c, <1>e, <1>f, Spaces, Worker
<1>2. Strict => Strict'
  <2> SUFFICES ASSUME Strict, NEW v \in Workers, works'[v].step # "idle"
               PROVE  /\ outbox'[works'[v].intent].state = "leased"
                      /\ \A u \in Workers :
                           works'[u].step # "idle" /\ works'[u].intent = works'[v].intent => u = v
    BY DEF Strict
  <2>1. v # w /\ works'[v] = works[v] /\ works'[w].step = "idle" /\ works[w].step # "idle"
    BY <1>a, <1>f, Spaces
  <2>2. /\ works[v].intent \in DOMAIN outbox /\ works[v].intent # i
        /\ outbox[works[v].intent].state = "leased"
    BY <2>1, Worker DEF Strict
  <2> QED BY <1>e, <1>f, <2>1, <2>2 DEF Strict
<1>3. AllLocked => AllLocked'
  BY <1>f, Spaces DEF AllLocked
<1>4. faults <= 1 => \A v \in Workers : works'[v].step = "deleting" => ~Owned(works'[v].key)
  BY <1>f, Spaces, Worker
<1>5. \A k : Pursued(k) => Pursued(k)'
  <2> SUFFICES ASSUME NEW k, NEW j \in DOMAIN outbox,
                      outbox[j].key = k /\ outbox[j].state # "done",
                      \A v \in Workers : works[v].step = "success" => works[v].intent # j
               PROVE  Pursued(k)'
    BY DEF Pursued
  <2>1. outbox'[j].state # "done"
    BY <1>c, <1>e
  <2>2. \A v \in Workers : works'[v].step = "success" => works'[v].intent # j
    BY <1>f, Spaces
  <2> QED BY <1>e, <2>1, <2>2 DEF Pursued
<1>6. \A j \in DOMAIN outbox :
         /\ outbox'[j].key = outbox[j].key
         /\ outbox[j].state = "done" => outbox'[j].state = "done"
         /\ outbox[j].state = "delayed" => outbox'[j] = outbox[j]
  BY <1>c, <1>d, <1>e
<1> QED BY <1>a, <1>e, <1>1, <1>2, <1>3, <1>4, <1>5, <1>6, Worker, Draining

LEMMA Exiting ==
    ASSUME Formed, ObjectsInv, NEW w \in Workers, Crash(w)
    PROVE  ObjectsInv'
<1>a. /\ UNCHANGED <<rows, outbox, late, issued, puts, checks, swap>>
      /\ faults' = faults + 1
      /\ works'[w] = Idle /\ \A v \in Workers \ {w} : works'[v] = works[v]
  BY Ranges DEF Crash, Fault, database, replacing
<1>b. /\ blobs' \in [Keys -> Contents]
      /\ \A k \in Keys : blobs'[k] = blobs[k] \/
           (blobs'[k] = "none" /\ works[w].step = "deleting" /\ works[w].key = k)
  BY Discarded DEF Crash, Formed
<1>c. faults' # 0 /\ (faults' <= 1 => faults = 0)
  BY <1>a, Ranges
<1>1. \A v \in Workers : works'[v].step # "idle" =>
        /\ works'[v].intent \in DOMAIN outbox
        /\ outbox[works'[v].intent].key = works'[v].key
        /\ outbox[works'[v].intent].state # "delayed"
  BY <1>a, Spaces, Worker
<1>2. Strict => Strict'
  BY <1>a, Spaces DEF Strict
<1>4. faults <= 1 => \A v \in Workers : works'[v].step = "deleting" => ~Owned(works'[v].key)
  BY <1>a, Spaces, Worker
<1>5. \A k : Pursued(k) => Pursued(k)'
  BY <1>a, Spaces DEF Pursued
<1>6. \A i \in DOMAIN outbox : outbox'[i] = outbox[i]
  BY <1>a
<1>7. faults <= 1 => \A k \in Keys : works[w].step = "deleting" /\ works[w].key = k => ~Owned(k)
  BY Worker
<1> QED BY <1>a, <1>b, <1>c, <1>1, <1>2, <1>4, <1>5, <1>6, <1>7, Worker, Draining

LEMMA Unlocking ==
    ASSUME Formed, ObjectsInv, NEW w \in Workers, LoseLock(w)
    PROVE  ObjectsInv'
<1>a. /\ UNCHANGED <<rows, outbox, blobs, late, issued, puts, checks, swap>>
      /\ faults' = faults + 1
  BY DEF LoseLock, Fault, database, store, replacing
<1>b. /\ works'[w].key = works[w].key /\ works'[w].intent = works[w].intent
      /\ works'[w].step = works[w].step
      /\ \A v \in Workers \ {w} : works'[v] = works[v]
  <2>1. works[w] \in WorkRec
    BY Ranges
  <2> QED BY <2>1, Ranges DEF LoseLock, WorkRec
<1>c. faults' # 0 /\ (faults' <= 1 => faults = 0)
  BY <1>a, Ranges
<1>1. \A v \in Workers : works'[v].step # "idle" =>
        /\ works'[v].intent \in DOMAIN outbox
        /\ outbox[works'[v].intent].key = works'[v].key
        /\ outbox[works'[v].intent].state # "delayed"
  BY <1>b, Worker
<1>2. Strict => Strict'
  BY <1>a, <1>b DEF Strict
<1>4. faults <= 1 => \A v \in Workers : works'[v].step = "deleting" => ~Owned(works'[v].key)
  BY <1>b, Worker
<1>5. \A k : Pursued(k) => Pursued(k)'
  BY <1>a, <1>b DEF Pursued
<1>6. \A i \in DOMAIN outbox : outbox'[i] = outbox[i]
  BY <1>a
<1> QED BY <1>a, <1>c, <1>1, <1>2, <1>4, <1>5, <1>6, Worker, Draining

LEMMA Expiring ==
    ASSUME Formed, ObjectsInv, NEW i \in DOMAIN outbox, LeaseExpires(i)
    PROVE  ObjectsInv'
<1> DEFINE holders == {w \in Workers : works[w].intent = i}
<1>a. /\ outbox[i].state = "leased" /\ outbox' = [outbox EXCEPT ![i].state = "due"]
      /\ IF holders = {} THEN faults' = faults ELSE faults' = faults + 1
      /\ UNCHANGED <<rows, blobs, late, issued, puts, checks, swap, works>>
  BY DEF LeaseExpires, Fault, store, replacing
<1>b. /\ DOMAIN outbox' = DOMAIN outbox
      /\ \A j \in DOMAIN outbox :
           outbox'[j].key = outbox[j].key /\ (j # i => outbox'[j] = outbox[j])
      /\ outbox'[i].state = "due"
  <2>1. outbox' = Mark(i, "due")
    BY <1>a DEF Mark
  <2> QED BY <2>1, Marking DEF Formed, Marks
<1>c. /\ faults' \in {faults, faults + 1} /\ (faults' = 0 => faults = 0)
      /\ faults' <= 1 => faults <= 1
      /\ faults' # faults => (faults' # 0 /\ (faults' <= 1 => faults = 0))
  <2>1. faults \in Nat /\ faults' \in {faults, faults + 1}
    BY <1>a, Ranges
  <2> QED BY <2>1
<1>1. \A v \in Workers : works'[v].step # "idle" =>
        /\ works'[v].intent \in DOMAIN outbox
        /\ outbox[works'[v].intent].key = works'[v].key
        /\ outbox'[works'[v].intent].state # "delayed"
  BY <1>a, <1>b, Worker
<1>2. faults' = faults /\ Strict => Strict'
  <2>1. faults' = faults => \A w \in Workers : works[w].intent # i
    BY <1>a, Ranges
  <2> QED BY <1>a, <1>b, <2>1, Worker DEF Strict
<1>3. AllLocked => AllLocked'
  BY <1>a DEF AllLocked
<1>4. faults <= 1 => \A v \in Workers : works'[v].step = "deleting" => ~Owned(works'[v].key)
  BY <1>a, Worker
<1>5. \A k : Pursued(k) => Pursued(k)'
  BY <1>a, <1>b DEF Pursued
<1>6. \A j \in DOMAIN outbox :
         /\ outbox'[j].key = outbox[j].key
         /\ outbox[j].state = "done" => outbox'[j].state = "done"
         /\ outbox[j].state = "delayed" => outbox'[j] = outbox[j]
  BY <1>a, <1>b
<1>7. (faults' = 0 => Strict' /\ AllLocked') /\ (faults' <= 1 => Strict' \/ AllLocked')
  BY <1>2, <1>3, <1>c, Worker
<1> QED BY <1>a, <1>b, <1>c, <1>1, <1>4, <1>5, <1>6, <1>7, Worker, Draining

-----------------------------------------------------------------------------
(* Every step.                                                             *)
LEMMA ObjectsFile ==
    ASSUME Formed, ObjectsInv, NEW f \in Files, File(f)
    PROVE  ObjectsInv'
<1>a. /\ KeysInv /\ WorkInv /\ SwapInv /\ FaultInv /\ PutInv /\ CheckInv /\ PictureInv
      /\ CertInv /\ OrphanInv
  BY DEF ObjectsInv
<1>b. f \in Ids /\ f \notin Images /\ rows[f].key \in Keys /\ checks[f].key \in Keys
  BY Ranges, Spaces
<1>1. ASSUME NEW declared \in BOOLEAN, Initiate(f, declared) PROVE ObjectsInv'
  <2>a. /\ rows[f].state = "absent" /\ "none" \in Contents
        /\ UNCHANGED <<outbox, blobs, late, checks, swap, works, faults, puts>>
    BY <1>1, Spaces DEF Initiate, store, replacing
  <2>1. CASE declared /\ Available(Preferred)
    <3>a. /\ ~Owned(Preferred) /\ issued' = issued /\ ~Locked(Preferred) /\ ~Unprocessed(Preferred)
          /\ rows' = [rows EXCEPT ![f] = Row("pending", Preferred, "none")]
      BY <1>1, <2>1 DEF Initiate, Available
    <3>1. \A i \in DOMAIN outbox : outbox[i].key = Preferred => outbox[i].state = "done"
      BY <3>a DEF Unprocessed
    <3>2. ASSUME faults <= 1, NEW w \in Workers, works[w].step = "deleting"
          PROVE  works[w].key # Preferred
      <4>1. CASE Strict
        BY <3>1, <3>2, <4>1, Worker DEF Strict
      <4>2. CASE AllLocked
        BY <3>a, <3>2, <4>2 DEF AllLocked, Locked
      <4> QED BY <3>2, <4>1, <4>2, Worker
    <3>3. Preferred <= issued' + 1 /\ issued <= issued' /\ issued' \in Nat
      BY <3>a, Ranges, Spaces
    <3>4. swap.step # "idle" => Preferred # swap.key
      BY <1>a DEF SwapInv
    <3>5. Preferred \in Keys \ {Staging}
      BY Spaces
    <3> QED BY <1>b, <2>a, <3>a, <3>1, <3>2, <3>3, <3>4, <3>5, Naming
  <2>2. CASE ~(declared /\ Available(Preferred))
    <3>a. Draw /\ rows' = [rows EXCEPT ![f] = Row("pending", Random, "none")]
      BY <1>1, <2>2 DEF Initiate
    <3>1. issued <= issued' /\ Random <= issued' + 1 /\ issued' \in Nat /\ Random \in Keys \ {Staging}
      BY <3>a, Fresh, Ranges
    <3> QED BY <1>b, <2>a, <3>a, <3>1, Fresh, Naming
  <2> QED BY <2>1, <2>2
<1>2. ASSUME StartConfirm(f) PROVE ObjectsInv'
  <2>1. checks'[f].key = rows[f].key /\ checks'[f].found \notin Bytes
        /\ \A g \in Files \ {f} : checks'[g] = checks[g]
    BY <1>2, Ranges, Spaces DEF StartConfirm
  <2> QED BY <1>2, <2>1, Checking DEF StartConfirm, database, store, replacing
<1>3. ASSUME Inspect(f) PROVE ObjectsInv'
  <2>0. checks[f] \in CheckRec
    BY Ranges
  <2>1. checks'[f].key = checks[f].key /\ checks'[f].found = blobs[checks[f].key]
        /\ \A g \in Files \ {f} : checks'[g] = checks[g]
    BY <1>3, <2>0, Ranges DEF Inspect, CheckRec
  <2> QED BY <1>3, <2>1, Checking DEF Inspect, database, store, replacing
<1>4. ASSUME NEW mismatch \in BOOLEAN, FinishConfirm(f, mismatch) PROVE ObjectsInv'
  <2>a. /\ checks[f].found \in Contents
        /\ \A g \in Files : checks'[g] \in {checks[g], NoCheck}
        /\ UNCHANGED <<blobs, issued, puts, swap, works, faults>>
    BY <1>4, Ranges DEF FinishConfirm, replacing
  <2>1. CASE UNCHANGED <<database, late>>
    BY <2>a, <2>1, Checking DEF database
  <2>2. CASE /\ rows[f].state = "pending" /\ rows[f].key = checks[f].key
             /\ Disown(f, PendingDelete(rows[f].key)) /\ UNCHANGED late
    <3>1. Live(f) /\ PendingDelete(rows[f].key) # <<>>
      BY <1>b, <2>2, PendingDeletes DEF Live
    <3> QED BY <1>b, <2>a, <2>2, <3>1, PendingDeletes, Disowning
  <2>3. CASE /\ rows[f].state = "pending" /\ rows[f].key = checks[f].key
             /\ ~Refused(checks[f], mismatch)
             /\ rows' = [rows EXCEPT ![f] = Row("confirmed", checks[f].key, checks[f].found)]
             /\ LeaveBehind(checks[f].key) /\ UNCHANGED outbox
    <3> DEFINE r == Row("confirmed", checks[f].key, checks[f].found)
    <3>1. /\ r \in RowRec /\ r.state = "confirmed" /\ r.key = rows[f].key
          /\ r.bytes = checks[f].found
      BY <1>b, <2>a, <2>3, RowTyped
    <3>2. checks[f].found \in Bytes
      BY <2>a, <2>3, Spaces DEF Refused
    <3>3. late \subseteq late' /\ \A p \in puts : p.key = rows[f].key => p.key \in late'
      BY <2>3 DEF LeaveBehind
    <3>4. faults <= 1 => /\ blobs[rows[f].key] # "none"
                         /\ blobs[rows[f].key] = checks[f].found \/ rows[f].key \in late'
      BY <1>a, <2>3, <3>2, <3>3 DEF CheckInv
    <3>5. rows' = [rows EXCEPT ![f] = r] /\ UNCHANGED outbox /\ rows[f].state = "pending"
      BY <2>3
    <3> HIDE DEF r
    <3> QED BY <1>b, <2>a, <3>1, <3>3, <3>4, <3>5, Confirming
  <2> QED BY <1>4, <2>1, <2>2, <2>3 DEF FinishConfirm
<1>5. ASSUME Withdraw(f) PROVE ObjectsInv'
  <2>1. Live(f) /\ PendingDelete(rows[f].key) # <<>>
    BY <1>5, <1>b, PendingDeletes DEF Withdraw, Live
  <2>2. /\ Disown(f, PendingDelete(rows[f].key))
        /\ UNCHANGED <<blobs, late, issued, puts, checks, swap, works, faults>>
    BY <1>5 DEF Withdraw, store, replacing
  <2> QED BY <1>b, <2>1, <2>2, PendingDeletes, Disowning
<1>6. ASSUME Delete(f) PROVE ObjectsInv'
  <2> DEFINE new == <<Intent(rows[f].key, "due")>>
  <2>1. /\ new \in Seq(IntentRec) /\ new # <<>>
        /\ \A j \in DOMAIN new : new[j].key = rows[f].key /\ new[j].state # "done"
    BY <1>b, OneMore, IntentTyped
  <2>2. /\ Live(f) /\ Disown(f, new)
        /\ UNCHANGED <<blobs, issued, puts, checks, swap, works, faults>>
        /\ late \subseteq late' /\ \A p \in puts : p.key = rows[f].key => p.key \in late'
    BY <1>6 DEF Delete, LeaveBehind, replacing
  <2> HIDE DEF new
  <2> QED BY <1>b, <2>1, <2>2, Disowning
<1>7. ASSUME InitiateReplace(f) PROVE ObjectsInv'
  <2> DEFINE new == <<Intent(Staging, "delayed")>>
  <2>1. new \in Seq(IntentRec) /\ \A j \in DOMAIN new : new[j].key = Staging
    BY OneMore, IntentTyped, Spaces
  <2>2. Drawn(Staging) /\ ~Owned(Staging) /\ (swap.step # "idle" => Staging # swap.key)
    BY <1>a, Ranges, Spaces DEF KeysInv, SwapInv, Owned, Drawn
  <2>3. /\ outbox' = outbox \o new
        /\ UNCHANGED <<rows, blobs, late, issued, puts, checks, swap, works, faults>>
    BY <1>7 DEF InitiateReplace, Enqueue, store
  <2>4. blobs' \in [Keys -> Contents]
    BY <2>3, Ranges
  <2> HIDE DEF new
  <2> QED BY <2>1, <2>2, <2>3, <2>4, Tidying
<1> QED BY <1>1, <1>2, <1>3, <1>4, <1>5, <1>6, <1>7 DEF File

LEMMA ObjectsSwap ==
    ASSUME Formed, ObjectsInv, Swap \/ ExpireOffer \/ RefuseSwap \/ AbandonSwap
    PROVE  ObjectsInv'
<1>a. /\ KeysInv /\ SwapInv /\ outbox \in Seq(IntentRec) /\ blobs \in [Keys -> Contents]
      /\ offer.file \in Files /\ Drawn(swap.key)
  BY DEF ObjectsInv, KeysInv, Formed, Shapes
<1>b. Drawn(Staging) /\ ~Owned(Staging) /\ NoSwap.step = "idle"
  BY <1>a, Ranges, Spaces DEF KeysInv, Owned, Drawn
<1>c. swap.step # "idle" => Staging # swap.key /\ ~Owned(swap.key)
  BY <1>a DEF SwapInv, Owned
<1>d. ASSUME NEW ks, ks \subseteq {Staging, swap.key}, Discard(ks), swap' \in {swap, NoSwap},
             swap' = NoSwap \/ ks \subseteq {Staging}, swap.step # "idle" \/ ks \subseteq {Staging},
             UNCHANGED <<rows, outbox, late, issued, puts, checks, works, faults>>
      PROVE  ObjectsInv'
  <2>1. outbox' = outbox \o <<>> /\ <<>> \in Seq(IntentRec) /\ DOMAIN <<>> = {}
    BY <1>a, <1>d
  <2>2. /\ blobs' \in [Keys -> Contents]
        /\ \A k \in Keys :
             \/ blobs'[k] = blobs[k]
             \/ blobs'[k] = "none" /\ ~Owned(k) /\ (swap'.step # "idle" => k # swap.key)
    BY <1>b, <1>c, <1>d, Discarded DEF Formed
  <2> QED BY <1>d, <2>1, <2>2, Tidying
<1>1. ASSUME NEW pin, StartSwap(pin) PROVE ObjectsInv'
  BY <1>1, Starting
<1>2. ASSUME Copy PROVE ObjectsInv'
  <2>1. CASE Discard({Staging, swap.key}) /\ swap' = NoSwap
    <3>1. swap.step # "idle" /\ UNCHANGED <<rows, outbox, late, issued, puts, checks, works, faults>>
      BY <1>2 DEF Copy, database
    <3> QED BY <1>d, <2>1, <3>1
  <2>2. CASE /\ blobs[Staging] # "none" /\ blobs' = [blobs EXCEPT ![swap.key] = blobs[Staging]]
             /\ swap' = [swap EXCEPT !.step = "ready"]
    BY <1>2, <2>2, Copying DEF Copy, database
  <2> QED BY <1>2, <2>1, <2>2 DEF Copy
<1>3. ASSUME Publish PROVE ObjectsInv'
  <2>1. /\ swap.step = "ready" /\ Live(offer.file) /\ Discard({Staging}) /\ swap' = NoSwap
        /\ UNCHANGED <<issued, puts, checks, works, faults>>
    BY <1>3 DEF Publish, Pinned
  <2>2. CASE /\ Enqueue(<<Intent(Staging, "due"), Intent(swap.key, "due")>>)
             /\ UNCHANGED <<rows, late>>
    <3> DEFINE new == <<Intent(Staging, "due"), Intent(swap.key, "due")>>
    <3>1. /\ new \in Seq(IntentRec) /\ \A j \in DOMAIN new : new[j].key \in {Staging, swap.key}
      <4>1. /\ Intent(Staging, "due") \in IntentRec /\ Intent(Staging, "due").key = Staging
            /\ Intent(swap.key, "due") \in IntentRec /\ Intent(swap.key, "due").key = swap.key
        BY IntentTyped, Spaces, Ranges
      <4> QED BY <4>1, TwoMore
    <3>2. /\ blobs' \in [Keys -> Contents]
          /\ \A k \in Keys : blobs'[k] = blobs[k] \/ (blobs'[k] = "none" /\ k = Staging)
      BY <2>1, Discarded DEF Formed
    <3>3. outbox' = outbox \o new
      BY <2>2 DEF Enqueue
    <3>4. swap'.step = "idle" /\ ~Owned(swap.key)
      BY <1>b, <1>c, <2>1
    <3> HIDE DEF new
    <3> QED BY <1>a, <1>b, <2>1, <2>2, <3>1, <3>2, <3>3, <3>4, Tidying
  <2>3. CASE /\ outbox' = [outbox EXCEPT ![swap.intent].state = "done"]
                          \o <<Intent(rows[offer.file].key, "due"), Intent(Staging, "due")>>
             /\ rows' = [rows EXCEPT ![offer.file] = Row(@.state, swap.key, blobs[swap.key])]
             /\ LeaveBehind(rows[offer.file].key)
    BY <1>a, <2>1, <2>3, Publishing
  <2> QED BY <1>3, <2>2, <2>3 DEF Publish
<1>4. ASSUME RollBack PROVE ObjectsInv'
  <2>1. /\ swap.step # "idle" /\ swap' = NoSwap
        /\ Discard(IF Pinned(swap.pin) THEN {Staging} ELSE {Staging, swap.key})
        /\ UNCHANGED <<rows, outbox, late, issued, puts, checks, works, faults>>
    BY <1>4 DEF RollBack, database
  <2> QED BY <1>d, <2>1
<1>5. ASSUME ExpireOffer PROVE ObjectsInv'
  BY <1>5, ObjectsStay DEF ExpireOffer, database, store
<1>6. ASSUME RefuseSwap PROVE ObjectsInv'
  BY <1>6, <1>d DEF RefuseSwap, database, replacing
<1>7. ASSUME AbandonSwap PROVE ObjectsInv'
  <2>1. Discard({})
    <3>1. blobs' = [k \in Keys |-> IF k \in {} THEN "none" ELSE blobs[k]]
      BY <1>7, <1>a DEF AbandonSwap, store
    <3>2. {} \in SUBSET {}
      OBVIOUS
    <3> QED BY <3>1, <3>2, Zenon DEF Discard
  <2> QED BY <1>7, <1>d, <2>1 DEF AbandonSwap, database, store
<1> QED BY <1>1, <1>2, <1>3, <1>4, <1>5, <1>6, <1>7 DEF Swap

LEMMA ObjectsImage ==
    ASSUME Formed, ObjectsInv, NEW m \in Images, Image(m)
    PROVE  ObjectsInv'
<1>a. KeysInv /\ PictureInv
  BY DEF ObjectsInv
<1>b. m \in Ids /\ m \notin Files /\ rows[m] \in RowRec /\ rows[m].key \in Keys
  BY Ranges, Spaces
<1>c. ASSUME Live(m), UNCHANGED <<blobs, puts, works, swap, issued, faults, checks, late>>,
             Disown(m, PendingDelete(rows[m].key))
      PROVE  ObjectsInv'
  <2>1. PendingDelete(rows[m].key) # <<>>
    BY <1>b, PendingDeletes
  <2> QED BY <1>b, <1>c, <2>1, PendingDeletes, Disowning
<1>d. ASSUME Live(m), UNCHANGED <<blobs, puts, works, swap, issued, faults, checks, late>>,
             Disown(m, <<Intent(rows[m].key, "due")>>), \A p \in puts : p.key # rows[m].key
      PROVE  ObjectsInv'
  <2> DEFINE new == <<Intent(rows[m].key, "due")>>
  <2>1. /\ new \in Seq(IntentRec) /\ new # <<>>
        /\ \A j \in DOMAIN new : new[j].key = rows[m].key /\ new[j].state # "done"
    BY <1>b, OneMore, IntentTyped
  <2>2. Disown(m, new)
    BY <1>d
  <2> HIDE DEF new
  <2> QED BY <1>b, <1>d, <2>1, <2>2, Disowning
<1>e. rows[m].state = "confirmed" => Live(m) /\ \A p \in puts : p.key # rows[m].key
  BY <1>a DEF PictureInv, Live
<1>1. ASSUME UploadImage(m) PROVE ObjectsInv'
  <2>1. /\ rows[m].state = "absent" /\ Draw
        /\ rows' = [rows EXCEPT ![m] = Row("pending", Random, "other")]
        /\ puts' = puts \cup {[key |-> Random, bytes |-> "other"]}
        /\ UNCHANGED <<outbox, blobs, late, checks, swap, works, faults>>
    BY <1>1, Spaces DEF UploadImage, store, replacing
  <2>2. /\ issued <= issued' /\ Random <= issued' + 1 /\ issued' \in Nat
        /\ Random \in Keys \ {Staging} /\ "other" \in Contents
    BY <2>1, Fresh, Ranges, Spaces DEF Bytes
  <2> QED BY <1>b, <2>1, <2>2, Fresh, Naming
<1>2. ASSUME FinishImage(m) PROVE ObjectsInv'
  <2>1. /\ \A p \in puts : p.key # rows[m].key
        /\ UNCHANGED <<blobs, puts, works, swap, issued, faults, checks, late>>
    BY <1>2 DEF FinishImage, store, replacing
  <2>2. CASE /\ rows[m].state = "pending" /\ blobs[rows[m].key] # "none"
             /\ rows' = [rows EXCEPT ![m].state = "confirmed"] /\ UNCHANGED outbox
    <3> DEFINE r == [rows[m] EXCEPT !.state = "confirmed"]
    <3>1. /\ r \in RowRec /\ r.state = "confirmed" /\ r.key = rows[m].key /\ r.bytes = rows[m].bytes
      BY <1>b DEF RowRec
    <3>2. rows[m].bytes = "other" /\ blobs[rows[m].key] = "other"
      BY <1>a, <2>2 DEF PictureInv, Live
    <3>3. rows' = [rows EXCEPT ![m] = r] /\ rows[m].state = "pending" /\ UNCHANGED outbox
      BY <2>2
    <3>4. \A p \in puts : p.key = r.key => p.key \in late' /\ m \in Files
      BY <2>1, <3>1
    <3>5. \A f \in Files : checks'[f] \in {checks[f], NoCheck}
      BY <2>1
    <3>6. blobs[r.key] = "other" /\ r.bytes = "other" /\ late \subseteq late'
      BY <2>1, <3>1, <3>2
    <3> HIDE DEF r
    <3> QED BY <1>b, <2>1, <3>1, <3>3, <3>4, <3>5, <3>6, Confirming
  <2>3. CASE rows[m].state = "pending" /\ Disown(m, <<Intent(rows[m].key, "due")>>)
    BY <1>d, <2>1, <2>3 DEF Live
  <2>4. CASE UNCHANGED database
    BY <2>1, <2>4, ObjectsStay DEF database
  <2> QED BY <1>2, <2>2, <2>3, <2>4 DEF FinishImage
<1>3. ASSUME LetGo(m) \/ Scan(m) PROVE ObjectsInv'
  BY <1>3, ObjectsStay DEF LetGo, Scan, database, store, replacing
<1>4. ASSUME DiscardImage(m) PROVE ObjectsInv'
  BY <1>4, <1>d, <1>e DEF DiscardImage, store, replacing
<1>5. ASSUME Collect(m) PROVE ObjectsInv'
  <2>1. UNCHANGED <<blobs, puts, works, swap, issued, faults, checks, late>>
    BY <1>5 DEF Collect, store, replacing
  <2>2. CASE rows[m].state = "pending" /\ Disown(m, PendingDelete(rows[m].key))
    BY <1>c, <2>1, <2>2 DEF Live
  <2>3. CASE rows[m].state = "confirmed" /\ Disown(m, <<Intent(rows[m].key, "due")>>)
    BY <1>d, <1>e, <2>1, <2>3
  <2>4. CASE UNCHANGED database
    BY <2>1, <2>4, ObjectsStay DEF database
  <2> QED BY <1>5, <2>2, <2>3, <2>4 DEF Collect
<1> QED BY <1>1, <1>2, <1>3, <1>4, <1>5 DEF Image

LEMMA Relisting ==
    ASSUME Formed, ObjectsInv, Reconcile
    PROVE  ObjectsInv'
<1> DEFINE new == <<Intent(Staging, "due")>>
<1>1. new \in Seq(IntentRec) /\ \A j \in DOMAIN new : new[j].key = Staging
  BY OneMore, IntentTyped, Spaces
<1>2. Drawn(Staging) /\ ~Owned(Staging) /\ (swap.step # "idle" => Staging # swap.key)
  BY Ranges, Spaces DEF ObjectsInv, KeysInv, SwapInv, Owned, Drawn
<1>3. UNCHANGED <<rows, blobs, late, issued, puts, checks, swap, works, faults>>
  BY DEF Reconcile, store, replacing
<1>4. outbox' = outbox \o new
  <2>1. Intent(Staging, "due") \in IntentRec /\ outbox \in Seq(IntentRec)
    BY IntentTyped, Spaces DEF Formed, Shapes
  <2> QED BY <2>1 DEF Reconcile
<1>5. blobs' \in [Keys -> Contents]
  BY <1>3, Ranges
<1> HIDE DEF new
<1> QED BY <1>1, <1>2, <1>3, <1>4, <1>5, Tidying

LEMMA ObjectsStep ==
    ASSUME Formed, ObjectsInv, [Next]_vars
    PROVE  ObjectsInv'
<1>1. ASSUME NEW ms \in SUBSET Images, WriteDocument(ms) PROVE ObjectsInv'
  BY <1>1, ObjectsStay DEF WriteDocument, database, store, replacing
<1>2. CASE UNCHANGED vars
  BY <1>2, ObjectsStay DEF vars, database, store, replacing
<1>3. CASE Drain
  BY <1>3, Claiming, Probing, Deleting, Recording, Exiting, Unlocking, Expiring DEF Drain, Work
<1> QED BY <1>1, <1>2, <1>3, ObjectsFile, LettingIn, Landing, ObjectsSwap, ObjectsImage, Relisting
        DEF Next

LEMMA StoreInit == Init => StoreInv
<1> SUFFICES ASSUME Init PROVE StoreInv
  OBVIOUS
<1> DEFINE first == Row("confirmed", Preferred, "hashed")
<1>a. First \in Files /\ First \in Ids /\ Files \subseteq Ids /\ Images \subseteq Ids
  BY FirstIsFile, Spaces
<1>b. /\ first \in RowRec /\ first.state = "confirmed" /\ first.key = Preferred
      /\ first.bytes = "hashed" /\ "hashed" \in Contents /\ "hashed" # "none"
  <2>1. "hashed" \in Contents
    BY DEF Contents, Bytes
  <2> QED BY <2>1, RowTyped, Spaces
<1>c. /\ rows = [id \in Ids |-> IF id = First THEN first ELSE Absent]
      /\ blobs = [k \in Keys |-> IF k = Preferred THEN "hashed" ELSE "none"]
      /\ outbox = <<>> /\ late = {} /\ issued = 0 /\ puts = {}
      /\ checks = [f \in Files |-> NoCheck]
      /\ offer = [state |-> "none", file |-> First]
      /\ swap = NoSwap
      /\ uploads = {} /\ claimed = {} /\ refs = {} /\ kept = {} /\ scanned = {}
      /\ works = [w \in Workers |-> Idle] /\ faults = 0
  <2> USE DEF Init
  <2> QED BY <1>b
<1> HIDE DEF first
<1>d. /\ rows[First] = first /\ \A id \in Ids \ {First} : rows[id] = Absent
      /\ \A id \in Ids : rows[id].key = Preferred /\ (Live(id) => id = First)
      /\ \A id \in Ids : rows[id].state = "confirmed" => id = First
  BY <1>a, <1>b, <1>c, Spaces DEF Live
<1>e. /\ blobs[Preferred] = "hashed" /\ \A k \in Keys \ {Preferred} : blobs[k] = "none"
  BY <1>c, Spaces
<1>f. DOMAIN outbox = {} /\ outbox \in Seq(IntentRec)
  BY <1>c
<1>g. /\ \A f \in Files : checks[f] = NoCheck
      /\ \A w \in Workers : works[w] = Idle
  BY <1>c
<1>1. Shapes
  <2>1. rows \in [Ids -> RowRec] /\ blobs \in [Keys -> Contents]
    BY <1>b, <1>c, Spaces
  <2>2. checks \in [Files -> CheckRec] /\ works \in [Workers -> WorkRec] /\ swap \in SwapRec
    BY <1>c, Spaces
  <2>3. offer \in [state : {"none", "open", "expired"}, file : Files]
    BY <1>a, <1>c
  <2> QED BY <1>c, <1>f, <2>1, <2>2, <2>3 DEF Shapes
<1>2. Resting
  BY <1>c, <1>g, Spaces DEF Resting
<1>3. KeysInv
  <2>1. Drawn(Preferred) /\ Preferred # Staging
    BY <1>c, Spaces DEF Drawn
  <2> QED BY <1>c, <1>d, <1>e, <1>f, <1>g, <2>1, Spaces DEF KeysInv
<1>4. WorkInv /\ SwapInv /\ FaultInv /\ PutInv
  BY <1>c, <1>f, <1>g, Spaces DEF WorkInv, SwapInv, FaultInv, PutInv, Strict, AllLocked
<1>5. CheckInv
  BY <1>g, Spaces DEF CheckInv
<1>6. PictureInv
  BY <1>a, <1>c, <1>d, Spaces DEF PictureInv
<1>7. CertInv
  BY <1>b, <1>d, <1>e DEF CertInv
<1>8. OrphanInv
  BY <1>a, <1>b, <1>d, <1>e DEF OrphanInv, Owned, Live
<1>9. ImageInv
  BY <1>c DEF ImageInv, ImagesKept
<1> QED BY <1>1, <1>2, <1>3, <1>4, <1>5, <1>6, <1>7, <1>8, <1>9 DEF StoreInv, ObjectsInv

LEMMA StoreStep == StoreInv /\ [Next]_vars => StoreInv'
<1> SUFFICES ASSUME StoreInv, [Next]_vars PROVE StoreInv'
  OBVIOUS
<1>1. Formed /\ ObjectsInv /\ ImageInv /\ SwapInv /\ WorkInv
  BY DEF StoreInv, Formed, ObjectsInv
<1>2. Formed' /\ ObjectsInv' /\ ImageInv'
  BY <1>1, FormedStep, ObjectsStep, ImageStep
<1> QED BY <1>2 DEF StoreInv, Formed

LEMMA StoreTyped == StoreInv => TypeOK
<1> SUFFICES ASSUME StoreInv PROVE TypeOK
  OBVIOUS
<1>1. Shapes
  BY DEF StoreInv
<1>2. \A i \in DOMAIN outbox : outbox[i] \in IntentRec
  BY <1>1 DEF Shapes
<1> QED BY <1>1, <1>2 DEF Shapes, TypeOK, RowRec, IntentRec

(* The invariant of rows, keys, deletions, transfers and workers holds      *)
(* however many of each there are, and whatever fails.                     *)
THEOREM StoresAgree == Spec => []StoreInv
BY StoreInit, StoreStep, PTL DEF Spec

(* Every variable has its type, and as long as there was at most one fault  *)
(* (a deletion or a process that failed, a lost connection, a lease that    *)
(* ran out under its worker) no confirmed file or image loses its bytes:    *)
(* the lease of the intent and the lock of the key are each enough to bar   *)
(* the key to a new owner, and one fault takes one of them.                *)
THEOREM BytesAreKept == Spec => [](faults <= 1 => BytesKept)
<1>1. StoreInv => (faults <= 1 => BytesKept)
  BY StoreTyped DEF StoreInv, ObjectsInv, CertInv, BytesKept
<1> QED BY <1>1, StoresAgree, PTL

(* With at most one fault a confirmed file or image holds the bytes it was  *)
(* certified with, unless a transfer known to be late brought others.      *)
THEOREM BytesAreCertified == Spec => [](faults <= 1 => CertifiedUnlessLate)
<1>1. StoreInv => (faults <= 1 => CertifiedUnlessLate)
  BY DEF StoreInv, ObjectsInv, CertInv, CertifiedUnlessLate
<1> QED BY <1>1, StoresAgree, PTL

(* Whatever fails, an object no row names is named by a deletion that is    *)
(* not yet done, or was brought by a transfer known to be late.            *)
THEOREM NothingIsOrphaned == Spec => []NoOrphan
<1>1. StoreInv => NoOrphan
  <2>1. \A k : Pursued(k) => Unprocessed(k)
    BY DEF Pursued, Unprocessed
  <2> QED BY <2>1 DEF StoreInv, ObjectsInv, OrphanInv, NoOrphan
<1> QED BY <1>1, StoresAgree, PTL

(* Whatever fails, the collector takes no image that a document shows or a  *)
(* revision keeps.                                                         *)
THEOREM ImagesAreKept == Spec => []ImagesKept
<1>1. StoreInv => ImagesKept
  BY DEF StoreInv, ImageInv
<1> QED BY <1>1, StoresAgree, PTL
=============================================================================
