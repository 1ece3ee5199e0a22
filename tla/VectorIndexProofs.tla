------------------------- MODULE VectorIndexProofs -------------------------
(* Theorems about VectorIndex, for any chunks, workers and bounds, and for *)
(* both kinds of store.                                                    *)
EXTENDS VectorIndex, TLAPS

Working(w) == embedders[w].pc \in {"upsert", "commit"}

\* A row is locked by the worker that writes its point, and by no other.
LockInv ==
    /\ \A w \in Embedders : Working(w) => locked[embedders[w].chunk] = w
    /\ \A c \in Chunks : \A w \in Embedders :
         locked[c] = w => Working(w) /\ embedders[w].chunk = c

\* What is listed has gone; what has not come yet has no point.
ChunkInv(c) ==
    /\ chunks[c].state = "absent" => c \notin store.points \cup flight
    /\ c \in store.points => Present(c) \/ Listed(c) \/ c \in store.strays \/ chunks[c].unseen
    /\ Present(c) =>
         /\ chunks[c].indexed => c \in store.points
         /\ Joined /\ c \in store.points => chunks[c].indexed

Gone(e) == outbox[e].state # "absent" => chunks[e[1]].state = "gone"

\* Between two of its steps, what a worker wrote stands.
EmbedderInv(w) == embedders[w].pc = "commit" => Joined \/ embedders[w].chunk \in store.points
DeleterInv(d) ==
    /\ deleters[d].pc # "idle" => outbox[deleters[d].entry].state # "absent"
    /\ deleters[d].pc = "mark" =>
         \/ Joined
         \/ deleters[d].entry[1] \notin store.points \ store.strays

Points ==
    /\ Joined => flight = {}
    /\ \A c \in Chunks : ChunkInv(c)
    /\ \A e \in Entries : Gone(e)
    /\ \A w \in Embedders : EmbedderInv(w)
    /\ \A d \in Deleters : DeleterInv(d)

VectorInv == TypeOK /\ LockInv /\ Points

-----------------------------------------------------------------------------
LEMMA Bounds ==
    /\ Chunks # {} /\ MaxRetries \in Nat \ {0} /\ MaxFaults \in Nat
    /\ Nobody \notin Embedders
BY VectorConstants

\* A row takes a value of its type, and a row that is locked stays.
LEMMA RowTyped ==
    ASSUME TypeOK, NEW c \in Chunks, NEW r \in Chunk,
           chunks' = [chunks EXCEPT ![c] = r], UNCHANGED locked,
           Free(c) \/ r.state = "present"
    PROVE  /\ chunks' \in [Chunks -> Chunk]
           /\ \A x \in Chunks : ~Free(x)' => Present(x)'
BY DEF TypeOK, Free, Present

LEMMA EntryTyped ==
    ASSUME TypeOK, NEW e \in Entries, NEW r \in Entry, outbox' = [outbox EXCEPT ![e] = r]
    PROVE  outbox' \in [Entries -> Entry]
BY DEF TypeOK

LEMMA NewTyped == NewChunk \in Chunk /\ NewEntry \in Entry
<1>1. 0 \in 0..MaxRetries
  BY Bounds
<1> QED
  BY <1>1 DEF NewChunk, NewEntry, Chunk, Entry

LEMMA PointsTyped ==
    ASSUME TypeOK, NEW c \in Chunks
    PROVE  /\ With(c) \in Store /\ Without(c) \in Store
           /\ [store EXCEPT !.points = @ \cup {c}, !.strays = @ \cup {c}] \in Store
BY DEF TypeOK, Store, With, Without

LEMMA EmbedderTyped ==
    ASSUME TypeOK, NEW w \in Embedders, NEW from, NEW to, Goes(w, from, to),
           to \in {"idle", "encode", "lock", "upsert", "commit", "fail", "refused"}
    PROVE  /\ embedders' \in [Embedders -> Embedder]
           /\ embedders[w].chunk \in Chunks
BY DEF TypeOK, Goes, Embedder

LEMMA DeleterTyped ==
    ASSUME TypeOK, NEW d \in Deleters, NEW to \in {"idle", "delete", "mark", "fail"},
           deleters' = [deleters EXCEPT ![d].pc = to]
    PROVE  /\ deleters' \in [Deleters -> Deleter]
           /\ deleters[d].entry \in Entries
           /\ deleters[d].entry[1] \in Chunks
<1>1. deleters[d] \in Deleter
  BY DEF TypeOK
<1>2. deleters[d].entry \in Entries
  BY <1>1 DEF Deleter
<1>3. deleters[d].entry[1] \in Chunks
  BY <1>2 DEF Entries
<1>4. [deleters[d] EXCEPT !.pc = to] \in Deleter
  BY <1>1 DEF Deleter
<1>5. deleters' \in [Deleters -> Deleter]
  BY <1>4 DEF TypeOK
<1> QED
  BY <1>2, <1>3, <1>5

LEMMA FaultTyped ==
    ASSUME TypeOK, Fault PROVE faults' \in 0..MaxFaults
BY Bounds DEF TypeOK, Fault

\* A transaction's end gives its row back.
LEMMA UnlockTyped ==
    ASSUME TypeOK, NEW w \in Embedders, locked' = Unlocked(w), UNCHANGED chunks
    PROVE  /\ locked' \in [Chunks -> Embedders \cup {Nobody}]
           /\ \A c \in Chunks : ~Free(c)' => Present(c)'
BY DEF TypeOK, Unlocked, Free, Present, Embedder
-----------------------------------------------------------------------------
LEMMA TypeInit == Init => TypeOK
<1> SUFFICES ASSUME Init PROVE TypeOK
  OBVIOUS
<1>1. PICK c \in Chunks : TRUE
  BY Bounds
<1>2. (CHOOSE x \in Chunks : TRUE) \in Chunks
  BY <1>1
<1>3. <<c, "drop">> \in Entries
  BY DEF Entries
<1>4. (CHOOSE e \in Entries : TRUE) \in Entries
  BY <1>3
<1>5. 0 \in 0..MaxRetries /\ 0 \in 0..MaxFaults
  BY Bounds
<1>6. chunks \in [Chunks -> Chunk] /\ outbox \in [Entries -> Entry]
  BY <1>5 DEF Init, NewChunk, NewEntry, Chunk, Entry
<1>7. embedders \in [Embedders -> Embedder] /\ deleters \in [Deleters -> Deleter]
  BY <1>2, <1>4, <1>5 DEF Init, Embedder, Deleter
<1>8. store \in Store
  BY DEF Init, Store
<1> QED
  BY <1>5, <1>6, <1>7, <1>8 DEF Init, TypeOK, Free

LEMMA TypeChunks ==
    ASSUME TypeOK, NEW c \in Chunks,
           \/ Insert(c) \/ SelectDropped(c) \/ Drop(c) \/ DropUnseen(c) \/ Reap(c)
             \/ ElapseChunk(c) \/ Land(c)
    PROVE  TypeOK'
<1>0. chunks[c] \in Chunk
  BY DEF TypeOK
<1>1. CASE Insert(c)
  <2>1. PICK b \in BOOLEAN : chunks' = [chunks EXCEPT ![c] = [NewChunk EXCEPT !.unseen = b]]
    BY <1>1 DEF Insert
  <2> DEFINE n == [NewChunk EXCEPT !.unseen = b]
  <2>2. n \in Chunk /\ n.state = "present"
    BY NewTyped DEF NewChunk, Chunk
  <2> HIDE DEF n
  <2> QED
    BY <1>1, <2>1, <2>2, RowTyped DEF n, Insert, TypeOK
<1>2. CASE SelectDropped(c)
  BY <1>2 DEF SelectDropped, TypeOK, Free, Present
<1> DEFINE r == [chunks[c] EXCEPT !.state = "gone"]
<1>3. r \in Chunk
  BY <1>0 DEF Chunk
<1>4. <<c, "drop">> \in Entries /\ <<c, "reap">> \in Entries
  BY DEF Entries
<1>5. CASE Drop(c)
  <2>1. chunks' = [chunks EXCEPT ![c] = r] /\ Free(c) /\ UNCHANGED locked
    BY <1>5 DEF Drop
  <2>2. outbox' \in [Entries -> Entry]
    BY <1>4, <1>5, NewTyped, EntryTyped DEF Drop
  <2> HIDE DEF r
  <2> QED
    BY <1>3, <1>5, <2>1, <2>2, RowTyped DEF Drop, TypeOK
<1>6. CASE Reap(c)
  <2>1. chunks' = [chunks EXCEPT ![c] = r] /\ Free(c) /\ UNCHANGED locked
    BY <1>6 DEF Reap
  <2>2. outbox' \in [Entries -> Entry]
    BY <1>4, <1>6, NewTyped, EntryTyped DEF Reap, TypeOK
  <2> HIDE DEF r
  <2> QED
    BY <1>3, <1>6, <2>1, <2>2, RowTyped DEF Reap, TypeOK
<1>9. CASE DropUnseen(c)
  <2>1. chunks' = [chunks EXCEPT ![c] = r] /\ Free(c) /\ UNCHANGED locked
    BY <1>9 DEF DropUnseen
  <2> HIDE DEF r
  <2> QED
    BY <1>3, <1>9, <2>1, RowTyped DEF DropUnseen, TypeOK
<1>7. CASE ElapseChunk(c)
  <2> DEFINE q == [chunks[c] EXCEPT !.due = TRUE]
  <2>1. q \in Chunk /\ q.state = chunks[c].state
    BY <1>0 DEF Chunk
  <2>2. chunks' = [chunks EXCEPT ![c] = q] /\ UNCHANGED locked
    BY <1>7 DEF ElapseChunk
  <2>3. Free(c) \/ q.state = "present"
    BY <2>1 DEF TypeOK, Present
  <2> HIDE DEF q
  <2> QED
    BY <1>7, <2>1, <2>2, <2>3, RowTyped DEF ElapseChunk, TypeOK
<1>8. CASE Land(c)
  BY <1>8, PointsTyped DEF Land, TypeOK, tables, Free, Present
<1> QED
  BY <1>1, <1>2, <1>5, <1>6, <1>7, <1>8, <1>9

LEMMA TypeClaims ==
    ASSUME TypeOK, NEW w \in Embedders, NEW c \in Chunks, Claim(w, c)
    PROVE  TypeOK'
<1> DEFINE r == [chunks[c] EXCEPT !.due = FALSE, !.claim = w, !.attempts = @ + 1]
           t == [pc |-> "encode", chunk |-> c, attempts |-> r.attempts]
<1>1. chunks[c] \in Chunk /\ chunks[c].attempts < MaxRetries /\ chunks[c].state = "present"
  BY DEF TypeOK, Claim, Claimable, Present
<1>2. chunks[c].attempts + 1 \in 0..MaxRetries
  BY <1>1, Bounds DEF Chunk
<1>3. r \in Chunk /\ r.state = "present"
  BY <1>1, <1>2 DEF Chunk
<1>4. t \in Embedder
  BY <1>1, <1>2, <1>3 DEF Embedder, Chunk
<1>5. chunks' = [chunks EXCEPT ![c] = r] /\ UNCHANGED locked
  BY DEF Claim
<1>6. embedders' = [embedders EXCEPT ![w] = t]
  BY <1>5, <1>1 DEF Claim, TypeOK, Chunk
<1> HIDE DEF r, t
<1>7. embedders' \in [Embedders -> Embedder]
  BY <1>4, <1>6 DEF TypeOK
<1> QED
  BY <1>3, <1>5, <1>7, RowTyped DEF Claim, TypeOK
\* A worker's failure leaves a row that is there, as it was there.
LEMMA GivenUpTyped ==
    ASSUME TypeOK, NEW c \in Chunks, NEW b \in BOOLEAN, Free(c),
           chunks' = GivenUp(c, b), UNCHANGED locked
    PROVE  /\ chunks' \in [Chunks -> Chunk]
           /\ \A x \in Chunks : ~Free(x)' => Present(x)'
<1> DEFINE r == [chunks[c] EXCEPT !.due = b, !.abandoned = b, !.claim = Nobody]
<1>1. r \in Chunk
  BY DEF TypeOK, Chunk
<1>2. chunks' = [chunks EXCEPT ![c] = r] \/ chunks' = chunks
  BY DEF GivenUp
<1> HIDE DEF r
<1>3. CASE chunks' = chunks
  BY <1>3 DEF TypeOK, Free, Present
<1>4. CASE chunks' = [chunks EXCEPT ![c] = r]
  BY <1>1, <1>4, RowTyped
<1> QED
  BY <1>2, <1>3, <1>4

LEMMA TypeEmbedders ==
    ASSUME TypeOK, NEW w \in Embedders,
           \/ EmbedderStep(w) \/ EncodeFails(w) \/ HandBack(w) \/ Refuse(w)
           \/ UpsertFails(w) \/ CommitFails(w) \/ CrashEmbedder(w)
    PROVE  TypeOK'
<1> DEFINE c == embedders[w].chunk
<1>0. c \in Chunks /\ chunks[c] \in Chunk /\ embedders[w].attempts \in 0..MaxRetries
  BY DEF TypeOK, Embedder
<1>1. CASE Encode(w)
  BY <1>1, EmbedderTyped DEF Encode, TypeOK, tables, Free, Present
<1>2. CASE EncodeFails(w)
  <2>1. embedders' \in [Embedders -> Embedder]
    BY <1>2, EmbedderTyped DEF EncodeFails
  <2> QED
    BY <1>2, <2>1, FaultTyped DEF EncodeFails, TypeOK, tables, Free, Present
<1>3. CASE HandBack(w)
  <2>1. embedders' \in [Embedders -> Embedder]
    BY <1>3, EmbedderTyped DEF HandBack
  <2> DEFINE r == [chunks[c] EXCEPT !.attempts = IF @ = 0 THEN 0 ELSE @ - 1,
                                    !.due = TRUE, !.claim = Nobody]
  <2>2. 0 \in 0..MaxRetries /\ (chunks[c].attempts # 0 => chunks[c].attempts - 1 \in 0..MaxRetries)
    BY <1>0, Bounds DEF Chunk
  <2>3. r \in Chunk
    BY <1>0, <2>2 DEF Chunk
  <2>4. (chunks' = [chunks EXCEPT ![c] = r] \/ chunks' = chunks) /\ Free(c) /\ UNCHANGED locked
    BY <1>3 DEF HandBack
  <2> HIDE DEF r
  <2>5. /\ chunks' \in [Chunks -> Chunk]
        /\ \A x \in Chunks : ~Free(x)' => Present(x)'
    <3>1. CASE chunks' = chunks
      BY <2>4, <3>1 DEF TypeOK, Free, Present
    <3>2. CASE chunks' = [chunks EXCEPT ![c] = r]
      BY <1>0, <2>3, <2>4, <3>2, RowTyped
    <3> QED
      BY <2>4, <3>1, <3>2
  <2>6. faults' \in 0..MaxFaults
    BY <1>3, FaultTyped DEF HandBack
  <2> QED
    BY <1>3, <2>1, <2>5, <2>6 DEF HandBack, TypeOK
<1>4. CASE Lock(w)
  <2>1. embedders' \in [Embedders -> Embedder]
    BY <1>4, EmbedderTyped DEF Lock
  <2>2. (locked' = locked \/ (Present(c) /\ locked' = [locked EXCEPT ![c] = w])) /\ UNCHANGED chunks
    BY <1>4 DEF Lock
  <2>3. /\ locked' \in [Chunks -> Embedders \cup {Nobody}]
        /\ \A x \in Chunks : ~Free(x)' => Present(x)'
    BY <1>0, <2>2 DEF TypeOK, Free, Present
  <2> QED
    BY <1>4, <2>1, <2>3 DEF Lock, TypeOK
<1>5. CASE Upsert(w)
  <2>1. embedders' \in [Embedders -> Embedder]
    BY <1>5, EmbedderTyped DEF Upsert
  <2>2. store' \in Store
    BY <1>0, <1>5, PointsTyped DEF Upsert, TypeOK
  <2> QED
    BY <1>5, <2>1, <2>2 DEF Upsert, TypeOK, tables, Free, Present
<1>6. CASE Refuse(w)
  <2>1. embedders' \in [Embedders -> Embedder]
    BY <1>6, EmbedderTyped DEF Refuse
  <2> QED
    BY <1>6, <2>1, UnlockTyped DEF Refuse, TypeOK
<1>7. CASE UpsertFails(w)
  <2>1. embedders' \in [Embedders -> Embedder]
    BY <1>7, EmbedderTyped DEF UpsertFails
  <2>2. store' \in Store /\ flight' \subseteq Chunks
    BY <1>0, <1>7, PointsTyped DEF UpsertFails, TypeOK
  <2>3. faults' \in 0..MaxFaults
    BY <1>7, FaultTyped DEF UpsertFails
  <2> QED
    BY <1>7, <2>1, <2>2, <2>3, UnlockTyped DEF UpsertFails, TypeOK
<1>8. CASE Commit(w)
  <2>1. embedders' \in [Embedders -> Embedder]
    BY <1>8, EmbedderTyped DEF Commit
  <2>2. store' \in Store
    BY <1>0, <1>8, PointsTyped DEF Commit, TypeOK
  <2> DEFINE r == [chunks[c] EXCEPT !.indexed = TRUE, !.abandoned = FALSE, !.attempts = 0,
                                    !.due = TRUE, !.claim = Nobody]
  <2>3. 0 \in 0..MaxRetries
    BY Bounds
  <2>4. r \in Chunk /\ r.state = chunks[c].state
    BY <1>0, <2>3 DEF Chunk
  <2>5. chunks' = [chunks EXCEPT ![c] = r] /\ locked' = [locked EXCEPT ![c] = Nobody]
    BY <1>8 DEF Commit, Unlocked
  <2> HIDE DEF r
  <2>6. /\ chunks' \in [Chunks -> Chunk]
        /\ locked' \in [Chunks -> Embedders \cup {Nobody}]
        /\ \A x \in Chunks : ~Free(x)' => Present(x)'
    BY <1>0, <2>4, <2>5 DEF TypeOK, Free, Present
  <2> QED
    BY <1>8, <2>1, <2>2, <2>6 DEF Commit, TypeOK
<1>9. CASE CommitFails(w)
  <2>1. embedders' \in [Embedders -> Embedder]
    BY <1>9, EmbedderTyped DEF CommitFails
  <2>2. faults' \in 0..MaxFaults
    BY <1>9, FaultTyped DEF CommitFails
  <2> QED
    BY <1>9, <2>1, <2>2, UnlockTyped DEF CommitFails, TypeOK
<1>10. CASE MarkFailure(w)
  <2>1. embedders' \in [Embedders -> Embedder]
    BY <1>10, EmbedderTyped DEF MarkFailure
  <2>2. (embedders[w].attempts >= MaxRetries) \in BOOLEAN
    BY <1>0, Bounds
  <2>3. /\ chunks' \in [Chunks -> Chunk]
        /\ \A x \in Chunks : ~Free(x)' => Present(x)'
    BY <1>0, <1>10, <2>2, GivenUpTyped DEF MarkFailure
  <2> QED
    BY <1>10, <2>1, <2>3 DEF MarkFailure, TypeOK
<1>11. CASE MarkTerminal(w)
  <2>1. embedders' \in [Embedders -> Embedder]
    BY <1>11, EmbedderTyped DEF MarkTerminal
  <2>2. /\ chunks' \in [Chunks -> Chunk]
        /\ \A x \in Chunks : ~Free(x)' => Present(x)'
    BY <1>0, <1>11, GivenUpTyped DEF MarkTerminal
  <2> QED
    BY <1>11, <2>1, <2>2 DEF MarkTerminal, TypeOK
<1>12. CASE CrashEmbedder(w)
  <2>1. embedders' \in [Embedders -> Embedder]
    BY <1>12 DEF CrashEmbedder, TypeOK, Embedder
  <2>2. faults' \in 0..MaxFaults
    BY <1>12, FaultTyped DEF CrashEmbedder
  <2>3. /\ locked' \in [Chunks -> Embedders \cup {Nobody}]
        /\ \A x \in Chunks : ~Free(x)' => Present(x)'
    <3>1. CASE locked' = locked
      BY <1>12, <3>1 DEF CrashEmbedder, TypeOK, Free, Present
    <3>2. CASE locked' = Unlocked(w)
      BY <1>12, <3>2, UnlockTyped DEF CrashEmbedder
    <3> QED
      BY <1>12, <3>1, <3>2 DEF CrashEmbedder
  <2>4. flight' \subseteq Chunks
    BY <1>0, <1>12 DEF CrashEmbedder, TypeOK
  <2> QED
    BY <1>12, <2>1, <2>2, <2>3, <2>4 DEF CrashEmbedder, TypeOK
<1> QED
  BY <1>1, <1>2, <1>3, <1>4, <1>5, <1>6, <1>7, <1>8, <1>9, <1>10, <1>11, <1>12 DEF EmbedderStep
LEMMA TypeDeleters ==
    ASSUME TypeOK, NEW d \in Deleters,
           \/ \E e \in Entries : ClaimEntry(d, e)
           \/ DeleterStep(d) \/ DeleteFails(d) \/ CrashDeleter(d)
    PROVE  TypeOK'
<1> DEFINE e == deleters[d].entry
<1>0. e \in Entries /\ e[1] \in Chunks /\ outbox[e] \in Entry /\ deleters[d].attempts \in 0..MaxRetries
  BY DEF TypeOK, Deleter, Entries
<1>1. ASSUME NEW x \in Entries, ClaimEntry(d, x) PROVE TypeOK'
  <2> DEFINE r == [outbox[x] EXCEPT !.due = FALSE, !.attempts = @ + 1]
             t == [pc |-> "delete", entry |-> x, attempts |-> r.attempts]
  <2>1. outbox[x] \in Entry /\ outbox[x].attempts < MaxRetries
    BY <1>1 DEF TypeOK, ClaimEntry
  <2>2. outbox[x].attempts + 1 \in 0..MaxRetries
    BY <2>1, Bounds DEF Entry
  <2>3. r \in Entry
    BY <2>1, <2>2 DEF Entry
  <2>4. t \in Deleter
    BY <2>1, <2>2 DEF Deleter, Entry
  <2>5. outbox' = [outbox EXCEPT ![x] = r]
    BY <1>1 DEF ClaimEntry
  <2>6. deleters' = [deleters EXCEPT ![d] = t]
    BY <1>1, <2>1, <2>5 DEF ClaimEntry, TypeOK, Entry
  <2> HIDE DEF r, t
  <2>7. outbox' \in [Entries -> Entry] /\ deleters' \in [Deleters -> Deleter]
    BY <2>3, <2>4, <2>5, <2>6 DEF TypeOK
  <2> QED
    BY <1>1, <2>7 DEF ClaimEntry, TypeOK, Free, Present
<1>2. CASE DeletePoint(d)
  <2>1. deleters' \in [Deleters -> Deleter]
    BY <1>2, DeleterTyped DEF DeletePoint
  <2>2. store' \in Store
    BY <1>0, <1>2, PointsTyped DEF DeletePoint, TypeOK
  <2> QED
    BY <1>2, <2>1, <2>2 DEF DeletePoint, TypeOK, tables, Free, Present
<1>3. CASE DeleteFails(d)
  <2>1. deleters' \in [Deleters -> Deleter]
    BY <1>3, DeleterTyped DEF DeleteFails
  <2>2. store' \in Store
    BY <1>0, <1>3, PointsTyped DEF DeleteFails, TypeOK
  <2>3. faults' \in 0..MaxFaults
    BY <1>3, FaultTyped DEF DeleteFails
  <2> QED
    BY <1>3, <2>1, <2>2, <2>3 DEF DeleteFails, TypeOK, tables, Free, Present
<1>4. CASE MarkDeleted(d)
  <2>1. deleters' \in [Deleters -> Deleter]
    BY <1>4, DeleterTyped DEF MarkDeleted
  <2>2. store' \in Store
    BY <1>0, <1>4, PointsTyped DEF MarkDeleted, TypeOK
  <2>3. [NewEntry EXCEPT !.state = "processed"] \in Entry
    BY NewTyped DEF Entry
  <2>4. outbox' \in [Entries -> Entry]
    BY <1>0, <1>4, <2>3, EntryTyped DEF MarkDeleted
  <2> QED
    BY <1>4, <2>1, <2>2, <2>4 DEF MarkDeleted, TypeOK, Free, Present
<1>5. CASE MarkDeleteFailure(d)
  <2>1. deleters' \in [Deleters -> Deleter]
    BY <1>5, DeleterTyped DEF MarkDeleteFailure
  <2> DEFINE b == deleters[d].attempts >= MaxRetries
             r == [outbox[e] EXCEPT !.due = b, !.abandoned = b]
  <2>2. b \in BOOLEAN
    BY <1>0, Bounds
  <2>3. outbox' = [outbox EXCEPT ![e] = r]
    BY <1>5 DEF MarkDeleteFailure
  <2> HIDE DEF b
  <2>4. r \in Entry
    BY <1>0, <2>2 DEF Entry
  <2> HIDE DEF r
  <2>5. outbox' \in [Entries -> Entry]
    BY <1>0, <2>3, <2>4, EntryTyped
  <2> QED
    BY <1>5, <2>1, <2>5 DEF MarkDeleteFailure, TypeOK, Free, Present
<1>6. CASE CrashDeleter(d)
  <2>1. deleters' \in [Deleters -> Deleter]
    BY <1>6, DeleterTyped DEF CrashDeleter
  <2> QED
    BY <1>6, <2>1, FaultTyped DEF CrashDeleter, TypeOK, tables, Free, Present
<1> QED
  BY <1>1, <1>2, <1>3, <1>4, <1>5, <1>6 DEF DeleterStep

LEMMA TypeRescue ==
    ASSUME TypeOK, Rescue PROVE TypeOK'
<1>1. ASSUME NEW c \in Chunks
      PROVE  chunks'[c] \in Chunk /\ chunks'[c].state = chunks[c].state
  <2>1. chunks[c] \in Chunk
    BY DEF TypeOK
  <2>2. \/ chunks'[c] = chunks[c]
        \/ chunks'[c] = [chunks[c] EXCEPT !.abandoned = TRUE, !.claim = Nobody]
    BY DEF Rescue
  <2> QED
    BY <2>1, <2>2 DEF Chunk
<1>2. chunks' \in [Chunks -> Chunk]
  BY <1>1 DEF Rescue
<1>3. outbox' \in [Entries -> Entry]
  BY DEF Rescue, TypeOK, Entry
<1> QED
  BY <1>1, <1>2, <1>3 DEF Rescue, TypeOK, Free, Present

LEMMA TypeElapse ==
    ASSUME TypeOK, NEW e \in Entries, ElapseEntry(e) PROVE TypeOK'
<1> DEFINE r == [outbox[e] EXCEPT !.due = TRUE]
<1>1. r \in Entry
  BY DEF TypeOK, Entry
<1>2. outbox' = [outbox EXCEPT ![e] = r]
  BY DEF ElapseEntry
<1> HIDE DEF r
<1> QED
  BY <1>1, <1>2, EntryTyped DEF ElapseEntry, TypeOK, Free, Present

\* What every step of the system is
LEMMA Steps ==
    ASSUME [Next]_vars
    PROVE  \/ \E c \in Chunks : \/ Insert(c) \/ SelectDropped(c) \/ Drop(c) \/ DropUnseen(c)
                                \/ Reap(c) \/ ElapseChunk(c) \/ Land(c)
           \/ \E e \in Entries : ElapseEntry(e)
           \/ \E w \in Embedders, c \in Chunks : Claim(w, c)
           \/ \E w \in Embedders : \/ EmbedderStep(w) \/ EncodeFails(w) \/ HandBack(w)
                                   \/ Refuse(w) \/ UpsertFails(w) \/ CommitFails(w)
                                   \/ CrashEmbedder(w)
           \/ \E d \in Deleters : \/ \E e \in Entries : ClaimEntry(d, e)
                                  \/ DeleterStep(d) \/ DeleteFails(d) \/ CrashDeleter(d)
           \/ Rescue
           \/ UNCHANGED vars
BY DEF Next

LEMMA TypeStep == TypeOK /\ [Next]_vars => TypeOK'
<1> SUFFICES ASSUME TypeOK, [Next]_vars PROVE TypeOK'
  OBVIOUS
<1>1. CASE UNCHANGED vars
  BY <1>1 DEF vars, tables, TypeOK, Free, Present
<1> QED
  BY <1>1, Steps, TypeChunks, TypeElapse, TypeClaims, TypeEmbedders, TypeDeleters, TypeRescue
-----------------------------------------------------------------------------
(* Who holds the row of a chunk.                                           *)
LEMMA LockStays ==
    ASSUME TypeOK, LockInv, NEW w \in Embedders, NEW t \in Embedder, UNCHANGED locked,
           embedders' = [embedders EXCEPT ![w] = t],
           ~Working(w), t.pc \notin {"upsert", "commit"}
    PROVE  LockInv'
<1>1. \A x \in Embedders : /\ Working(x)' <=> Working(x)
                           /\ Working(x) => embedders'[x] = embedders[x]
  BY DEF Working, TypeOK
<1> QED
  BY <1>1 DEF LockInv

LEMMA LockTaken ==
    ASSUME TypeOK, LockInv, NEW w \in Embedders, Free(embedders[w].chunk),
           locked' = [locked EXCEPT ![embedders[w].chunk] = w], Goes(w, "lock", "upsert")
    PROVE  LockInv'
<1>1. w # Nobody /\ embedders[w].chunk \in Chunks
  BY Bounds DEF TypeOK, Embedder
<1>2. \A x \in Embedders : /\ Working(x)' <=> Working(x) \/ x = w
                           /\ embedders'[x].chunk = embedders[x].chunk
  BY DEF Working, TypeOK, Goes, Embedder
<1>3. ~Working(w)
  BY DEF Working, Goes
<1>4. \A x \in Embedders : Working(x) => embedders[x].chunk # embedders[w].chunk
  BY <1>1, <1>3, Bounds DEF LockInv, Free
<1>5. \A x \in Embedders : embedders[x].chunk \in Chunks
  BY DEF TypeOK, Embedder
<1> QED
  BY <1>1, <1>2, <1>3, <1>4, <1>5 DEF LockInv, TypeOK

LEMMA LockLeft ==
    ASSUME TypeOK, LockInv, NEW w \in Embedders, locked' = Unlocked(w), Working(w),
           \/ embedders' = [embedders EXCEPT ![w].pc = "idle"]
           \/ embedders' = [embedders EXCEPT ![w].pc = "fail"]
           \/ embedders' = [embedders EXCEPT ![w].pc = "refused"]
    PROVE  LockInv'
<1>1. w # Nobody /\ Nobody \notin Embedders /\ embedders[w].chunk \in Chunks
  BY Bounds DEF TypeOK, Embedder
<1>2. \A x \in Embedders : /\ Working(x)' <=> Working(x) /\ x # w
                           /\ embedders'[x].chunk = embedders[x].chunk
                           /\ embedders[x].chunk \in Chunks
  BY DEF Working, TypeOK, Embedder
<1>3. \A x \in Embedders : Working(x) /\ x # w => embedders[x].chunk # embedders[w].chunk
  BY <1>1 DEF LockInv
<1> QED
  BY <1>1, <1>2, <1>3 DEF LockInv, TypeOK, Unlocked

\* A step from one pc to the other that takes and gives back no row
LEMMA LockKept ==
    ASSUME TypeOK, LockInv, NEW w \in Embedders, UNCHANGED locked,
           NEW from, NEW to, Goes(w, from, to),
           from \in {"upsert", "commit"} <=> to \in {"upsert", "commit"}
    PROVE  LockInv'
<1>1. \A x \in Embedders : /\ Working(x)' <=> Working(x)
                           /\ embedders'[x].chunk = embedders[x].chunk
  BY DEF Working, TypeOK, Goes, Embedder
<1> QED
  BY <1>1 DEF LockInv

LEMMA LockStep == TypeOK /\ LockInv /\ [Next]_vars => LockInv'
<1> SUFFICES ASSUME TypeOK, LockInv, [Next]_vars PROVE LockInv'
  OBVIOUS
<1>1. CASE UNCHANGED <<locked, embedders>>
  BY <1>1 DEF LockInv, Working
<1>2. ASSUME NEW w \in Embedders, NEW c \in Chunks, Claim(w, c) PROVE LockInv'
  <2> DEFINE t == embedders'[w]
  <2>1. embedders' \in [Embedders -> Embedder]
    BY <1>2, TypeClaims DEF TypeOK
  <2>2. t \in Embedder /\ embedders' = [embedders EXCEPT ![w] = t]
    BY <1>2, <2>1 DEF Claim, TypeOK
  <2>3. t.pc = "encode" /\ embedders[w].pc = "idle" /\ UNCHANGED locked
    BY <1>2 DEF Claim, TypeOK
  <2> HIDE DEF t
  <2> QED
    BY <2>2, <2>3, LockStays DEF Working
<1>3. ASSUME NEW w \in Embedders, EmbedderStep(w) PROVE LockInv'
  <2>1. CASE Encode(w)
    BY <2>1, LockKept DEF Encode, tables
  <2>2. CASE Lock(w)
    <3>1. CASE Present(embedders[w].chunk)
      BY <2>2, <3>1, LockTaken DEF Lock
    <3>2. CASE ~Present(embedders[w].chunk)
      BY <2>2, <3>2, LockKept DEF Lock
    <3> QED
      BY <3>1, <3>2
  <2>3. CASE Upsert(w)
    BY <2>3, LockKept DEF Upsert, tables
  <2>4. CASE Commit(w)
    BY <2>4, LockLeft DEF Commit, Goes, Working
  <2>5. CASE MarkFailure(w)
    BY <2>5, LockKept DEF MarkFailure
  <2>6. CASE MarkTerminal(w)
    BY <2>6, LockKept DEF MarkTerminal
  <2> QED
    BY <1>3, <2>1, <2>2, <2>3, <2>4, <2>5, <2>6 DEF EmbedderStep
<1>4. ASSUME NEW w \in Embedders,
             \/ EncodeFails(w) \/ HandBack(w) \/ Refuse(w) \/ UpsertFails(w)
             \/ CommitFails(w) \/ CrashEmbedder(w)
      PROVE  LockInv'
  <2>1. CASE EncodeFails(w)
    BY <2>1, LockKept DEF EncodeFails, tables
  <2>2. CASE HandBack(w)
    BY <2>2, LockKept DEF HandBack
  <2>3. CASE Refuse(w)
    BY <2>3, LockLeft DEF Refuse, Goes, Working
  <2>4. CASE UpsertFails(w)
    BY <2>4, LockLeft DEF UpsertFails, Goes, Working
  <2>5. CASE CommitFails(w)
    BY <2>5, LockLeft DEF CommitFails, Goes, Working
  <2>6. CASE CrashEmbedder(w)
    <3>1. CASE locked[embedders[w].chunk] = w
      <4>1. Working(w)
        BY <3>1 DEF LockInv, TypeOK, Embedder
      <4> QED
        BY <2>6, <3>1, <4>1, LockLeft DEF CrashEmbedder
    <3>2. CASE locked[embedders[w].chunk] # w
      <4>1. ~Working(w) /\ UNCHANGED locked
        BY <2>6, <3>2 DEF LockInv, CrashEmbedder
      <4>2. \A x \in Embedders : /\ Working(x)' <=> Working(x)
                                 /\ embedders'[x].chunk = embedders[x].chunk
        BY <2>6, <4>1 DEF Working, TypeOK, CrashEmbedder, Embedder
      <4> QED
        BY <4>1, <4>2 DEF LockInv
    <3> QED
      BY <3>1, <3>2
  <2> QED
    BY <1>4, <2>1, <2>2, <2>3, <2>4, <2>5, <2>6
<1>5. ASSUME NEW c \in Chunks,
             \/ Insert(c) \/ SelectDropped(c) \/ Drop(c) \/ DropUnseen(c) \/ Reap(c)
             \/ ElapseChunk(c) \/ Land(c)
      PROVE  UNCHANGED <<locked, embedders>>
  BY <1>5 DEF Insert, SelectDropped, Drop, DropUnseen, Reap, ElapseChunk, Land, tables
<1>6. ASSUME NEW d \in Deleters,
             \/ \E e \in Entries : ClaimEntry(d, e)
             \/ DeleterStep(d) \/ DeleteFails(d) \/ CrashDeleter(d)
      PROVE  UNCHANGED <<locked, embedders>>
  BY <1>6 DEF ClaimEntry, DeleterStep, DeletePoint, MarkDeleted, MarkDeleteFailure,
              DeleteFails, CrashDeleter, tables
<1>7. CASE Rescue \/ UNCHANGED vars \/ \E e \in Entries : ElapseEntry(e)
  BY <1>1, <1>7 DEF Rescue, vars, tables, ElapseEntry
<1> QED
  BY <1>1, <1>2, <1>3, <1>4, <1>5, <1>6, <1>7, Steps
-----------------------------------------------------------------------------
(* What the rows say of the points.                                        *)
LEMMA Effects ==
    ASSUME TypeOK, NEW c \in Chunks
    PROVE  /\ With(c).joins = Joined
           /\ With(c).points = store.points \cup {c}
           /\ With(c).strays = store.strays \ {c}
           /\ Without(c).joins = Joined
           /\ Without(c).points = store.points \ {c}
           /\ Without(c).strays = store.strays \ {c}
BY DEF TypeOK, Store, With, Without, Joined

\* A worker that writes a point holds a row that is there and is not listed.
LEMMA AtWork ==
    ASSUME VectorInv, NEW w \in Embedders, Working(w)
    PROVE  /\ embedders[w].chunk \in Chunks
           /\ Present(embedders[w].chunk)
           /\ \A e \in Entries : e[1] = embedders[w].chunk => outbox[e].state = "absent"
<1>1. embedders[w].chunk \in Chunks /\ w # Nobody
  BY Bounds DEF VectorInv, TypeOK, Embedder
<1>2. Present(embedders[w].chunk)
  BY <1>1 DEF VectorInv, LockInv, TypeOK, Free
<1> QED
  BY <1>1, <1>2 DEF VectorInv, Points, Gone, Present

LEMMA Keeps ==
    ASSUME VectorInv, UNCHANGED <<store, flight>>,
           \A c \in Chunks : /\ chunks'[c].state = chunks[c].state
                             /\ chunks'[c].indexed = chunks[c].indexed
                             /\ chunks'[c].unseen = chunks[c].unseen,
           \A e \in Entries : outbox'[e].state = outbox[e].state,
           \A w \in Embedders : embedders'[w].pc = "commit" => Joined \/ embedders'[w] = embedders[w],
           \A d \in Deleters :
             /\ deleters'[d].entry \in Entries
             /\ deleters'[d].pc # "idle" => outbox[deleters'[d].entry].state # "absent"
             /\ deleters'[d].pc = "mark" => Joined \/ deleters'[d] = deleters[d]
    PROVE  Points'
<1>1. Joined' = Joined /\ \A c \in Chunks : Present(c)' = Present(c) /\ Listed(c)' = Listed(c)
  BY DEF Joined, Present, Listed
<1>2. \A c \in Chunks : ChunkInv(c)'
  BY <1>1 DEF VectorInv, Points, ChunkInv
<1>3. \A e \in Entries : Gone(e)'
  <2>1. \A e \in Entries : e[1] \in Chunks
    BY DEF Entries
  <2> QED
    BY <2>1 DEF VectorInv, Points, Gone
<1>4. \A w \in Embedders : EmbedderInv(w)'
  BY <1>1 DEF VectorInv, Points, EmbedderInv
<1>5. \A d \in Deleters : DeleterInv(d)'
  BY <1>1 DEF VectorInv, Points, DeleterInv
<1> QED
  BY <1>1, <1>2, <1>3, <1>4, <1>5 DEF VectorInv, Points

\* Rows go with what lists them, or come when nothing speaks of them.
LEMMA KeepsInserted ==
    ASSUME VectorInv, NEW c \in Chunks, Insert(c) PROVE Points'
<1>1. /\ chunks'[c].state = "present" /\ ~chunks'[c].indexed /\ chunks[c].state = "absent"
      /\ \A x \in Chunks \ {c} : chunks'[x] = chunks[x]
      /\ UNCHANGED <<outbox, store, flight, embedders, deleters>>
  BY DEF Insert, VectorInv, TypeOK, NewChunk
<1>2. c \notin store.points
  BY <1>1 DEF VectorInv, Points, ChunkInv
<1>3. ChunkInv(c)'
  BY <1>1, <1>2 DEF ChunkInv, Present
<1>4. \A x \in Chunks \ {c} : ChunkInv(x)'
  BY <1>1 DEF VectorInv, Points, ChunkInv, Present, Listed, Joined
<1>5. \A e \in Entries : Gone(e)'
  <2>1. \A e \in Entries : e[1] \in Chunks
    BY DEF Entries
  <2> QED
    BY <1>1, <2>1 DEF VectorInv, Points, Gone
<1> QED
  BY <1>1, <1>3, <1>4, <1>5 DEF VectorInv, Points, EmbedderInv, DeleterInv, Joined

\* A row may go unlisted only if its drop had not seen it.
LEMMA KeepsUnseen ==
    ASSUME VectorInv, NEW c \in Chunks, DropUnseen(c) PROVE Points'
<1>1. /\ chunks[c].state = "present" /\ chunks'[c].state = "gone" /\ chunks'[c].unseen
      /\ \A x \in Chunks \ {c} : chunks'[x] = chunks[x]
      /\ UNCHANGED <<outbox, store, flight, embedders, deleters>>
  BY DEF DropUnseen, Present, VectorInv, TypeOK, Chunk
<1>2. ChunkInv(c)'
  BY <1>1 DEF ChunkInv, Present
<1>3. \A x \in Chunks \ {c} : ChunkInv(x)'
  BY <1>1 DEF VectorInv, Points, ChunkInv, Present, Listed, Joined
<1>4. \A e \in Entries : Gone(e)'
  <2>1. \A e \in Entries : e[1] \in Chunks
    BY DEF Entries
  <2> QED
    BY <1>1, <2>1 DEF VectorInv, Points, Gone
<1> QED
  BY <1>1, <1>2, <1>3, <1>4 DEF VectorInv, Points, EmbedderInv, DeleterInv, Joined

LEMMA KeepsDropped ==
    ASSUME VectorInv, NEW c \in Chunks, Drop(c) \/ Reap(c) PROVE Points'
<1>1. /\ chunks'[c].state = "gone"
      /\ \A x \in Chunks \ {c} : chunks'[x] = chunks[x]
      /\ UNCHANGED <<store, flight, embedders, deleters>>
  BY DEF Drop, Reap, VectorInv, TypeOK, Chunk
<1>2. /\ \A e \in Entries : \/ outbox'[e] = outbox[e]
                            \/ outbox'[e].state = "pending" /\ e[1] = c
      /\ \E e \in Entries : e[1] = c /\ outbox'[e].state = "pending"
  <2>1. <<c, "drop">> \in Entries /\ <<c, "reap">> \in Entries
    BY DEF Entries
  <2>2. CASE Drop(c)
    BY <2>1, <2>2 DEF Drop, VectorInv, TypeOK, NewEntry
  <2>3. CASE Reap(c) /\ Listed(c)
    BY <2>3 DEF Reap, Listed
  <2>4. CASE Reap(c) /\ ~Listed(c)
    BY <2>1, <2>4 DEF Reap, VectorInv, TypeOK, NewEntry
  <2> QED
    BY <2>2, <2>3, <2>4
<1>3. ChunkInv(c)'
  BY <1>1, <1>2 DEF ChunkInv, Present, Listed
<1>4. \A x \in Chunks \ {c} : ChunkInv(x)'
  <2> SUFFICES ASSUME NEW x \in Chunks \ {c} PROVE ChunkInv(x)'
    OBVIOUS
  <2>1. Present(x)' = Present(x) /\ (Listed(x) => Listed(x)') /\ Joined' = Joined
    BY <1>1, <1>2 DEF Present, Listed, Joined
  <2> QED
    BY <1>1, <2>1 DEF VectorInv, Points, ChunkInv
<1>5. \A e \in Entries : Gone(e)'
  <2>1. \A e \in Entries : e[1] \in Chunks
    BY DEF Entries
  <2> QED
    BY <1>1, <1>2, <2>1 DEF VectorInv, Points, Gone
<1>6. \A d \in Deleters : DeleterInv(d)'
  <2>1. \A d \in Deleters : deleters[d].entry \in Entries
    BY DEF VectorInv, TypeOK, Deleter
  <2> QED
    BY <1>1, <1>2, <2>1 DEF VectorInv, Points, DeleterInv, Joined
<1> QED
  BY <1>1, <1>3, <1>4, <1>5, <1>6 DEF VectorInv, Points, EmbedderInv, Joined
\* A point is written for a row that is there, or is a stray.
LEMMA KeepsWritten ==
    ASSUME VectorInv, NEW w \in Embedders, Working(w), ~Joined,
           UNCHANGED <<chunks, outbox, deleters>>,
           \/ store' = With(embedders[w].chunk) /\ UNCHANGED flight
           \/ store' = store /\ flight' = flight \cup {embedders[w].chunk},
           \A x \in Embedders : embedders'[x].pc = "commit" =>
             \/ embedders'[x] = embedders[x]
             \/ embedders'[x].chunk \in store'.points
    PROVE  Points'
<1> DEFINE c == embedders[w].chunk
<1>1. /\ c \in Chunks /\ Present(c)
      /\ \A e \in Entries : e[1] = c => outbox[e].state = "absent"
  BY AtWork
<1>2. /\ store'.joins = store.joins
      /\ store.points \subseteq store'.points
      /\ store'.points \subseteq store.points \cup {c}
      /\ store'.strays = store.strays \/ store'.strays = store.strays \ {c}
      /\ flight' \subseteq flight \cup {c}
  BY <1>1, Effects DEF VectorInv, Joined
<1> HIDE DEF c
<1>3. ~Joined' /\ \A x \in Chunks : Present(x)' = Present(x) /\ Listed(x)' = Listed(x)
  BY <1>2 DEF Joined, Present, Listed
<1>4. \A x \in Chunks : ChunkInv(x)'
  BY <1>1, <1>2, <1>3 DEF VectorInv, Points, ChunkInv, Present
<1>5. \A e \in Entries : Gone(e)'
  BY DEF VectorInv, Points, Gone
<1>6. \A x \in Embedders : EmbedderInv(x)'
  BY <1>2, <1>3 DEF VectorInv, Points, EmbedderInv
<1>7. \A d \in Deleters : DeleterInv(d)'
  <2>1. \A d \in Deleters : deleters[d].entry \in Entries
    BY DEF VectorInv, TypeOK, Deleter
  <2>2. \A d \in Deleters : deleters[d].pc = "mark" => deleters[d].entry[1] # c
    BY <1>1, <2>1 DEF VectorInv, Points, DeleterInv
  <2> QED
    BY <1>2, <1>3, <2>2 DEF VectorInv, Points, DeleterInv, Joined
<1> QED
  BY <1>3, <1>4, <1>5, <1>6, <1>7 DEF Points

LEMMA KeepsCommitted ==
    ASSUME VectorInv, NEW w \in Embedders, Commit(w) PROVE Points'
<1>0. PICK c \in Chunks : c = embedders[w].chunk
  BY DEF VectorInv, TypeOK, Embedder
<1>1. /\ c \in Chunks /\ Present(c)
      /\ \A e \in Entries : e[1] = c => outbox[e].state = "absent"
  BY <1>0, AtWork DEF Commit, Goes, Working
<1>2. /\ chunks'[c].state = "present" /\ chunks'[c].indexed
      /\ \A x \in Chunks \ {c} : chunks'[x] = chunks[x]
      /\ UNCHANGED <<outbox, flight, deleters>>
  BY <1>0, <1>1 DEF Commit, VectorInv, TypeOK, Chunk, Present
<1>3. /\ store'.joins = store.joins /\ store'.points = store.points \cup {c}
      /\ store'.strays = store.strays \/ store'.strays = store.strays \ {c}
  <2>1. CASE Joined
    BY <1>0, <2>1, Effects DEF Commit, VectorInv, Joined
  <2>2. CASE ~Joined
    BY <1>0, <2>2 DEF Commit, Goes, VectorInv, Points, EmbedderInv
  <2> QED
    BY <2>1, <2>2
<1>4. \A x \in Embedders : embedders'[x].pc = "commit" => embedders'[x] = embedders[x]
  BY DEF Commit, Goes, VectorInv, TypeOK, Embedder
<1>5. Joined' = Joined
  BY <1>3 DEF Joined
<1>6. ChunkInv(c)'
  BY <1>2, <1>3 DEF ChunkInv, Present
<1>7. \A x \in Chunks \ {c} : ChunkInv(x)'
  <2>1. \A x \in Chunks \ {c} : /\ Present(x)' = Present(x) /\ Listed(x)' = Listed(x)
                                /\ x \in store'.points <=> x \in store.points
                                /\ x \in store'.strays <=> x \in store.strays
    BY <1>2, <1>3 DEF Present, Listed
  <2> QED
    BY <1>2, <1>5, <2>1 DEF VectorInv, Points, ChunkInv
<1>8. \A e \in Entries : Gone(e)'
  <2>1. \A e \in Entries : e[1] \in Chunks
    BY DEF Entries
  <2> QED
    BY <1>1, <1>2, <2>1 DEF VectorInv, Points, Gone
<1>9. \A x \in Embedders : EmbedderInv(x)'
  BY <1>3, <1>4, <1>5 DEF VectorInv, Points, EmbedderInv
<1>10. \A d \in Deleters : DeleterInv(d)'
  <2>1. \A d \in Deleters : deleters[d].entry \in Entries
    BY DEF VectorInv, TypeOK, Deleter
  <2>2. \A d \in Deleters : deleters[d].pc = "mark" => deleters[d].entry[1] # c
    BY <1>1, <2>1 DEF VectorInv, Points, DeleterInv
  <2> QED
    BY <1>2, <1>3, <1>5, <2>2 DEF VectorInv, Points, DeleterInv
<1> QED
  BY <1>2, <1>5, <1>6, <1>7, <1>8, <1>9, <1>10 DEF VectorInv, Points

LEMMA KeepsLanded ==
    ASSUME VectorInv, NEW c \in Chunks, Land(c) PROVE Points'
<1>1. /\ store'.joins = store.joins
      /\ store'.points = store.points \cup {c}
      /\ store'.strays = store.strays \cup {c}
  BY DEF Land, VectorInv, TypeOK, Store
<1>2. /\ UNCHANGED <<chunks, outbox, embedders, deleters>>
      /\ c \in flight /\ flight' = flight \ {c}
  BY DEF Land, tables
<1>3. ~Joined /\ ~Joined' /\ chunks[c].state # "absent"
  BY <1>1, <1>2 DEF VectorInv, Points, ChunkInv, Joined
<1>4. \A x \in Chunks : Present(x)' = Present(x) /\ Listed(x)' = Listed(x)
  BY <1>2 DEF Present, Listed
<1>5. \A x \in Chunks : ChunkInv(x)'
  BY <1>1, <1>2, <1>3, <1>4 DEF VectorInv, Points, ChunkInv
<1>6. \A d \in Deleters : DeleterInv(d)'
  BY <1>1, <1>2, <1>3 DEF VectorInv, Points, DeleterInv
<1> QED
  BY <1>1, <1>2, <1>3, <1>5, <1>6 DEF VectorInv, Points, Gone, EmbedderInv

\* A point is removed for a row that has gone for ever.
LEMMA KeepsRemoved ==
    ASSUME VectorInv, NEW d \in Deleters, NEW c \in Chunks, deleters[d].pc # "idle",
           c = deleters[d].entry[1],
           store' = Without(c), UNCHANGED <<chunks, flight, embedders>>,
           \A e \in Entries : \/ outbox'[e].state = outbox[e].state
                              \/ e = deleters[d].entry /\ outbox'[e].state = "processed",
           \A x \in Deleters : /\ deleters'[x].entry = deleters[x].entry
                               /\ deleters'[x].pc \in {"idle", deleters[x].pc} \/ x = d
    PROVE  Points'
<1>1. /\ Joined' = Joined
      /\ store'.points = store.points \ {c}
      /\ store'.strays = store.strays \ {c}
  BY Effects DEF VectorInv, Joined
<1>2. /\ \A x \in Deleters : deleters[x].entry \in Entries
      /\ \A e \in Entries : e[1] \in Chunks
  BY DEF VectorInv, TypeOK, Deleter, Entries
<1>3. chunks[c].state = "gone"
  BY <1>2 DEF VectorInv, Points, Gone, DeleterInv
<1>4. \A x \in Chunks : Present(x)' = Present(x) /\ (x # c /\ Listed(x) => Listed(x)')
  BY DEF Present, Listed
<1>5. \A x \in Chunks : ChunkInv(x)'
  BY <1>1, <1>3, <1>4 DEF VectorInv, Points, ChunkInv, Present
<1>6. \A e \in Entries : Gone(e)'
  BY <1>2, <1>3 DEF VectorInv, Points, Gone
<1>7. \A w \in Embedders : EmbedderInv(w)'
  <2>1. \A w \in Embedders : embedders[w].pc = "commit" => embedders[w].chunk # c
    BY <1>3, AtWork DEF Working, Present
  <2> QED
    BY <1>1, <2>1 DEF VectorInv, Points, EmbedderInv
<1>8. \A x \in Deleters : DeleterInv(x)'
  <2>1. \A x \in Deleters : deleters'[x].pc # "idle" => outbox'[deleters'[x].entry].state # "absent"
    BY <1>2 DEF VectorInv, Points, DeleterInv
  <2>2. \A x \in Deleters : deleters'[x].pc = "mark" =>
          \/ Joined' \/ deleters'[x].entry[1] \notin store'.points \ store'.strays
    BY <1>1 DEF VectorInv, Points, DeleterInv
  <2> QED
    BY <2>1, <2>2 DEF DeleterInv
<1> QED
  BY <1>1, <1>5, <1>6, <1>7, <1>8 DEF VectorInv, Points

LEMMA KeepsProcessed ==
    ASSUME VectorInv, NEW d \in Deleters, MarkDeleted(d) PROVE Points'
<1> DEFINE n == deleters[d].entry
           c == n[1]
<1>1. n \in Entries /\ c \in Chunks /\ deleters[d].pc = "mark"
  BY DEF MarkDeleted, VectorInv, TypeOK, Deleter, Entries
<1>2. /\ \A e \in Entries : \/ outbox'[e].state = outbox[e].state
                            \/ e = n /\ outbox'[e].state = "processed"
      /\ \A x \in Deleters : /\ deleters'[x].entry = deleters[x].entry
                             /\ deleters'[x].pc \in {"idle", deleters[x].pc}
      /\ UNCHANGED <<chunks, flight, embedders>>
  BY <1>1 DEF MarkDeleted, VectorInv, TypeOK, Deleter, NewEntry
<1>3. CASE Joined
  BY <1>1, <1>2, <1>3, KeepsRemoved DEF MarkDeleted
<1>4. CASE ~Joined
  <2>1. store' = store /\ c \notin store.points \ store.strays /\ outbox[n].state # "absent"
    BY <1>1, <1>4 DEF MarkDeleted, VectorInv, Points, DeleterInv
  <2>2. /\ \A x \in Deleters : deleters[x].entry \in Entries
        /\ \A e \in Entries : e[1] \in Chunks
    BY DEF VectorInv, TypeOK, Deleter, Entries
  <2>3. chunks[c].state = "gone"
    BY <1>1, <2>1 DEF VectorInv, Points, Gone
  <2> HIDE DEF c
  <2>4. \A x \in Chunks : Present(x)' = Present(x) /\ (x # c /\ Listed(x) => Listed(x)')
    BY <1>2 DEF Present, Listed, c
  <2>5. \A x \in Chunks : ChunkInv(x)'
    BY <1>2, <2>1, <2>3, <2>4 DEF VectorInv, Points, ChunkInv, Joined
  <2>6. \A e \in Entries : Gone(e)'
    BY <1>2, <2>1, <2>2 DEF VectorInv, Points, Gone
  <2>7. \A x \in Deleters : DeleterInv(x)'
    BY <1>2, <2>1, <2>2 DEF VectorInv, Points, DeleterInv, Joined
  <2> QED
    BY <1>2, <2>1, <2>5, <2>6, <2>7 DEF VectorInv, Points, EmbedderInv, Joined
<1> QED
  BY <1>3, <1>4
LEMMA PointsInit == Init => Points
BY DEF Init, Points, ChunkInv, Gone, EmbedderInv, DeleterInv, NewChunk, NewEntry

\* What a failure leaves of a row
LEMMA GivenUpKeeps ==
    ASSUME TypeOK, NEW c \in Chunks, NEW b, chunks' = GivenUp(c, b)
    PROVE  \A x \in Chunks : /\ chunks'[x].state = chunks[x].state
                             /\ chunks'[x].indexed = chunks[x].indexed
                             /\ chunks'[x].unseen = chunks[x].unseen
BY DEF TypeOK, Chunk, GivenUp

LEMMA PointsEmbedders ==
    ASSUME VectorInv, NEW w \in Embedders,
           \/ EmbedderStep(w) \/ EncodeFails(w) \/ HandBack(w) \/ Refuse(w)
           \/ UpsertFails(w) \/ CommitFails(w) \/ CrashEmbedder(w)
    PROVE  Points'
<1>1. PICK c \in Chunks : c = embedders[w].chunk
  BY DEF VectorInv, TypeOK, Embedder
<1>2. /\ \A d \in Deleters : /\ deleters[d].entry \in Entries
                             /\ deleters[d].pc # "idle" => outbox[deleters[d].entry].state # "absent"
      /\ TypeOK
  BY DEF VectorInv, TypeOK, Deleter, Points, DeleterInv
\* A step that neither indexes a row nor writes a point
<1>3. ASSUME UNCHANGED <<outbox, store, flight, deleters>>,
             \A x \in Chunks : /\ chunks'[x].state = chunks[x].state
                               /\ chunks'[x].indexed = chunks[x].indexed
                               /\ chunks'[x].unseen = chunks[x].unseen,
             \A x \in Embedders : embedders'[x].pc = "commit" => Joined \/ embedders'[x] = embedders[x]
      PROVE  Points'
  BY <1>2, <1>3, Keeps
<1>4. ASSUME NEW from, NEW to, Goes(w, from, to)
      PROVE  /\ embedders[w].pc = from /\ embedders'[w].pc = to /\ embedders'[w].chunk = c
             /\ \A x \in Embedders \ {w} : embedders'[x] = embedders[x]
  BY <1>1, <1>4 DEF Goes, VectorInv, TypeOK, Embedder
<1>5. CASE Encode(w)
  BY <1>3, <1>4, <1>5 DEF Encode, tables
<1>6. CASE EncodeFails(w)
  BY <1>3, <1>4, <1>6 DEF EncodeFails, tables
<1>7. CASE HandBack(w)
  <2>1. \A x \in Chunks : /\ chunks'[x].state = chunks[x].state
                          /\ chunks'[x].indexed = chunks[x].indexed
                          /\ chunks'[x].unseen = chunks[x].unseen
    <3>1. chunks \in [Chunks -> Chunk]
      BY <1>2 DEF TypeOK
    <3>2. \/ chunks' = chunks
          \/ chunks' = [chunks EXCEPT ![c] = [chunks[c] EXCEPT
                           !.attempts = IF @ = 0 THEN 0 ELSE @ - 1, !.due = TRUE, !.claim = Nobody]]
      BY <1>1, <1>7 DEF HandBack
    <3>3. CASE chunks' = chunks
      BY <3>3
    <3>4. CASE chunks' # chunks
      <4>1. chunks[c] \in Chunk
        BY <3>1
      <4> DEFINE r == [chunks[c] EXCEPT !.attempts = IF @ = 0 THEN 0 ELSE @ - 1,
                                        !.due = TRUE, !.claim = Nobody]
      <4>2. r.state = chunks[c].state /\ r.indexed = chunks[c].indexed /\ r.unseen = chunks[c].unseen
        BY <4>1 DEF Chunk
      <4>3. chunks' = [chunks EXCEPT ![c] = r]
        BY <3>2, <3>4
      <4> HIDE DEF r
      <4> QED
        BY <3>1, <4>2, <4>3
    <3> QED
      BY <3>3, <3>4
  <2>2. /\ embedders'[w].pc = "idle"
        /\ \A x \in Embedders \ {w} : embedders'[x] = embedders[x]
    BY <1>4, <1>7 DEF HandBack
  <2>3. UNCHANGED <<outbox, store, flight, deleters>>
    BY <1>7 DEF HandBack
  <2> QED
    BY <1>3, <2>1, <2>2, <2>3
<1>8. CASE Lock(w)
  BY <1>3, <1>4, <1>8 DEF Lock
<1>9. CASE Upsert(w)
  <2>1. /\ embedders[w].pc = "upsert" /\ embedders'[w].chunk = c
        /\ \A x \in Embedders \ {w} : embedders'[x] = embedders[x]
        /\ UNCHANGED <<chunks, outbox, flight, deleters>>
    BY <1>4, <1>9 DEF Upsert, tables
  <2>2. CASE Joined
    BY <1>3, <1>9, <2>1, <2>2 DEF Upsert
  <2>3. CASE ~Joined
    <3>1. store' = With(c) /\ c \in store'.points
      BY <1>1, <1>2, <1>9, <2>3, Effects DEF Upsert
    <3> QED
      BY <1>1, <2>1, <2>3, <3>1, KeepsWritten DEF Working
  <2> QED
    BY <2>2, <2>3
<1>10. CASE Refuse(w)
  BY <1>3, <1>4, <1>10 DEF Refuse
<1>11. CASE UpsertFails(w)
  <2>1. /\ embedders[w].pc = "upsert" /\ embedders'[w].pc = "fail"
        /\ \A x \in Embedders \ {w} : embedders'[x] = embedders[x]
        /\ UNCHANGED <<chunks, outbox, deleters>>
    BY <1>4, <1>11 DEF UpsertFails
  <2>2. CASE UNCHANGED <<store, flight>>
    BY <1>3, <2>1, <2>2
  <2>3. CASE ~UNCHANGED <<store, flight>>
    <3>1. /\ ~Joined
          /\ \/ store' = With(c) /\ UNCHANGED flight
             \/ store' = store /\ flight' = flight \cup {c}
      BY <1>1, <1>11, <2>3 DEF UpsertFails
    <3> QED
      BY <1>1, <2>1, <3>1, KeepsWritten DEF Working
  <2> QED
    BY <2>2, <2>3
<1>12. CASE Commit(w)
  BY <1>12, KeepsCommitted
<1>13. CASE CommitFails(w)
  BY <1>3, <1>4, <1>13 DEF CommitFails
<1>14. CASE MarkFailure(w)
  <2>1. chunks' = GivenUp(c, embedders[w].attempts >= MaxRetries)
    BY <1>1, <1>14 DEF MarkFailure
  <2>2. \A x \in Chunks : /\ chunks'[x].state = chunks[x].state
                          /\ chunks'[x].indexed = chunks[x].indexed
                          /\ chunks'[x].unseen = chunks[x].unseen
    BY <1>2, <2>1, GivenUpKeeps
  <2>3. /\ embedders'[w].pc = "idle"
        /\ \A x \in Embedders \ {w} : embedders'[x] = embedders[x]
        /\ UNCHANGED <<outbox, store, flight, deleters>>
    BY <1>4, <1>14 DEF MarkFailure
  <2> QED
    BY <1>3, <2>2, <2>3
<1>15. CASE MarkTerminal(w)
  <2>1. chunks' = GivenUp(c, TRUE)
    BY <1>1, <1>15 DEF MarkTerminal
  <2>2. \A x \in Chunks : /\ chunks'[x].state = chunks[x].state
                          /\ chunks'[x].indexed = chunks[x].indexed
                          /\ chunks'[x].unseen = chunks[x].unseen
    BY <1>2, <2>1, GivenUpKeeps
  <2>3. /\ embedders'[w].pc = "idle"
        /\ \A x \in Embedders \ {w} : embedders'[x] = embedders[x]
        /\ UNCHANGED <<outbox, store, flight, deleters>>
    BY <1>4, <1>15 DEF MarkTerminal
  <2> QED
    BY <1>3, <2>2, <2>3
<1>16. CASE CrashEmbedder(w)
  <2>1. /\ embedders'[w].pc = "idle"
        /\ \A x \in Embedders \ {w} : embedders'[x] = embedders[x]
        /\ UNCHANGED <<chunks, outbox, store, deleters>>
    BY <1>2, <1>16 DEF CrashEmbedder, TypeOK, Embedder
  <2>2. CASE UNCHANGED flight
    BY <1>3, <2>1, <2>2
  <2>3. CASE ~UNCHANGED flight
    <3>1. ~Joined /\ embedders[w].pc = "upsert" /\ flight' = flight \cup {c}
      BY <1>1, <1>16, <2>3 DEF CrashEmbedder
    <3> QED
      BY <1>1, <2>1, <3>1, KeepsWritten DEF Working
  <2> QED
    BY <2>2, <2>3
<1> QED
  BY <1>5, <1>6, <1>7, <1>8, <1>9, <1>10, <1>11, <1>12, <1>13, <1>14, <1>15, <1>16 DEF EmbedderStep

LEMMA PointsDeleters ==
    ASSUME VectorInv, NEW d \in Deleters,
           \/ \E e \in Entries : ClaimEntry(d, e)
           \/ DeleterStep(d) \/ DeleteFails(d) \/ CrashDeleter(d)
    PROVE  Points'
<1>1. /\ \A x \in Deleters : /\ deleters[x].entry \in Entries
                             /\ deleters[x].pc # "idle" => outbox[deleters[x].entry].state # "absent"
      /\ TypeOK
  BY DEF VectorInv, TypeOK, Deleter, Points, DeleterInv
<1>2. PICK c \in Chunks : c = deleters[d].entry[1]
  BY <1>1 DEF Entries
<1>3. ASSUME UNCHANGED <<chunks, store, flight, embedders>>,
             \A e \in Entries : outbox'[e].state = outbox[e].state,
             \A x \in Deleters :
               /\ deleters'[x].entry \in Entries
               /\ deleters'[x].pc # "idle" => outbox[deleters'[x].entry].state # "absent"
               /\ deleters'[x].pc = "mark" => Joined \/ deleters'[x] = deleters[x]
      PROVE  Points'
  BY <1>3, Keeps
<1>4. ASSUME NEW to, deleters' = [deleters EXCEPT ![d].pc = to]
      PROVE  /\ deleters'[d].pc = to /\ deleters'[d].entry = deleters[d].entry
             /\ \A x \in Deleters \ {d} : deleters'[x] = deleters[x]
  BY <1>1, <1>4 DEF TypeOK, Deleter
<1>5. ASSUME NEW e \in Entries, ClaimEntry(d, e) PROVE Points'
  <2>1. \A x \in Entries : outbox'[x].state = outbox[x].state
    BY <1>1, <1>5 DEF ClaimEntry, TypeOK, Entry
  <2>2. /\ deleters'[d].pc = "delete" /\ deleters'[d].entry = e /\ outbox[e].state # "absent"
        /\ \A x \in Deleters \ {d} : deleters'[x] = deleters[x]
    BY <1>1, <1>5 DEF ClaimEntry, TypeOK
  <2>3. \A x \in Deleters :
          /\ deleters'[x].entry \in Entries
          /\ deleters'[x].pc # "idle" => outbox[deleters'[x].entry].state # "absent"
          /\ deleters'[x].pc = "mark" => deleters'[x] = deleters[x]
    BY <1>1, <2>2
  <2>4. UNCHANGED <<chunks, store, flight, embedders>>
    BY <1>5 DEF ClaimEntry
  <2> QED
    BY <1>3, <2>1, <2>3, <2>4
<1>6. CASE DeletePoint(d)
  <2>1. /\ deleters[d].pc = "delete" /\ deleters'[d].pc = "mark"
        /\ deleters'[d].entry = deleters[d].entry
        /\ \A x \in Deleters \ {d} : deleters'[x] = deleters[x]
        /\ UNCHANGED <<chunks, outbox, flight, embedders>>
    BY <1>4, <1>6 DEF DeletePoint, tables
  <2>2. CASE Joined
    BY <1>1, <1>3, <1>6, <2>1, <2>2 DEF DeletePoint
  <2>3. CASE ~Joined
    BY <1>2, <1>6, <2>1, <2>3, KeepsRemoved DEF DeletePoint
  <2> QED
    BY <2>2, <2>3
<1>7. CASE DeleteFails(d)
  <2>1. /\ deleters[d].pc # "idle" /\ deleters'[d].pc = "fail"
        /\ deleters'[d].entry = deleters[d].entry
        /\ \A x \in Deleters \ {d} : deleters'[x] = deleters[x]
        /\ UNCHANGED <<chunks, outbox, flight, embedders>>
    BY <1>4, <1>7 DEF DeleteFails, tables
  <2>2. CASE store' = store
    BY <1>1, <1>3, <2>1, <2>2
  <2>3. CASE store' # store
    BY <1>2, <1>7, <2>1, <2>3, KeepsRemoved DEF DeleteFails
  <2> QED
    BY <2>2, <2>3
<1>8. CASE MarkDeleted(d)
  BY <1>8, KeepsProcessed
<1>9. CASE MarkDeleteFailure(d)
  <2>1. \A x \in Entries : outbox'[x].state = outbox[x].state
    BY <1>1, <1>9 DEF MarkDeleteFailure, TypeOK, Entry
  <2>2. /\ deleters'[d].pc = "idle" /\ deleters'[d].entry = deleters[d].entry
        /\ \A x \in Deleters \ {d} : deleters'[x] = deleters[x]
    BY <1>4, <1>9 DEF MarkDeleteFailure
  <2>3. UNCHANGED <<chunks, store, flight, embedders>>
    BY <1>9 DEF MarkDeleteFailure
  <2> QED
    BY <1>1, <1>3, <2>1, <2>2, <2>3
<1>10. CASE CrashDeleter(d)
  BY <1>1, <1>3, <1>4, <1>10 DEF CrashDeleter, tables
<1> QED
  BY <1>5, <1>6, <1>7, <1>8, <1>9, <1>10 DEF DeleterStep

\* Steps that touch neither a point nor what is known of one
LEMMA PointsElsewhere ==
    ASSUME VectorInv,
           \/ \E c \in Chunks : SelectDropped(c) \/ ElapseChunk(c)
           \/ \E e \in Entries : ElapseEntry(e)
           \/ \E w \in Embedders, c \in Chunks : Claim(w, c)
           \/ Rescue
           \/ UNCHANGED vars
    PROVE  Points'
<1>1. /\ \A c \in Chunks : /\ chunks'[c].state = chunks[c].state
                           /\ chunks'[c].indexed = chunks[c].indexed
                           /\ chunks'[c].unseen = chunks[c].unseen
      /\ \A e \in Entries : outbox'[e].state = outbox[e].state
      /\ \A w \in Embedders : embedders'[w].pc = "commit" => embedders'[w] = embedders[w]
      /\ UNCHANGED <<store, flight, deleters>>
  <2>1. CASE \E c \in Chunks : SelectDropped(c)
    BY <2>1 DEF SelectDropped
  <2>2. CASE \E c \in Chunks : ElapseChunk(c)
    BY <2>2 DEF ElapseChunk, VectorInv, TypeOK, Chunk
  <2>3. CASE \E e \in Entries : ElapseEntry(e)
    BY <2>3 DEF ElapseEntry, VectorInv, TypeOK, Entry
  <2>4. CASE \E w \in Embedders, c \in Chunks : Claim(w, c)
    <3>1. PICK w \in Embedders, c \in Chunks : Claim(w, c)
      BY <2>4
    <3>2. \A x \in Chunks : /\ chunks'[x].state = chunks[x].state
                            /\ chunks'[x].indexed = chunks[x].indexed
                            /\ chunks'[x].unseen = chunks[x].unseen
      <4>1. chunks \in [Chunks -> Chunk]
        BY DEF VectorInv, TypeOK
      <4>2. chunks' = [chunks EXCEPT ![c] = [chunks[c] EXCEPT !.due = FALSE, !.claim = w,
                                                             !.attempts = @ + 1]]
        BY <3>1 DEF Claim
      <4> QED
        BY <4>1, <4>2 DEF Chunk
    <3>3. /\ embedders'[w].pc = "encode"
          /\ \A x \in Embedders \ {w} : embedders'[x] = embedders[x]
      BY <3>1 DEF Claim, VectorInv, TypeOK
    <3>4. UNCHANGED <<outbox, store, flight, deleters>>
      BY <3>1 DEF Claim
    <3> QED
      BY <3>2, <3>3, <3>4
  <2>5. CASE Rescue
    BY <2>5 DEF Rescue, VectorInv, TypeOK, Chunk, Entry
  <2>6. CASE UNCHANGED vars
    BY <2>6 DEF vars, tables
  <2> QED
    BY <2>1, <2>2, <2>3, <2>4, <2>5, <2>6
<1>2. \A d \in Deleters : /\ deleters[d].entry \in Entries
                          /\ deleters[d].pc # "idle" => outbox[deleters[d].entry].state # "absent"
  BY DEF VectorInv, TypeOK, Deleter, Points, DeleterInv
<1> QED
  BY <1>1, <1>2, Keeps

LEMMA PointsStep == VectorInv /\ [Next]_vars => Points'
<1> SUFFICES ASSUME VectorInv, [Next]_vars PROVE Points'
  OBVIOUS
<1>1. ASSUME NEW c \in Chunks,
             \/ Insert(c) \/ SelectDropped(c) \/ Drop(c) \/ DropUnseen(c) \/ Reap(c)
             \/ ElapseChunk(c) \/ Land(c)
      PROVE  Points'
  BY <1>1, KeepsInserted, KeepsDropped, KeepsUnseen, KeepsLanded, PointsElsewhere
<1> QED
  BY <1>1, Steps, PointsElsewhere, PointsEmbedders, PointsDeleters

-----------------------------------------------------------------------------
(* Types, the locks of rows and what the tables say of points hold in      *)
(* every state: the invariant the theorems below rest on.                  *)
THEOREM VectorInvariant == Spec => []VectorInv
<1>1. Init => VectorInv
  <2>1. Init => LockInv
    BY Bounds DEF Init, LockInv, Working
  <2> QED
    BY <2>1, TypeInit, PointsInit DEF VectorInv
<1>2. VectorInv /\ [Next]_vars => VectorInv'
  BY TypeStep, LockStep, PointsStep DEF VectorInv
<1> QED
  BY <1>1, <1>2, PTL DEF Spec

(* A chunk dropped while an embed worker has it in hand leaves no point    *)
(* that nobody will delete, but for one the store wrote too late, and for  *)
(* a chunk that its drop had not seen.                                     *)
THEOREM NoPointLeft == Spec => []NoOrphan
<1>1. VectorInv => NoOrphan
  <2>1. VectorInv => store.points \subseteq Chunks
    BY DEF VectorInv, TypeOK, Store
  <2> QED
    BY <2>1 DEF VectorInv, Points, ChunkInv, NoOrphan
<1> QED
  BY <1>1, VectorInvariant, PTL

(* What the table calls indexed can be found, and in a store that joins    *)
(* the transaction the table and the points agree.                         *)
THEOREM IndexedFound == Spec => []IndexedTrue
<1>1. VectorInv => IndexedTrue
  BY DEF VectorInv, Points, ChunkInv, IndexedTrue
<1> QED
  BY <1>1, VectorInvariant, PTL
=============================================================================
