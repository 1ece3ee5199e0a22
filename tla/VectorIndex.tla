----------------------------- MODULE VectorIndex -----------------------------
(***************************************************************************)
(* The chunks table and the vector store that mirrors it.  Embed workers   *)
(* claim chunks, encode them, and upsert a point for each under a lock on  *)
(* the chunk's row; a rewrite or a deletion drops chunks and leaves their  *)
(* ids in vector_delete_outbox, from which delete workers remove the       *)
(* points; the reaper drops chunks that were given up.                     *)
(*                                                                         *)
(* A store that joins (pgvector in the same database) commits the point    *)
(* with the row.  Any other is called over the network while the row is    *)
(* locked.  Workers claim one row at a time here; what a batch adds, the   *)
(* return of what it did not attempt, is the subject of EventOutbox.       *)
(*                                                                         *)
(* A definition whose name ends in Slip belongs to no specification: it is *)
(* the form a plausible bug would give the definition that follows it.     *)
(***************************************************************************)
EXTENDS Integers, FiniteSets

CONSTANTS
    Chunks,
    Embedders,    \* embed worker tasks
    Deleters,     \* delete workers, one per process
    MaxRetries,   \* MAX_RETRIES
    MaxFaults,    \* bound: failed steps and lost workers
    Stores,       \* kinds of store: TRUE for one that joins the transaction
    Nobody

ASSUME VectorConstants ==
    /\ Chunks # {}
    /\ MaxRetries \in Nat \ {0}
    /\ MaxFaults \in Nat
    /\ Stores \subseteq BOOLEAN
    /\ Nobody \notin Embedders

VARIABLES
    chunks,       \* the chunks table
    locked,       \* FOR UPDATE on a chunk's row
    dropping,     \* chunks a transaction has enqueued and will delete
    outbox,       \* vector_delete_outbox
    store,        \* the vector store
    flight,       \* upserts their callers gave up on
    embedders,
    deleters,
    faults

tables == <<chunks, locked, dropping, outbox>>
vars == <<tables, store, flight, embedders, deleters, faults>>

\* Unseen chunks came after a drop of their source had read the ids.
Chunk == [state     : {"absent", "present", "gone"},
          unseen    : BOOLEAN,
          indexed   : BOOLEAN,               \* vector_indexed_at
          abandoned : BOOLEAN,
          attempts  : 0..MaxRetries,
          due       : BOOLEAN,
          claim     : Embedders \cup {Nobody}]   \* vector_claimed_at

\* Strays are points written by an upsert that outlived its caller.
Store == [joins : Stores, points : SUBSET Chunks, strays : SUBSET Chunks]

\* A chunk id enters the outbox from a rewrite or from the reaper, at worst both.
Entries == Chunks \X {"drop", "reap"}

Entry == [state     : {"absent", "pending", "processed"},
          abandoned : BOOLEAN,
          attempts  : 0..MaxRetries,
          due       : BOOLEAN]

Embedder == [pc       : {"idle", "encode", "lock", "upsert", "commit", "fail", "refused"},
             chunk    : Chunks,
             attempts : 0..MaxRetries]

Deleter == [pc       : {"idle", "delete", "mark", "fail"},
            entry    : Entries,
            attempts : 0..MaxRetries]

NewChunk == [state |-> "present", unseen |-> FALSE, indexed |-> FALSE,
             abandoned |-> FALSE, attempts |-> 0, due |-> TRUE, claim |-> Nobody]
NewEntry == [state |-> "pending", abandoned |-> FALSE, attempts |-> 0, due |-> TRUE]

Init ==
    /\ chunks = [c \in Chunks |-> [NewChunk EXCEPT !.state = "absent"]]
    /\ locked = [c \in Chunks |-> Nobody]
    /\ dropping = {}
    /\ outbox = [e \in Entries |-> [NewEntry EXCEPT !.state = "absent"]]
    /\ store \in [joins : Stores, points : {{}}, strays : {{}}]
    /\ flight = {}
    /\ embedders = [w \in Embedders |-> [pc |-> "idle", attempts |-> 0,
                                         chunk |-> CHOOSE c \in Chunks : TRUE]]
    /\ deleters = [d \in Deleters |-> [pc |-> "idle", attempts |-> 0,
                                       entry |-> CHOOSE e \in Entries : TRUE]]
    /\ faults = 0

Present(c) == chunks[c].state = "present"
Free(c) == locked[c] = Nobody
Joined == store.joins
With(c) == [store EXCEPT !.points = @ \cup {c}, !.strays = @ \ {c}]
Without(c) == [store EXCEPT !.points = @ \ {c}, !.strays = @ \ {c}]
Listed(c) == \E e \in Entries : e[1] = c /\ outbox[e].state = "pending"
Fault == faults < MaxFaults /\ faults' = faults + 1

-----------------------------------------------------------------------------
(* Chunks come and go: write_source_chunks, _apply_live, delete_*_chunks.  *)
(* The deletion of a File or a table does not take the lock under which    *)
(* its metadata are indexed.                                               *)
Insert(c) ==
    /\ chunks[c].state = "absent"
    /\ \E b \in BOOLEAN : chunks' = [chunks EXCEPT ![c] = [NewChunk EXCEPT !.unseen = b]]
    /\ UNCHANGED <<locked, dropping, outbox, store, flight, embedders, deleters, faults>>

\* enqueue_source_deletes reads the ids before their rows are locked.
SelectDropped(c) ==
    /\ Present(c)
    /\ dropping' = dropping \cup {c}
    /\ UNCHANGED <<chunks, locked, outbox, store, flight, embedders, deleters, faults>>

\* Deletes the rows without a word to the outbox.
DropSlip(c) ==
    /\ c \in dropping
    /\ Free(c)
    /\ dropping' = dropping \ {c}
    /\ chunks' = [chunks EXCEPT ![c].state = "gone"]
    /\ UNCHANGED <<locked, outbox, store, flight, embedders, deleters, faults>>

\* The DELETE waits for the row; the commit lists the id and removes the row,
\* which the reaper may have removed by then.
Drop(c) ==
    /\ c \in dropping
    /\ Free(c)
    /\ dropping' = dropping \ {c}
    /\ chunks' = [chunks EXCEPT ![c].state = "gone"]
    /\ outbox' = [outbox EXCEPT ![<<c, "drop">>] = NewEntry]
    /\ UNCHANGED <<locked, store, flight, embedders, deleters, faults>>

\* The DELETE goes by source, and takes chunks whose ids were not read.
DropUnseen(c) ==
    /\ Present(c)
    /\ chunks[c].unseen
    /\ Free(c)
    /\ chunks' = [chunks EXCEPT ![c].state = "gone"]
    /\ UNCHANGED <<locked, dropping, outbox, store, flight, embedders, deleters, faults>>

\* _reap_abandoned_chunks_once, a week after the chunk was given up
Reap(c) ==
    /\ Present(c)
    /\ ~chunks[c].indexed
    /\ chunks[c].abandoned
    /\ Free(c)
    /\ chunks' = [chunks EXCEPT ![c].state = "gone"]
    /\ outbox' = IF Listed(c) THEN outbox ELSE [outbox EXCEPT ![<<c, "reap">>] = NewEntry]
    /\ UNCHANGED <<locked, dropping, store, flight, embedders, deleters, faults>>

\* Leases and backoffs run out.
ElapseChunk(c) ==
    /\ ~chunks[c].due
    /\ chunks' = [chunks EXCEPT ![c].due = TRUE]
    /\ UNCHANGED <<locked, dropping, outbox, store, flight, embedders, deleters, faults>>

ElapseEntry(e) ==
    /\ ~outbox[e].due
    /\ outbox' = [outbox EXCEPT ![e].due = TRUE]
    /\ UNCHANGED <<chunks, locked, dropping, store, flight, embedders, deleters, faults>>

-----------------------------------------------------------------------------
(* embed_worker                                                            *)
\* Forgets that attempts run out.
ClaimableSlip(c) ==
    /\ Present(c) /\ Free(c)
    /\ ~chunks[c].indexed /\ ~chunks[c].abandoned /\ chunks[c].due

Claimable(c) ==
    /\ Present(c) /\ Free(c)
    /\ ~chunks[c].indexed /\ ~chunks[c].abandoned /\ chunks[c].due
    /\ chunks[c].attempts < MaxRetries

Claim(w, c) ==
    /\ embedders[w].pc = "idle"
    /\ Claimable(c)
    /\ chunks' = [chunks EXCEPT ![c].due = FALSE, ![c].claim = w,
                                 ![c].attempts = @ + 1]
    /\ embedders' = [embedders EXCEPT ![w] =
           [pc |-> "encode", chunk |-> c, attempts |-> chunks'[c].attempts]]
    /\ UNCHANGED <<locked, dropping, outbox, store, flight, deleters, faults>>

Goes(w, from, to) ==
    /\ embedders[w].pc = from
    /\ embedders' = [embedders EXCEPT ![w].pc = to]

\* The dense vector, or none, and the sparse one
Encode(w) ==
    /\ Goes(w, "encode", "lock")
    /\ UNCHANGED <<tables, store, flight, deleters, faults>>

\* No encoding, no signal to index, or term ids a renumbering has replaced
EncodeFails(w) ==
    /\ Goes(w, "encode", "fail") \/ Goes(w, "lock", "fail")
    /\ Fault
    /\ UNCHANGED <<tables, store, flight, deleters>>

\* A renumbering is under way: _release_unattempted, for a claim still held.
HandBack(w) ==
    LET c == embedders[w].chunk
    IN  /\ Free(c)
        /\ Goes(w, "encode", "idle") \/ Goes(w, "lock", "idle")
        /\ Fault
        /\ chunks' = IF /\ Present(c) /\ chunks[c].claim = w
                        /\ ~chunks[c].indexed /\ ~chunks[c].abandoned
                       THEN [chunks EXCEPT ![c].attempts = IF @ = 0 THEN 0 ELSE @ - 1,
                                           ![c].due = TRUE, ![c].claim = Nobody]
                     ELSE chunks
        /\ UNCHANGED <<locked, dropping, outbox, store, flight, deleters>>

\* Upserts a chunk it believes to be there.
LockSlip(w) ==
    LET c == embedders[w].chunk
    IN  /\ Free(c)
        /\ Goes(w, "lock", "upsert")
        /\ locked' = [locked EXCEPT ![c] = w]
        /\ UNCHANGED <<chunks, dropping, outbox, store, flight, deleters, faults>>

\* SELECT ... FOR UPDATE: a chunk that is gone by now is skipped.
Lock(w) ==
    LET c == embedders[w].chunk
    IN  /\ Free(c)
        /\ IF Present(c)
             THEN /\ Goes(w, "lock", "upsert")
                  /\ locked' = [locked EXCEPT ![c] = w]
             ELSE /\ Goes(w, "lock", "idle")
                  /\ UNCHANGED locked
        /\ UNCHANGED <<chunks, dropping, outbox, store, flight, deleters, faults>>

Unlocked(w) == [locked EXCEPT ![embedders[w].chunk] = Nobody]

\* Does not hand the connection to a store that joins.
UpsertSlip(w) ==
    /\ Goes(w, "upsert", "commit")
    /\ store' = With(embedders[w].chunk)
    /\ UNCHANGED <<tables, flight, deleters, faults>>

\* upsert_one; a store that joins shows the point with the commit
Upsert(w) ==
    /\ Goes(w, "upsert", "commit")
    /\ store' = IF Joined THEN store ELSE With(embedders[w].chunk)
    /\ UNCHANGED <<tables, flight, deleters, faults>>

\* A term id out of pgvector's range: no retry will help.
Refuse(w) ==
    /\ Joined
    /\ Goes(w, "upsert", "refused")
    /\ locked' = Unlocked(w)
    /\ UNCHANGED <<chunks, dropping, outbox, store, flight, deleters, faults>>

\* Goes on as if the point were written.
UpsertFailsSlip(w) ==
    /\ Goes(w, "upsert", "commit")
    /\ Fault
    /\ UNCHANGED <<tables, store, flight, deleters>>

\* The upsert raises, or times out with the request still on its way.
UpsertFails(w) ==
    LET c == embedders[w].chunk
    IN  /\ Goes(w, "upsert", "fail")
        /\ Fault
        /\ locked' = Unlocked(w)
        /\ \/ UNCHANGED <<store, flight>>
           \/ ~Joined /\ store' = With(c) /\ UNCHANGED flight
           \/ ~Joined /\ flight' = flight \cup {c} /\ UNCHANGED store
        /\ UNCHANGED <<chunks, dropping, outbox, deleters>>

\* _mark_success, and the end of the transaction
Commit(w) ==
    LET c == embedders[w].chunk
    IN  /\ Goes(w, "commit", "idle")
        /\ chunks' = [chunks EXCEPT ![c] =
               [@ EXCEPT !.indexed = TRUE, !.abandoned = FALSE, !.attempts = 0,
                         !.due = TRUE, !.claim = Nobody]]
        /\ store' = IF Joined THEN With(c) ELSE store
        /\ locked' = Unlocked(w)
        /\ UNCHANGED <<dropping, outbox, flight, deleters, faults>>

CommitFails(w) ==
    /\ Goes(w, "commit", "fail")
    /\ Fault
    /\ locked' = Unlocked(w)
    /\ UNCHANGED <<chunks, dropping, outbox, store, flight, deleters>>

GivenUp(c, terminal) ==
    IF Present(c)
      THEN [chunks EXCEPT ![c].due = terminal, ![c].abandoned = terminal, ![c].claim = Nobody]
    ELSE chunks

\* _mark_failure, whoever holds the chunk now
MarkFailure(w) ==
    /\ Free(embedders[w].chunk)
    /\ Goes(w, "fail", "idle")
    /\ chunks' = GivenUp(embedders[w].chunk, embedders[w].attempts >= MaxRetries)
    /\ UNCHANGED <<locked, dropping, outbox, store, flight, deleters, faults>>

\* _mark_terminal
MarkTerminal(w) ==
    /\ Free(embedders[w].chunk)
    /\ Goes(w, "refused", "idle")
    /\ chunks' = GivenUp(embedders[w].chunk, TRUE)
    /\ UNCHANGED <<locked, dropping, outbox, store, flight, deleters, faults>>

\* A worker is lost, its transaction with it, and its request maybe not.
CrashEmbedder(w) ==
    LET c == embedders[w].chunk
    IN  /\ embedders[w].pc # "idle"
        /\ Fault
        /\ embedders' = [embedders EXCEPT ![w].pc = "idle"]
        /\ locked' = IF locked[c] = w THEN Unlocked(w) ELSE locked
        /\ \/ UNCHANGED flight
           \/ ~Joined /\ embedders[w].pc = "upsert" /\ flight' = flight \cup {c}
        /\ UNCHANGED <<chunks, dropping, outbox, store, deleters>>

\* The store executes a request nobody waits for any more.
Land(c) ==
    /\ c \in flight
    /\ flight' = flight \ {c}
    /\ store' = [store EXCEPT !.points = @ \cup {c}, !.strays = @ \cup {c}]
    /\ UNCHANGED <<tables, embedders, deleters, faults>>

-----------------------------------------------------------------------------
(* delete_worker                                                           *)
ClaimEntry(d, e) ==
    /\ deleters[d].pc = "idle"
    /\ outbox[e].state = "pending"
    /\ ~outbox[e].abandoned /\ outbox[e].due
    /\ outbox[e].attempts < MaxRetries
    /\ outbox' = [outbox EXCEPT ![e].due = FALSE, ![e].attempts = @ + 1]
    /\ deleters' = [deleters EXCEPT ![d] =
           [pc |-> "delete", entry |-> e, attempts |-> outbox'[e].attempts]]
    /\ UNCHANGED <<chunks, locked, dropping, store, flight, embedders, faults>>

\* delete_point; a store that joins shows it with the commit
DeletePoint(d) ==
    /\ deleters[d].pc = "delete"
    /\ deleters' = [deleters EXCEPT ![d].pc = "mark"]
    /\ store' = IF Joined THEN store ELSE Without(deleters[d].entry[1])
    /\ UNCHANGED <<tables, flight, embedders, faults>>

DeleteFails(d) ==
    /\ deleters[d].pc \in {"delete", "mark"}
    /\ Fault
    /\ deleters' = [deleters EXCEPT ![d].pc = "fail"]
    /\ store' \in {store, IF Joined THEN store ELSE Without(deleters[d].entry[1])}
    /\ UNCHANGED <<tables, flight, embedders>>

\* _mark_delete_success
MarkDeleted(d) ==
    LET e == deleters[d].entry
    IN  /\ deleters[d].pc = "mark"
        /\ outbox' = [outbox EXCEPT ![e] = [NewEntry EXCEPT !.state = "processed"]]
        /\ store' = IF Joined THEN Without(e[1]) ELSE store
        /\ deleters' = [deleters EXCEPT ![d].pc = "idle"]
        /\ UNCHANGED <<chunks, locked, dropping, flight, embedders, faults>>

\* _mark_delete_failure
MarkDeleteFailure(d) ==
    LET e == deleters[d].entry
        terminal == deleters[d].attempts >= MaxRetries
    IN  /\ deleters[d].pc = "fail"
        /\ outbox' = [outbox EXCEPT ![e].due = terminal, ![e].abandoned = terminal]
        /\ deleters' = [deleters EXCEPT ![d].pc = "idle"]
        /\ UNCHANGED <<chunks, locked, dropping, store, flight, embedders, faults>>

CrashDeleter(d) ==
    /\ deleters[d].pc # "idle"
    /\ Fault
    /\ deleters' = [deleters EXCEPT ![d].pc = "idle"]
    /\ UNCHANGED <<tables, store, flight, embedders>>
-----------------------------------------------------------------------------
(* queue_rescuer                                                           *)
\* Waits for one attempt more than a claim allows.
SpentSlip(row) == row.attempts > MaxRetries /\ row.due /\ ~row.abandoned

Spent(row) == row.attempts >= MaxRetries /\ row.due /\ ~row.abandoned

SpentChunks == {c \in Chunks : Present(c) /\ ~chunks[c].indexed /\ Spent(chunks[c])}
SpentEntries == {e \in Entries : outbox[e].state = "pending" /\ Spent(outbox[e])}

\* One transaction: its UPDATE of chunks waits for their locks.
Rescue ==
    /\ SpentChunks # {} \/ SpentEntries # {}
    /\ \A c \in SpentChunks : Free(c)
    /\ chunks' = [c \in Chunks |->
           IF c \in SpentChunks THEN [chunks[c] EXCEPT !.abandoned = TRUE, !.claim = Nobody]
           ELSE chunks[c]]
    /\ outbox' = [e \in Entries |->
           IF e \in SpentEntries THEN [outbox[e] EXCEPT !.abandoned = TRUE] ELSE outbox[e]]
    /\ UNCHANGED <<locked, dropping, store, flight, embedders, deleters, faults>>

-----------------------------------------------------------------------------
EmbedderStep(w) ==
    Encode(w) \/ Lock(w) \/ Upsert(w) \/ Commit(w) \/ MarkFailure(w) \/ MarkTerminal(w)
DeleterStep(d) == DeletePoint(d) \/ MarkDeleted(d) \/ MarkDeleteFailure(d)

Next ==
    \/ \E c \in Chunks :
         \/ Insert(c) \/ SelectDropped(c) \/ Drop(c) \/ DropUnseen(c) \/ Reap(c)
         \/ ElapseChunk(c) \/ Land(c)
    \/ \E e \in Entries : ElapseEntry(e)
    \/ \E w \in Embedders :
         \/ \E c \in Chunks : Claim(w, c)
         \/ EmbedderStep(w)
         \/ EncodeFails(w) \/ HandBack(w) \/ Refuse(w) \/ UpsertFails(w) \/ CommitFails(w)
         \/ CrashEmbedder(w)
    \/ \E d \in Deleters :
         \/ \E e \in Entries : ClaimEntry(d, e)
         \/ DeleterStep(d)
         \/ DeleteFails(d)
         \/ CrashDeleter(d)
    \/ Rescue

(* Loops run on, row locks are granted in turn, leases run out.  Nothing   *)
(* has to be inserted, dropped or reaped, but a drop once begun goes on.   *)
Fairness ==
    /\ \A c \in Chunks :
         /\ SF_vars(Drop(c))
         /\ WF_vars(ElapseChunk(c))
         /\ SF_vars(\E w \in Embedders : Claim(w, c))
    /\ \A e \in Entries :
         /\ WF_vars(ElapseEntry(e))
         /\ SF_vars(\E d \in Deleters : ClaimEntry(d, e))
    /\ \A w \in Embedders : SF_vars(EmbedderStep(w))
    /\ \A d \in Deleters : WF_vars(DeleterStep(d))
    /\ SF_vars(Rescue)

Spec == Init /\ [][Next]_vars /\ Fairness

-----------------------------------------------------------------------------
(* The values of each variable; a locked row is there.                     *)
TypeOK ==
    /\ chunks \in [Chunks -> Chunk]
    /\ locked \in [Chunks -> Embedders \cup {Nobody}]
    /\ \A c \in Chunks : ~Free(c) => Present(c)
    /\ dropping \subseteq Chunks
    /\ outbox \in [Entries -> Entry]
    /\ store \in Store
    /\ flight \subseteq Chunks
    /\ embedders \in [Embedders -> Embedder]
    /\ deleters \in [Deleters -> Deleter]
    /\ faults \in 0..MaxFaults

(* A point in the store belongs to a chunk, or is listed for deletion: a   *)
(* chunk that goes while it is being embedded leaves nothing behind, but   *)
(* for an upsert its caller gave up on and the store executed later, and   *)
(* for a chunk that came between the two statements of a drop.             *)
NoOrphan ==
    \A c \in store.points :
        Present(c) \/ Listed(c) \/ c \in store.strays \/ chunks[c].unseen

(* Every variable has its type; what the table calls indexed is in the     *)
(* store, and in a store that joins nothing else is.                       *)
IndexedTrue ==
    TypeOK /\ \A c \in Chunks : Present(c) =>
        /\ chunks[c].indexed => c \in store.points
        /\ Joined /\ c \in store.points => chunks[c].indexed

(* Nothing stays in limbo: a chunk becomes searchable, or is given up, or  *)
(* goes; and when it goes its point goes too, or stands as given up, or is *)
(* a stray, or was never listed.                                           *)
Settles ==
    \A c \in Chunks :
        /\ Present(c) ~> (chunks[c].indexed \/ chunks[c].abandoned \/ ~Present(c))
        /\ chunks[c].state = "gone" /\ ~chunks[c].unseen ~>
              (c \notin store.points \ store.strays \/ \E e \in Entries : e[1] = c /\ outbox[e].abandoned)
=============================================================================
