---------------------------- MODULE ObjectStore ----------------------------
(***************************************************************************)
(* Files and document images, whose bytes are in an object store and whose  *)
(* rows are in PostgreSQL: file_service.py, asset_service.py, the           *)
(* statements of vault_files_repo.py they make, asset_gc_worker.py and      *)
(* s3_delete_worker.py.  No transaction spans the two stores: an object is  *)
(* owned by a row of vault_files or named by a row of s3_delete_outbox.     *)
(*                                                                         *)
(* A transaction is one action.  A transfer, an inspection, a copy and the  *)
(* deletion of an object are steps of their own: rows may change under      *)
(* them.  A lease or a delay is over when the model says so, under the      *)
(* assumptions stated at Ready and LeaseExpires.  One vault and one path:   *)
(* Preferred is the key made of the hash of the path's bytes, Staging the   *)
(* key the replacement is uploaded to; the keys after them are drawn at     *)
(* random, each at most once.                                              *)
(*                                                                         *)
(* A definition whose name ends in Slip belongs to no specification: it is  *)
(* the form a plausible bug would give the definition that follows it.      *)
(***************************************************************************)
EXTENDS Integers, Sequences, FiniteSets, SequencesExt

CONSTANTS Files,        \* ids of files
          Images,       \* ids of document images
          Workers,      \* processes that run the deletion worker
          MaxKeys,      \* random keys
          MaxTransfers, \* transfers in flight
          MaxIntents,   \* rows of the outbox, but for those of the inventory
          MaxRequests,  \* requests of clients
          MaxFaults     \* failed deletions, crashes and lost connections

Ids == Files \cup Images

ASSUME ObjectStoreAssumption ==
    /\ Files # {} /\ Files \cap Images = {} /\ Ids \cup Workers \subseteq Nat
    /\ {MaxKeys, MaxTransfers, MaxIntents, MaxRequests, MaxFaults} \subseteq Nat

VARIABLES
    rows,     \* vault_files: the state, key and certified bytes of each row
    outbox,   \* s3_delete_outbox, in order of id
    blobs,    \* the object store: what each key holds
    late,     \* keys of transfers whose row was confirmed, deleted or moved
    issued,   \* how many random keys are drawn
    puts,     \* transfers in flight
    checks,   \* confirmations of uploads under way
    offer,    \* the replacement: the file it is for and its capability
    swap,     \* the confirmation of the replacement under way
    uploads,  \* images whose upload has a process behind it
    claimed,  \* images a document has ever shown: attachment_claimed_at
    refs,     \* document_asset_refs: the images the document shows
    kept,     \* document_asset_revision_refs: those a revision still keeps
    scanned,  \* images the collector's statement has chosen
    works,    \* what each deletion worker is doing
    requests, \* requests made so far
    faults

database == <<rows, outbox>>
store == <<blobs, late>>
replacing == <<offer, swap>>
imaging == <<uploads, claimed, refs, kept, scanned>>
vars == <<database, store, issued, puts, checks, replacing, imaging, works,
          requests, faults>>

Staging == 0
Preferred == 1
Keys == 0 .. MaxKeys + 1
Bytes == {"hashed", "other"}   \* "hashed": those Preferred is the hash of
Contents == Bytes \cup {"none"}

Absent == [state |-> "absent", key |-> Preferred, bytes |-> "none"]
Gone == [Absent EXCEPT !.state = "gone"]
Row(state, key, bytes) == [state |-> state, key |-> key, bytes |-> bytes]
NoCheck == [key |-> Preferred, found |-> "idle"]
NoSwap == [step |-> "idle", key |-> Preferred, intent |-> 0, pin |-> "any"]
Idle == [step |-> "idle", key |-> Preferred, intent |-> 0, lock |-> FALSE]

First == CHOOSE f \in Files : \A g \in Files : f <= g

Live(id) == rows[id].state \in {"pending", "confirmed"}
Owned(k) == \E id \in Ids : Live(id) /\ rows[id].key = k
Unprocessed(k) ==
    \E i \in DOMAIN outbox : outbox[i].key = k /\ outbox[i].state # "done"
Locked(k) == \E w \in Workers : works[w].lock /\ works[w].key = k

Request == requests < MaxRequests /\ requests' = requests + 1
Fault == faults < MaxFaults /\ faults' = faults + 1

(* enqueue_delete: a row due at once, or after a delay. *)
Intent(k, state) == [key |-> k, state |-> state]
Enqueue(intents) ==
    /\ Len(outbox) + Len(intents) <= MaxIntents
    /\ outbox' = outbox \o intents

\* Deleted now, whatever is still on its way.
PendingDeleteSlip(k) == <<Intent(k, "due")>>

(* enqueue_pending_upload_delete: now, and once more when the transfers     *)
(* that were let in have settled.                                          *)
PendingDelete(k) == <<Intent(k, "due"), Intent(k, "delayed")>>

Disown(id, intents) ==
    /\ rows' = [rows EXCEPT ![id] = Gone]
    /\ Enqueue(intents)

(* A request to the store to delete objects, each of which may fail.       *)
Discard(keys) ==
    \E ks \in SUBSET keys :
        blobs' = [k \in Keys |-> IF k \in ks THEN "none" ELSE blobs[k]]

(* The first file was confirmed at the preferred key. *)
Init ==
    /\ LET first == Row("confirmed", Preferred, "hashed")
       IN  /\ rows = [id \in Ids |-> IF id = First THEN first ELSE Absent]
           /\ blobs = [k \in Keys |-> IF k = Preferred THEN first.bytes ELSE "none"]
    /\ outbox = <<>> /\ late = {} /\ issued = 0 /\ puts = {}
    /\ checks = [f \in Files |-> NoCheck]
    /\ offer = [state |-> "none", file |-> First]
    /\ swap = NoSwap
    /\ uploads = {} /\ claimed = {} /\ refs = {} /\ kept = {} /\ scanned = {}
    /\ works = [w \in Workers |-> Idle]
    /\ requests = 0 /\ faults = 0

Random == issued + 2
Draw == Random \in Keys /\ issued' = issued + 1

-----------------------------------------------------------------------------
(* Uploads of files. *)

\* The deletion that is still to come is not looked for.
AvailableSlip(k) == ~Locked(k)

(* s3_key_available_for_registration: the lock of the key is not waited    *)
(* for, and a deletion not yet processed bars a key no row names.          *)
Available(k) == ~Locked(k) /\ (Owned(k) \/ ~Unprocessed(k))

(* initiate_upload and insert_or_adopt: a row at the preferred key, if a    *)
(* hash is declared and the key is available, or at a random one.  A row    *)
(* that has the preferred key already is adopted: it stays what it is.      *)
Initiate(f, declared) ==
    /\ Request
    /\ rows[f] = Absent
    /\ IF declared /\ Available(Preferred)
       THEN /\ ~Owned(Preferred)
            /\ rows' = [rows EXCEPT ![f] = Row("pending", Preferred, "none")]
            /\ UNCHANGED issued
       ELSE /\ Draw
            /\ rows' = [rows EXCEPT ![f] = Row("pending", Random, "none")]
    /\ UNCHANGED <<outbox, store, puts, checks, replacing, imaging, works, faults>>

(* resolve_write_capability: a capability writes the key of its file while  *)
(* the file is pending (the body sent to a confirmed one is thrown away) or *)
(* the staging key of a replacement whose file is there.                   *)
Writable(k) ==
    \/ \E f \in Files : rows[f].state = "pending" /\ rows[f].key = k
    \/ k = Staging /\ offer.state = "open" /\ Live(offer.file)

(* upload_by_capability resolves first and streams the body afterwards.    *)
StartTransfer(k, b) ==
    /\ Request
    /\ Writable(k) /\ Cardinality(puts) < MaxTransfers
    /\ puts' = puts \cup {[key |-> k, bytes |-> b]}
    /\ UNCHANGED <<database, store, issued, checks, replacing, imaging, works, faults>>

(* A row leaves behind the transfers it has let in when it is confirmed,    *)
(* deleted or moved; one that ends between inspection and decision is as    *)
(* late as they are.                                                       *)
LeaveBehind(k) == late' = late \cup {p.key : p \in {q \in puts : q.key = k}}
Inspected(k) == \E f \in Files : checks[f].key = k /\ checks[f].found \in Contents

EndTransfer(p) ==
    /\ p \in puts
    /\ puts' = puts \ {p}
    /\ \/ /\ blobs' = [blobs EXCEPT ![p.key] = p.bytes]
          /\ late' = IF Inspected(p.key) THEN late \cup {p.key} ELSE late
       \/ UNCHANGED store                \* it fails
    /\ UNCHANGED <<database, issued, checks, replacing, imaging, works, requests, faults>>

(* confirm_upload: the row is read (and its lease renewed), the object is   *)
(* inspected outside any transaction, and the row is decided under its lock. *)
StartConfirm(f) ==
    /\ checks[f] = NoCheck /\ rows[f].state = "pending"
    /\ checks' = [checks EXCEPT ![f] = [key |-> rows[f].key, found |-> "unread"]]
    /\ UNCHANGED <<database, store, issued, puts, replacing, imaging, works, requests, faults>>

Inspect(f) ==
    /\ checks[f].found = "unread"
    /\ checks' = [checks EXCEPT ![f].found = blobs[checks[f].key]]
    /\ UNCHANGED <<database, store, issued, puts, replacing, imaging, works, requests, faults>>

(* There are no bytes, the key is the hash of others, or the client names   *)
(* another hash.                                                           *)
Refused(c, mismatch) ==
    c.found = "none" \/ (c.key = Preferred /\ c.found # "hashed") \/ mismatch

FinishConfirm(f, mismatch) ==
    LET c == checks[f] IN
    /\ c.found \in Contents
    /\ checks' = [checks EXCEPT ![f] = NoCheck]
    /\ IF rows[f].state # "pending" \/ rows[f].key # c.key
       THEN UNCHANGED <<database, late>>     \* gone, confirmed or moved
       ELSE IF Refused(c, mismatch)
            THEN Disown(f, PendingDelete(c.key)) /\ UNCHANGED late
            ELSE /\ rows' = [rows EXCEPT ![f] = Row("confirmed", c.key, c.found)]
                 /\ LeaveBehind(c.key) /\ UNCHANGED outbox
    /\ UNCHANGED <<blobs, issued, puts, replacing, imaging, works, requests, faults>>

(* cancel_upload, and collect_once for a reservation whose lease ran out:   *)
(* a file that is confirmed is left alone.                                 *)
Withdraw(f) ==
    /\ Request
    /\ rows[f].state = "pending"
    /\ Disown(f, PendingDelete(rows[f].key))
    /\ UNCHANGED <<store, issued, puts, checks, replacing, imaging, works, faults>>

(* delete: a file in whatever state it is. *)
Delete(f) ==
    /\ Request
    /\ Live(f)
    /\ Disown(f, <<Intent(rows[f].key, "due")>>)
    /\ LeaveBehind(rows[f].key)
    /\ UNCHANGED <<blobs, issued, puts, checks, replacing, imaging, works, faults>>

-----------------------------------------------------------------------------
(* Replacement of a file's bytes. *)

(* initiate_replace: the deletion of the staging key is put down before the *)
(* capability to write it is given.                                        *)
InitiateReplace(f) ==
    /\ Request
    /\ offer.state = "none" /\ Live(f)
    /\ Enqueue(<<Intent(Staging, "delayed")>>)
    /\ offer' = [state |-> "open", file |-> f]
    /\ UNCHANGED <<rows, store, issued, puts, checks, swap, imaging, works, faults>>

ExpireOffer ==
    /\ offer.state = "open"
    /\ offer' = [offer EXCEPT !.state = "expired"]
    /\ UNCHANGED <<database, store, issued, puts, checks, swap, imaging, works, requests, faults>>

(* _check_file_preconditions: the file is there, and is what the client     *)
(* last saw if the client says so.                                         *)
Pinned(pin) == Live(offer.file) /\ pin \in {"any", rows[offer.file].bytes}

\* The staged object itself is to be published.
StartSwapSlip(pin) ==
    /\ offer.state # "none" /\ swap = NoSwap
    /\ Pinned(pin) /\ Draw
    /\ Enqueue(<<Intent(Staging, "delayed")>>)
    /\ swap' = [step |-> "copying", key |-> Staging, intent |-> Len(outbox) + 1,
                pin |-> pin]
    /\ UNCHANGED <<rows, store, puts, checks, offer, imaging, works, requests, faults>>

(* confirm_replace up to the copy: the deletion of the candidate is put     *)
(* down before the candidate is made.  A replacement that is out of date    *)
(* only discards what was staged.                                          *)
StartSwap(pin) ==
    /\ offer.state # "none" /\ swap = NoSwap
    /\ Pinned(pin) /\ Draw
    /\ Enqueue(<<Intent(Random, "delayed")>>)
    /\ swap' = [step |-> "copying", key |-> Random, intent |-> Len(outbox) + 1,
                pin |-> pin]
    /\ UNCHANGED <<rows, store, puts, checks, offer, imaging, works, requests, faults>>

RefuseSwap ==
    /\ offer.state # "none"
    /\ Discard({Staging})
    /\ UNCHANGED <<database, late, issued, puts, checks, replacing, imaging, works, requests, faults>>

(* The copy and its inspection; both objects are discarded if it fails or   *)
(* the hash is not the one the client names.                               *)
Copy ==
    /\ swap.step = "copying"
    /\ \/ /\ blobs[Staging] # "none"
          /\ blobs' = [blobs EXCEPT ![swap.key] = blobs[Staging]]
          /\ swap' = [swap EXCEPT !.step = "ready"]
       \/ Discard({Staging, swap.key}) /\ swap' = NoSwap
    /\ UNCHANGED <<database, late, issued, puts, checks, offer, imaging, works, requests, faults>>

(* The transaction that publishes the candidate and cancels its deletion.   *)
(* A confirmation that is not told of the commit discards what was staged   *)
(* and leaves the candidate to its intent.                                 *)
Publish ==
    LET f == offer.file IN
    /\ swap.step = "ready" /\ Pinned(swap.pin)
    /\ IF rows[f].bytes = blobs[swap.key]
       THEN /\ Enqueue(<<Intent(Staging, "due"), Intent(swap.key, "due")>>)
            /\ UNCHANGED <<rows, late>>
       ELSE /\ Len(outbox) + 2 <= MaxIntents
            /\ outbox' = [outbox EXCEPT ![swap.intent].state = "done"]
                         \o <<Intent(rows[f].key, "due"), Intent(Staging, "due")>>
            /\ rows' = [rows EXCEPT ![f] = Row(@.state, swap.key, blobs[swap.key])]
            /\ LeaveBehind(rows[f].key)
    /\ Discard({Staging})
    /\ swap' = NoSwap
    /\ UNCHANGED <<issued, puts, checks, offer, imaging, works, requests, faults>>

(* It is rolled back: by a precondition, when both objects are discarded,   *)
(* or at COMMIT, when the confirmation cannot tell and keeps the candidate. *)
RollBack ==
    /\ swap.step = "ready"
    /\ Discard(IF Pinned(swap.pin) THEN {Staging} ELSE {Staging, swap.key})
    /\ swap' = NoSwap
    /\ UNCHANGED <<database, late, issued, puts, checks, offer, imaging, works, requests, faults>>

(* The process exits. *)
AbandonSwap ==
    /\ swap # NoSwap
    /\ swap' = NoSwap
    /\ UNCHANGED <<database, store, issued, puts, checks, offer, imaging, works, requests, faults>>

-----------------------------------------------------------------------------
(* Images of documents. *)

(* create_image_asset: the row is committed before the object is written.  *)
UploadImage(m) ==
    /\ Request
    /\ rows[m] = Absent /\ Draw /\ Cardinality(puts) < MaxTransfers
    /\ rows' = [rows EXCEPT ![m] = Row("pending", Random, "other")]
    /\ puts' = puts \cup {[key |-> Random, bytes |-> "other"]}
    /\ uploads' = uploads \cup {m}
    /\ UNCHANGED <<outbox, store, checks, replacing, claimed, refs, kept, scanned, works, faults>>

(* Its end, when the write has settled: the row is finalized; a row whose   *)
(* write or finalization failed is removed.  A row that is gone, the        *)
(* collector has removed.  A process that exits never comes here.           *)
FinishImage(m) ==
    LET r == rows[m] IN
    /\ m \in uploads /\ \A p \in puts : p.key # r.key
    /\ uploads' = uploads \ {m}
    /\ \/ r.state = "pending" /\ blobs[r.key] # "none"
          /\ rows' = [rows EXCEPT ![m].state = "confirmed"] /\ UNCHANGED outbox
       \/ r.state = "pending" /\ Disown(m, <<Intent(r.key, "due")>>)
       \/ r.state # "pending" /\ UNCHANGED database
    /\ UNCHANGED <<store, issued, puts, checks, replacing, claimed, refs, kept, scanned, works, requests, faults>>

\* The rows are locked and not touched.
WriteDocumentSlip(ms) ==
    /\ Request
    /\ \A m \in ms : rows[m].state = "confirmed"
    /\ ms # refs
    /\ refs' = ms
    /\ kept' = kept \cup refs \cup ms
    /\ claimed' = claimed \cup ms
    /\ UNCHANGED <<database, store, issued, puts, checks, replacing, uploads, scanned, works, faults>>

(* A document is written or deleted, in one transaction with its images:    *)
(* claim_attachment_references locks and touches the rows, and              *)
(* sync_document_asset_references keeps the images of the revision it       *)
(* supersedes and of the new one.  The images must be there.               *)
WriteDocument(ms) ==
    /\ Request
    /\ \A m \in ms : rows[m].state = "confirmed"
    /\ ms # refs
    /\ refs' = ms
    /\ kept' = kept \cup refs \cup ms
    /\ claimed' = claimed \cup ms
    /\ scanned' = scanned \ ms          \* updated_at is now
    /\ UNCHANGED <<database, store, issued, puts, checks, replacing, uploads, works, faults>>

(* retain_until passes for the revisions that show an image.               *)
LetGo(m) ==
    /\ m \in kept
    /\ kept' = kept \ {m}
    /\ UNCHANGED <<database, store, issued, puts, checks, replacing, uploads, claimed, refs, scanned, works, requests, faults>>

(* delete_unclaimed_attachment: the editor takes back what it uploaded.    *)
DiscardImage(m) ==
    /\ Request
    /\ rows[m].state = "confirmed" /\ m \notin claimed
    /\ Disown(m, <<Intent(rows[m].key, "due")>>)
    /\ UNCHANGED <<store, issued, puts, checks, replacing, imaging, works, faults>>

(* collect_once: the statement chooses rows no document shows and no        *)
(* revision keeps, and old enough (their age is not modelled); it locks     *)
(* them, looks at their age again, and deletes those that were not touched. *)
Scan(m) ==
    /\ Live(m) /\ m \notin refs \cup kept \cup scanned
    /\ scanned' = scanned \cup {m}
    /\ UNCHANGED <<database, store, issued, puts, checks, replacing, uploads, claimed, refs, kept, works, requests, faults>>

Collect(m) ==
    /\ m \in scanned
    /\ scanned' = scanned \ {m}
    /\ CASE rows[m].state = "pending" -> Disown(m, PendingDelete(rows[m].key))
         [] rows[m].state = "confirmed" -> Disown(m, <<Intent(rows[m].key, "due")>>)
         [] OTHER -> UNCHANGED database
    /\ UNCHANGED <<store, issued, puts, checks, replacing, uploads, claimed, refs, kept, works, requests, faults>>

-----------------------------------------------------------------------------
(* The worker that drains the outbox. *)

(* A row is due, or its delay is over.  The delay of the staging key is     *)
(* longer than a capability lives.  The others (24 hours) are longer than a *)
(* transfer let in for a withdrawn row, and than the confirmation that made *)
(* a candidate: an assumption about both.                                  *)
Ready(i) ==
    LET k == outbox[i].key IN
    \/ outbox[i].state = "due"
    \/ /\ outbox[i].state = "delayed"
       /\ IF k = Staging THEN offer.state # "open"
                         ELSE (\A p \in puts : p.key # k) /\ swap.intent # i

(* _claim_batch, one row at a time.  (Idle workers are alike: the first one *)
(* claims.)                                                                *)
Claim(w, i) ==
    /\ works[w] = Idle /\ \A v \in Workers : v < w => works[v] # Idle
    /\ Ready(i)
    /\ outbox' = [outbox EXCEPT ![i].state = "leased"]
    /\ works' = [works EXCEPT ![w] = [step |-> "claimed", key |-> outbox[i].key,
                                      intent |-> i, lock |-> FALSE]]
    /\ UNCHANGED <<rows, store, issued, puts, checks, replacing, imaging, requests, faults>>

(* The lock of the key, not waited for, and then the question whether a row *)
(* names the key.                                                          *)
Probe(w) ==
    LET k == works[w].key IN
    /\ works[w].step = "claimed"
    /\ works' = [works EXCEPT ![w] =
         IF Locked(k) THEN [@ EXCEPT !.step = "release"]
         ELSE IF Owned(k) THEN [@ EXCEPT !.step = "success"]
         ELSE [@ EXCEPT !.step = "deleting", !.lock = TRUE]]
    /\ UNCHANGED <<database, store, issued, puts, checks, replacing, imaging, requests, faults>>

RemoteDelete(w) ==
    LET k == works[w].key IN
    /\ works[w].step = "deleting"
    /\ \/ /\ blobs' = [blobs EXCEPT ![k] = "none"]
          /\ works' = [works EXCEPT ![w].step = "success", ![w].lock = FALSE]
          /\ UNCHANGED faults
       \/ /\ works' = [works EXCEPT ![w].step = "failure", ![w].lock = FALSE]
          /\ UNCHANGED blobs /\ Fault
    /\ UNCHANGED <<database, late, issued, puts, checks, replacing, imaging, requests>>

\* A failure is written down as such.
MarkedSlip(state, step) ==
    IF state = "done" \/ step = "success" THEN {"done"} ELSE {step}

(* _mark_success, _release_claim and _mark_failure.  None asks whose lease  *)
(* it is.  A row that is processed stays so; a failure may be the last of   *)
(* the row's tries, which are not counted here.                            *)
Marked(state, step) ==
    CASE state = "done" \/ step = "success" -> {"done"}
      [] step = "release" /\ state # "done" -> IF state = "abandoned" THEN {state} ELSE {"due"}
      [] OTHER -> {"due", "abandoned"}

Record(w) ==
    LET i == works[w].intent IN
    /\ works[w].step \in {"success", "release", "failure"}
    /\ \E state \in Marked(outbox[i].state, works[w].step) :
         outbox' = [outbox EXCEPT ![i].state = state]
    /\ works' = [works EXCEPT ![w] = Idle]
    /\ UNCHANGED <<rows, store, issued, puts, checks, replacing, imaging, requests, faults>>

(* The process exits, or the outcome cannot be recorded.  A deletion it has *)
(* asked for may still be served.                                          *)
Crash(w) ==
    /\ Fault
    /\ works[w] # Idle
    /\ works' = [works EXCEPT ![w] = Idle]
    /\ Discard(IF works[w].step = "deleting" THEN {works[w].key} ELSE {})
    /\ UNCHANGED <<database, late, issued, puts, checks, replacing, imaging, requests>>

(* The connection is lost, and the lock with it, during the deletion.      *)
LoseLock(w) ==
    /\ Fault
    /\ works[w].lock
    /\ works' = [works EXCEPT ![w].lock = FALSE]
    /\ UNCHANGED <<database, store, issued, puts, checks, replacing, imaging, requests>>

(* The ten minutes of a lease are over.  They outlast the deletion, whose   *)
(* retries are bounded; a worker that waits that long for a connection,     *)
(* before the deletion or after it, is a fault.                            *)
LeaseExpires(i) ==
    LET holders == {w \in Workers : works[w].intent = i} IN
    /\ outbox[i].state = "leased"
    /\ \A w \in holders : works[w].step # "deleting"
    /\ IF holders = {} THEN UNCHANGED faults ELSE Fault
    /\ outbox' = [outbox EXCEPT ![i].state = "due"]
    /\ UNCHANGED <<rows, store, issued, puts, checks, replacing, imaging, works, requests>>

\* A key is listed once.
ReconcileSlip ==
    /\ blobs[Staging] # "none" /\ offer.state # "open"
    /\ ~Locked(Staging) /\ ~Owned(Staging)
    /\ \A i \in DOMAIN outbox : outbox[i].key # Staging
    /\ Len(outbox) <= MaxIntents
    /\ outbox' = Append(outbox, Intent(Staging, "due"))
    /\ UNCHANGED <<rows, store, issued, puts, checks, replacing, imaging, works, requests, faults>>

(* _reconcile_staging_once: staged bytes older than any capability are      *)
(* listed again if no deletion of them is to come.                         *)
Reconcile ==
    /\ blobs[Staging] # "none" /\ offer.state # "open"
    /\ ~Locked(Staging) /\ ~Owned(Staging) /\ ~Unprocessed(Staging)
    /\ Len(outbox) <= MaxIntents
    /\ outbox' = Append(outbox, Intent(Staging, "due"))
    /\ UNCHANGED <<rows, store, issued, puts, checks, replacing, imaging, works, requests, faults>>

-----------------------------------------------------------------------------
File(f) ==
    \/ \E declared \in BOOLEAN : Initiate(f, declared)
    \/ StartConfirm(f) \/ Inspect(f)
    \/ \E mismatch \in BOOLEAN : FinishConfirm(f, mismatch)
    \/ Withdraw(f) \/ Delete(f) \/ InitiateReplace(f)

Swap ==
    \/ \E pin \in {"any", rows[offer.file].bytes} : StartSwap(pin)
    \/ Copy \/ Publish \/ RollBack

Image(m) ==
    \/ UploadImage(m) \/ FinishImage(m)
    \/ LetGo(m) \/ DiscardImage(m) \/ Scan(m) \/ Collect(m)

Work(w) == Probe(w) \/ RemoteDelete(w) \/ Record(w)

Drain ==
    \/ \E i \in DOMAIN outbox : LeaseExpires(i) \/ \E w \in Workers : Claim(w, i)
    \/ \E w \in Workers : Work(w) \/ Crash(w) \/ LoseLock(w)

Next ==
    \/ \E f \in Files : File(f)
    \/ \E k \in Keys, b \in Bytes : StartTransfer(k, b)
    \/ \E p \in puts : EndTransfer(p)
    \/ Swap \/ ExpireOffer \/ RefuseSwap \/ AbandonSwap
    \/ \E m \in Images : Image(m)
    \/ \E ms \in SUBSET Images : WriteDocument(ms)
    \/ Drain \/ Reconcile

(* Time passes, requests under way go on, and there is always a process to  *)
(* run the worker: one of these steps is taken as long as one can be, and   *)
(* no worker stops in the middle of a row.                                 *)
Progress ==
    \/ ExpireOffer
    \/ \E p \in puts : EndTransfer(p)
    \/ Copy \/ Publish \/ RollBack
    \/ \E i \in DOMAIN outbox : LeaseExpires(i) \/ \E w \in Workers : Claim(w, i)
    \/ Reconcile

Fairness == WF_vars(Progress) /\ \A w \in Workers : WF_vars(Work(w))

Spec == Init /\ [][Next]_vars /\ Fairness

-----------------------------------------------------------------------------
(* Rows, intents and objects are of the shapes above. *)
TypeOK ==
    /\ rows \in [Ids -> [state : {"absent", "pending", "confirmed", "gone"},
                         key : Keys, bytes : Contents]]
    /\ blobs \in [Keys -> Contents]
    /\ puts \subseteq [key : Keys, bytes : Bytes]
    /\ late \subseteq Keys
    /\ uploads \cup claimed \cup refs \cup kept \cup scanned \subseteq Images
    /\ \A i \in DOMAIN outbox :
         outbox[i] \in [key : Keys, state : {"delayed", "due", "leased", "done",
                                             "abandoned"}]

(* Every variable has its type, and                                        *)
(* the bytes of a confirmed file or image are never taken away: not by a    *)
(* deletion put down for an earlier owner of its key, leased twice, marked  *)
(* late or carried out without its lock, and not by the cleanup of a        *)
(* replacement whose commit was not seen.                                  *)
BytesKept ==
    TypeOK /\ \A id \in Ids : rows[id].state = "confirmed" => blobs[rows[id].key] # "none"

(* A confirmed file holds the bytes it was certified with, unless a         *)
(* transfer that was let in before the confirmation ended after the         *)
(* inspection.                                                             *)
CertifiedUnlessLate ==
    \A id \in Ids :
        rows[id].state = "confirmed" =>
            blobs[rows[id].key] = rows[id].bytes \/ rows[id].key \in late

(* An object that no row names is named by a deletion to come, or was       *)
(* brought by a transfer that outlived the row it was for.  (Staged objects *)
(* are the inventory's.)                                                   *)
NoOrphan ==
    \A k \in Keys \ {Staging} :
        blobs[k] # "none" /\ ~Owned(k) => Unprocessed(k) \/ k \in late

(* The collector never takes an image a document shows or a revision keeps, *)
(* whatever is written while its statement runs.                           *)
ImagesKept == \A m \in refs \cup kept : rows[m].state = "confirmed"

(* When no more is asked, every deletion put down is carried out or its     *)
(* tries are spent: no row is lost to a worker that exits, to a lease or to *)
(* the lock of its key.  Then no object is left without an owner, not even  *)
(* one that a transfer brought back to the staging key after its deletion,  *)
(* unless its deletion was given up or a transfer outlived its row.         *)
Clean ==
    /\ \A i \in DOMAIN outbox : outbox[i].state \in {"done", "abandoned"}
    /\ \A k \in Keys :
         blobs[k] # "none" /\ ~Owned(k) =>
             k \in late \/ Intent(k, "abandoned") \in ToSet(outbox)

ComesClean == <>[]Clean
=============================================================================
