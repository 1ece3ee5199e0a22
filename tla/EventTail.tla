----------------------------- MODULE EventTail -----------------------------
(***************************************************************************)
(* The change event tail of one vault: writers that append to the events   *)
(* table inside their own transactions, the sweep that purges old rows,    *)
(* and one client that follows the tail over server-sent events, loses its *)
(* connection, and resumes from the cursor of the last frame it saw.       *)
(*                                                                         *)
(* An id is drawn when the row is inserted and the row is visible when its *)
(* transaction commits, so ids are not committed in order.  Ids of other   *)
(* vaults, and of transactions rolled back, are gaps.                      *)
(*                                                                         *)
(* A definition whose name ends in Slip belongs to no specification: it is *)
(* the form a plausible bug would give the definition that follows it.     *)
(***************************************************************************)
EXTENDS Integers, Sequences, FiniteSets, SequencesExt

CONSTANTS
    MaxId,        \* bound: ids drawn from the sequence
    MaxOpen,      \* bound: transactions that hold an uncommitted event
    BatchSize,    \* EVENT_BATCH_SIZE
    Wanted,       \* ids whose kind the client asked for
    MaxConnects,  \* bound: connections the client opens
    MaxRevokes,   \* bound: times the reader role is revoked
    Sweeps        \* whether the sweep runs

ASSUME TailConstants ==
    /\ {MaxId, MaxConnects, MaxRevokes} \subseteq Nat
    /\ {MaxOpen, BatchSize} \subseteq Nat \ {0}
    /\ Wanted \subseteq 1..MaxId
    /\ Sweeps \in BOOLEAN

Ids == 1..MaxId

VARIABLES
    last,       \* the last id drawn
    open,       \* ids inserted in transactions still running
    log,        \* ids in the order their transactions committed
    swept,      \* ids purged
    reader,     \* the user may read the vault
    entitled,   \* ids committed when, or before, the user was a reader
    revokes,    \* revocations so far
    stream,     \* the server's side of the connection
    wire,       \* frames sent and not yet received
    client      \* the client's side

table == <<last, open, log, swept>>
access == <<reader, entitled, revokes>>
vars == <<table, access, stream, wire, client>>

\* The server's coroutine: where it is, the position it reads after, the rows
\* it fetched, the asyncio event, and a NOTIFY on its way to the connection.
Stream == [pc       : {"closed", "open", "check", "query", "fetched", "recheck",
                       "send", "wait"},
           position : 0..MaxId,
           rows     : Seq(Ids),
           wakeup   : BOOLEAN,
           notice   : BOOLEAN]

\* The client: the cursor of the last frame it received (-1: none), the position
\* its subscription began from, the ids of the change frames it received, its connections.
Client == [cursor : -1..MaxId, from : -1..MaxId, got : Seq(Ids), connects : 0..MaxConnects]

Closed == [pc |-> "closed", position |-> 0, rows |-> <<>>,
           wakeup |-> FALSE, notice |-> FALSE]

Init ==
    /\ last = 0
    /\ open = {}
    /\ log = <<>>
    /\ swept = {}
    /\ reader = TRUE
    /\ entitled = {}
    /\ revokes = 0
    /\ stream = Closed
    /\ wire = <<>>
    /\ client = [cursor |-> -1, from |-> -1, got |-> <<>>, connects |-> 0]

Committed == ToSet(log)
Retained == Committed \ swept

\* Reads from the cursor, not after it; reads rows before they are committed.
AfterSlip(p) == {e \in Retained : e >= p}
AfterDirtySlip(p) == {e \in Retained \cup open : e > p}

\* Where an event that follows position p is looked for.
After(p) == {e \in Retained : e > p}

\* MIN(id) and MAX(id): no id when there is no row.
Earliest == {e \in Retained : \A f \in Retained : e <= f}
Latest == {e \in Retained : \A f \in Retained : f <= e}

-----------------------------------------------------------------------------
(* Writers: emit_event inside the transaction of the change.               *)
EmitEvent ==
    /\ last < MaxId
    /\ Cardinality(open) < MaxOpen
    /\ last' = last + 1
    /\ open' = open \cup {last + 1}
    /\ UNCHANGED <<log, swept, access, stream, wire, client>>

\* The trigger's NOTIFY goes out with the commit, to those listening by then.
Commit(e) ==
    /\ e \in open
    /\ open' = open \ {e}
    /\ log' = Append(log, e)
    /\ entitled' = IF reader THEN entitled \cup {e} ELSE entitled
    /\ stream' = IF stream.pc \in {"closed", "open"} THEN stream
                 ELSE [stream EXCEPT !.notice = TRUE]
    /\ UNCHANGED <<last, swept, reader, revokes, wire, client>>

Rollback(e) ==
    /\ e \in open
    /\ open' = open \ {e}
    /\ UNCHANGED <<last, log, swept, access, stream, wire, client>>

\* _sweep_once: rows published long enough ago, in whatever order they were.
Sweep(S) ==
    /\ Sweeps
    /\ S # {}
    /\ S \subseteq Retained
    /\ swept' = swept \cup S
    /\ UNCHANGED <<last, open, log, access, stream, wire, client>>

Revoke ==
    /\ reader
    /\ revokes < MaxRevokes
    /\ reader' = FALSE
    /\ revokes' = revokes + 1
    /\ UNCHANGED <<table, entitled, stream, wire, client>>

Grant ==
    /\ ~reader
    /\ reader' = TRUE
    /\ entitled' = entitled \cup Committed
    /\ UNCHANGED <<table, revokes, stream, wire, client>>

-----------------------------------------------------------------------------
(* open_tail: where the subscription starts, or a refusal.                 *)

\* Accepts a cursor one event too old.
InGapSlip(p) == \E e \in Earliest : p < e - 2

\* validate_event_gap
InGap(p) == \E e \in Earliest : p < e - 1

\* The cursors a client may start anew from.
Ends == {e - 1 : e \in Earliest} \cup Latest

\* resolve_start_position
Starts ==
    IF client.cursor # -1 THEN {client.cursor}
    ELSE IF Retained = {} THEN {0} ELSE Ends

Connect(p) ==
    /\ stream.pc = "closed"
    /\ wire = <<>>
    /\ reader
    /\ client.connects < MaxConnects
    /\ p \in Starts
    /\ ~InGap(p)
    /\ stream' = [Closed EXCEPT !.pc = "open", !.position = p]
    /\ client' = [client EXCEPT !.connects = @ + 1,
                                !.from = IF client.cursor = -1 THEN p ELSE @]
    /\ UNCHANGED <<table, access, wire>>

\* 410 with the cursors to start again from: the client knows it lost events.
Refuse(p) ==
    /\ stream.pc = "closed"
    /\ wire = <<>>
    /\ reader
    /\ client.connects < MaxConnects
    /\ client.cursor # -1
    /\ InGap(client.cursor)
    /\ p \in Ends
    /\ client' = [client EXCEPT !.connects = @ + 1, !.cursor = p, !.from = p]
    /\ UNCHANGED <<table, access, stream, wire>>

-----------------------------------------------------------------------------
(* _stream_events                                                          *)
Listen ==
    /\ stream.pc = "open"
    /\ stream' = [stream EXCEPT !.pc = "check"]
    /\ UNCHANGED <<table, access, wire, client>>

\* still_authorized, at the top of the loop and before each row.
Authorize ==
    /\ stream.pc \in {"check", "recheck"}
    /\ reader
    /\ stream' = [stream EXCEPT !.pc = IF @ = "check" THEN "query" ELSE "send"]
    /\ UNCHANGED <<table, access, wire, client>>

\* A revoked stream closes; frames already sent still arrive.
Expel ==
    /\ stream.pc \in {"check", "recheck"}
    /\ ~reader
    /\ stream' = Closed
    /\ UNCHANGED <<table, access, wire, client>>

\* The newest rows instead of the oldest.
BatchSlip(p) ==
    {rows \in BoundedSeq(After(p), BatchSize) :
        /\ \A i, j \in DOMAIN rows : i < j => rows[i] > rows[j]
        /\ \A e \in After(p) \ ToSet(rows) :
             Len(rows) = BatchSize /\ \A i \in DOMAIN rows : rows[i] > e}

\* list_vault_events: the oldest after p, in order, and all there are or a full
\* batch.  There is one such sequence.
Batch(p) ==
    {rows \in BoundedSeq(After(p), BatchSize) :
        /\ \A i, j \in DOMAIN rows : i < j => rows[i] < rows[j]
        /\ \A e \in After(p) \ ToSet(rows) :
             Len(rows) = BatchSize /\ \A i \in DOMAIN rows : rows[i] < e}

\* wakeup.clear(), then the snapshot list_vault_events reads.
Query ==
    /\ stream.pc = "query"
    /\ \E rows \in Batch(stream.position) :
         stream' = [stream EXCEPT !.wakeup = FALSE, !.rows = rows, !.pc = "fetched"]
    /\ UNCHANGED <<table, access, wire, client>>

\* Clears the wakeup once the rows are there; sends them without a second look
\* at the role.
FetchedSlip ==
    /\ stream.pc = "fetched"
    /\ stream' = [stream EXCEPT !.wakeup = FALSE,
                                !.pc = IF stream.rows = <<>> THEN "wait" ELSE "recheck"]
    /\ UNCHANGED <<table, access, wire, client>>
FetchedUncheckedSlip ==
    /\ stream.pc = "fetched"
    /\ stream' = [stream EXCEPT !.pc = IF stream.rows = <<>> THEN "wait" ELSE "send"]
    /\ UNCHANGED <<table, access, wire, client>>

\* The rows arrive.
Fetched ==
    /\ stream.pc = "fetched"
    /\ stream' = [stream EXCEPT !.pc = IF stream.rows = <<>> THEN "wait" ELSE "recheck"]
    /\ UNCHANGED <<table, access, wire, client>>

\* The frame carries the cursor of its own row: a change frame for a wanted
\* kind, a checkpoint for any other.
Send ==
    /\ stream.pc = "send"
    /\ wire' = Append(wire, Head(stream.rows))
    /\ stream' = [stream EXCEPT !.position = Head(stream.rows),
                                !.rows = Tail(stream.rows),
                                !.pc = IF Tail(stream.rows) = <<>> THEN "check"
                                       ELSE "recheck"]
    /\ UNCHANGED <<table, access, client>>

Notify ==
    /\ stream.notice
    /\ stream' = [stream EXCEPT !.notice = FALSE, !.wakeup = TRUE]
    /\ UNCHANGED <<table, access, wire, client>>

Wake ==
    /\ stream.pc = "wait"
    /\ stream.wakeup
    /\ stream' = [stream EXCEPT !.pc = "check"]
    /\ UNCHANGED <<table, access, wire, client>>

\* HEARTBEAT_INTERVAL_SECONDS passed: a comment frame, then the loop again.
Heartbeat ==
    /\ stream.pc = "wait"
    /\ stream' = [stream EXCEPT !.pc = "check"]
    /\ UNCHANGED <<table, access, wire, client>>

Receive ==
    /\ wire # <<>>
    /\ wire' = Tail(wire)
    /\ client' = [client EXCEPT !.cursor = Head(wire),
                                !.got = IF Head(wire) \in Wanted
                                          THEN Append(@, Head(wire)) ELSE @]
    /\ UNCHANGED <<table, access, stream>>

\* The connection breaks, with the frames on it.
Disconnect ==
    /\ stream.pc # "closed" \/ wire # <<>>
    /\ stream' = Closed
    /\ wire' = <<>>
    /\ UNCHANGED <<table, access, client>>

Next ==
    \/ EmitEvent
    \/ \E e \in Ids : Commit(e) \/ Rollback(e)
    \/ \E S \in SUBSET Ids : Sweep(S)
    \/ Revoke
    \/ Grant
    \/ \E p \in 0..MaxId : Connect(p) \/ Refuse(p)
    \/ Listen
    \/ Authorize
    \/ Expel
    \/ Query
    \/ Fetched
    \/ Send
    \/ Notify
    \/ Wake
    \/ Heartbeat
    \/ Receive
    \/ Disconnect

(* The server's coroutine runs on, NOTIFYs and frames arrive, and writers   *)
(* end their transactions.  Nothing needs the clock: Heartbeat may never   *)
(* come.                                                                   *)
Fairness ==
    /\ WF_vars(Listen)
    /\ WF_vars(Authorize \/ Expel)
    /\ WF_vars(Query)
    /\ WF_vars(Fetched)
    /\ WF_vars(Send)
    /\ WF_vars(Notify)
    /\ WF_vars(Wake)
    /\ WF_vars(Receive)
    /\ \A e \in Ids : WF_vars(Commit(e) \/ Rollback(e))

Spec == Init /\ [][Next]_vars /\ Fairness

-----------------------------------------------------------------------------
(* The values of each variable.                                            *)
TypeOK ==
    /\ last \in 0..MaxId
    /\ open \subseteq 1..last
    /\ log \in Seq(1..last)
    /\ swept \subseteq Committed
    /\ reader \in BOOLEAN
    /\ entitled \subseteq Committed
    /\ revokes \in 0..MaxRevokes
    /\ stream \in Stream
    /\ wire \in Seq(Committed)
    /\ client \in Client

(* Every variable has its type; and through disconnections, lost frames    *)
(* and resumptions, the client sees each event at most once and in the     *)
(* order of the ids.                                                       *)
OrderedOnce ==
    /\ TypeOK
    /\ \A i, j \in DOMAIN client.got : i < j => client.got[i] < client.got[j]

\* Wanted events behind the server's position that the client neither has nor
\* will get on this connection.
Skipped ==
    {e \in Committed \cap Wanted :
        /\ stream.pc # "closed"
        /\ client.from < e /\ e <= stream.position
        /\ e \notin ToSet(client.got) \cup ToSet(wire)}

\* e committed after an event with a larger id.
Late(e) == \E i, j \in DOMAIN log : i < j /\ log[j] = e /\ log[i] > e

(* What a tail leaves behind it was purged, or committed out of order.     *)
OnlyLateOrSwept == \A e \in Skipped : Late(e) \/ e \in swept

(* The user is sent no event that was committed after the reader role was  *)
(* revoked, whenever the revocation came.                                  *)
EntitledOnly == ToSet(client.got) \cup ToSet(wire) \subseteq entitled

(* As long as rows are purged from the old end and some are left, a cursor *)
(* that lost events is refused.                                            *)
GapSeen ==
    [][\A p \in 0..MaxId :
         /\ Connect(p)
         /\ Retained # {}
         /\ \A e \in swept, f \in Retained : e < f
         => client.cursor = -1 \/ \A e \in swept : e <= p]_vars

(* A retained event reaches a client that stays connected and allowed,     *)
(* unless it was committed out of order.                                   *)
Followed ==
    \A e \in Wanted :
        (e \in Retained /\ stream.pc # "closed" /\ e > stream.position)
          ~> (e \in ToSet(client.got) \/ stream.pc = "closed" \/ e \in swept \/ Late(e))
=============================================================================
