---------------------------- MODULE NativeLedger ----------------------------
(***************************************************************************)
(* The native revision ledger of one namespace (vault): the transactions   *)
(* that create, replace, move, delete and restore a resource.              *)
(*                                                                         *)
(* A worker is one PostgreSQL transaction running one request.  It locks   *)
(* the mutation id, finds the resource, locks its row, locks the paths in  *)
(* sorted order, checks what it read again, and commits every write at     *)
(* once.  Locks last until the transaction ends.  Any step may be the last *)
(* (crash, cancelled call, lost connection): the transaction rolls back,   *)
(* or, after the commit, only the answer is lost.  A client that saw no    *)
(* answer sends the same request again, perhaps while the first is still   *)
(* running.                                                                *)
(*                                                                         *)
(* A definition whose name ends in Slip belongs to no specification: it is *)
(* the form a plausible bug would give the definition that follows it.     *)
(***************************************************************************)
EXTENDS LedgerStore

CONSTANTS
    Workers,        \* transactions that may run at the same time
    MaxRevisions    \* bound: requests begin only while the ledger has room

ASSUME LedgerConstants == MaxRevisions \in Nat /\ IsFiniteSet(Workers)

VARIABLE
    tx              \* what each worker is doing

vars == <<resources, aliases, revisions, answers, tx>>

-----------------------------------------------------------------------------
(* A transaction: the locks it holds and the values it read on its way.    *)
Tx == [pc      : {"idle", "mutation", "resolve", "row", "paths", "check",
                  "publish", "reply"},
       request : Requests,
       target  : ResourceIds \cup {NoResource}, \* resource found, or to create
       seen    : Row,                           \* the row as locked
       reuse   : BOOLEAN,                       \* saw an alias at the path it takes
       outcome : Nat,                           \* the revision to answer with
       mutexes : SUBSET Mutations,              \* native-mutation advisory locks
       rows    : SUBSET ResourceIds,            \* FOR UPDATE row locks
       paths   : SUBSET Paths]                  \* native-path advisory locks

NoTx == [pc |-> "idle", request |-> CHOOSE q \in Requests : TRUE,
         target |-> NoResource, seen |-> NoRow, reuse |-> FALSE, outcome |-> 0,
         mutexes |-> {}, rows |-> {}, paths |-> {}]

Init ==
    /\ StoreInit
    /\ tx = [t \in Workers |-> NoTx]

Others(t) == Workers \ {t}

\* Takes the mutation lock for the session and not for the transaction.
EndSlip(t) == /\ tx' = [tx EXCEPT ![t] = [NoTx EXCEPT !.mutexes = tx[t].mutexes]]
              /\ UNCHANGED <<store, answers>>

\* Commit without writes, or roll back: every lock goes with the transaction.
End(t) == /\ tx' = [tx EXCEPT ![t] = NoTx]
          /\ UNCHANGED <<store, answers>>

InFlight == {t \in Workers : tx[t].pc # "idle"}

(* A client sends a request.  An expected revision is one it has read.  A  *)
(* create without a resource id mints a fresh one.                         *)
Begin(t, q) ==
    /\ tx[t].pc = "idle"
    /\ \/ Committed(q.mutation) # {}      \* a retry adds no revision
       \/ Len(revisions) + Cardinality(InFlight) < MaxRevisions
    /\ q.expected \in {0} \cup DOMAIN revisions
    /\ \E r \in ResourceIds \cup {NoResource} :
         /\ IF q.op = "create"
              THEN IF q.resource # NoResource THEN r = q.resource
                   ELSE /\ r # NoResource
                        /\ SurfaceOf[r] = q.surface
                        /\ resources[r].lifecycle = "absent"
                        /\ \A u \in Workers : tx[u].target # r
              ELSE r = IF q.op = "restore" THEN q.resource ELSE NoResource
         /\ tx' = [tx EXCEPT ![t].pc = "mutation", ![t].request = q, ![t].target = r]
    /\ UNCHANGED <<store, answers>>

MutexFree(t) == \A u \in Others(t) : tx[t].request.mutation \notin tx[u].mutexes

\* lock_mutation, then find_mutation finds nothing.
LockMutation(t) ==
    LET q == tx[t].request IN
    /\ tx[t].pc = "mutation"
    /\ MutexFree(t)
    /\ Committed(q.mutation) = {}
    /\ tx' = [tx EXCEPT ![t].mutexes = {q.mutation},
                        ![t].pc = CASE q.op = "create"  -> "paths"
                                    [] q.op = "restore" -> "row"
                                    [] OTHER            -> "resolve"]
    /\ UNCHANGED <<store, answers>>

\* Forgets to compare fingerprints.
ReplayMutationSlip(t) ==
    /\ tx[t].pc = "mutation"
    /\ MutexFree(t)
    /\ \E i \in Committed(tx[t].request.mutation) :
         tx' = [tx EXCEPT ![t] = [NoTx EXCEPT !.pc = "reply", !.outcome = i,
                                              !.request = tx[t].request]]
    /\ UNCHANGED <<store, answers>>

\* find_mutation finds the row of the same fingerprint: answer it again.
ReplayMutation(t) ==
    LET q == tx[t].request IN
    /\ tx[t].pc = "mutation"
    /\ MutexFree(t)
    /\ \E i \in Committed(q.mutation) :
         /\ Fingerprint(revisions[i].request) = Fingerprint(q)
         /\ tx' = [tx EXCEPT ![t] = [NoTx EXCEPT !.pc = "reply", !.request = q,
                                                 !.outcome = i]]
    /\ UNCHANGED <<store, answers>>

\* find_mutation finds a different fingerprint under the same key.
RejectReuse(t) ==
    LET q == tx[t].request IN
    /\ tx[t].pc = "mutation"
    /\ MutexFree(t)
    /\ \E i \in Committed(q.mutation) : Fingerprint(revisions[i].request) # Fingerprint(q)
    /\ End(t)

-----------------------------------------------------------------------------
(* _lock_live_reference, and the row lock that starts a restore.           *)
\* Ignores expected_resource_id.
ExpectedSlip(t, r) == TRUE

Expected(t, r) == tx[t].request.resource \in {NoResource, r}

Resolve(t) ==
    /\ tx[t].pc = "resolve"
    /\ \E r \in ResourceIds :
         /\ Resolves(tx[t].request, r)
         /\ Expected(t, r)
         /\ tx' = [tx EXCEPT ![t].target = r, ![t].pc = "row"]
    /\ UNCHANGED <<store, answers>>

RejectResolve(t) ==
    /\ tx[t].pc = "resolve"
    /\ ~\E r \in ResourceIds : Resolves(tx[t].request, r) /\ Expected(t, r)
    /\ End(t)

\* SELECT without FOR UPDATE.
RowFreeSlip(t) == TRUE

RowFree(t) == \A u \in Others(t) : tx[t].target \notin tx[u].rows

RowUsable(t) ==
    LET q == tx[t].request
        r == tx[t].target
    IN  IF q.op = "restore"
          THEN /\ SurfaceOf[r] = q.surface
               /\ resources[r].lifecycle = "deleted"
               /\ resources[r].path = q.reference
               /\ resources[r].head = q.expected
          ELSE IsLive(r)

LockRow(t) ==
    /\ tx[t].pc = "row"
    /\ RowFree(t)
    /\ RowUsable(t)
    /\ tx' = [tx EXCEPT ![t].rows = {tx[t].target},
                        ![t].seen = resources[tx[t].target],
                        ![t].pc = "paths"]
    /\ UNCHANGED <<store, answers>>

RejectRow(t) ==
    /\ tx[t].pc = "row"
    /\ RowFree(t)
    /\ ~RowUsable(t)
    /\ End(t)

\* The paths a transaction locks before it checks anything.
PathsNeeded(t) ==
    LET q == tx[t].request IN
    IF q.op \in {"create", "restore"} THEN {q.reference}
    ELSE ({q.reference, tx[t].seen.path, q.pathTo}) \ {NoPath}

\* Locks the paths in the order they come.
NextPathSlip(t, p) == p \in PathsNeeded(t) \ tx[t].paths

NextPath(t, p) ==
    /\ p \in PathsNeeded(t) \ tx[t].paths
    /\ \A o \in PathsNeeded(t) \ tx[t].paths : PathRank[p] <= PathRank[o]

\* No path lock; a path lock per surface.
PathFreeSlip(t, p) == TRUE
PathFreeSurfaceSlip(t, p) ==
    \A u \in Others(t) :
        tx[u].request.surface = tx[t].request.surface => p \notin tx[u].paths

PathFree(t, p) == \A u \in Others(t) : p \notin tx[u].paths

\* lock_paths takes one lock per statement, in sorted order.
LockPath(t) ==
    /\ tx[t].pc = "paths"
    /\ \E p \in Paths :
         /\ NextPath(t, p)
         /\ PathFree(t, p)
         /\ tx' = [tx EXCEPT ![t].paths = @ \cup {p},
                             ![t].pc = IF PathsNeeded(t) \subseteq tx[t].paths \cup {p}
                                         THEN "check" ELSE "paths"]
    /\ UNCHANGED <<store, answers>>

-----------------------------------------------------------------------------
(* What the transaction reads under its locks before it writes.            *)
Destination(t) ==
    IF tx[t].request.op = "move" THEN tx[t].request.pathTo
                                 ELSE tx[t].request.reference

TakesPath(t) == tx[t].request.op \in {"create", "move", "restore"}

\* Trusts the first resolution.
AdmissibleStaleSlip(t) ==
    LET q == tx[t].request
        r == tx[t].target
    IN  /\ q.op \in {"replace", "move", "delete"} => q.expected \in {0, tx[t].seen.head}
        /\ q.op = "move" =>
             /\ q.pathTo # tx[t].seen.path
             /\ Owners(q.pathTo) \subseteq {r}
             /\ \A a \in AliasesAt(q.pathTo) : a.resource = r
        /\ q.op \in {"create", "restore"} => Owners(q.reference) = {}

Admissible(t) ==
    LET q == tx[t].request
        r == tx[t].target
    IN  /\ q.op \in {"replace", "move", "delete"} =>
             /\ Resolves(q, r)
             /\ q.expected \in {0, tx[t].seen.head}
        /\ q.op = "move" =>
             /\ q.pathTo # tx[t].seen.path
             /\ Owners(q.pathTo) \subseteq {r}
             /\ \A a \in AliasesAt(q.pathTo) : a.resource = r
        /\ q.op \in {"create", "restore"} => Owners(q.reference) = {}

Check(t) ==
    /\ tx[t].pc = "check"
    /\ Admissible(t)
    /\ tx' = [tx EXCEPT ![t].reuse = TakesPath(t) /\ AliasesAt(Destination(t)) # {},
                        ![t].pc = "publish"]
    /\ UNCHANGED <<store, answers>>

RejectCheck(t) ==
    /\ tx[t].pc = "check"
    /\ ~Admissible(t)
    /\ End(t)

-----------------------------------------------------------------------------
(* The writes, all in one commit.                                          *)
NewPath(t) ==
    CASE TakesPath(t) -> Destination(t)
      [] OTHER        -> tx[t].seen.path

\* Deletes a resource but not its aliases; retires aliases of one surface only.
NewAliasesKeptSlip(t) ==
    LET kept == IF tx[t].reuse THEN aliases \ AliasesAt(Destination(t)) ELSE aliases
    IN  IF tx[t].request.op = "move"
          THEN kept \cup {[path |-> tx[t].seen.path, resource |-> tx[t].target]}
          ELSE kept
NewAliasesSurfaceSlip(t) ==
    LET gone == {a \in AliasesAt(Destination(t)) :
                   tx[t].reuse /\ SurfaceOf[a.resource] = tx[t].request.surface}
    IN  CASE tx[t].request.op = "move" ->
               (aliases \ gone) \cup {[path |-> tx[t].seen.path, resource |-> tx[t].target]}
          [] tx[t].request.op = "delete" ->
               {a \in aliases : a.resource # tx[t].target}
          [] OTHER -> aliases \ gone

\* retire_live_alias, insert_path_alias, retire_resource_aliases
NewAliases(t) ==
    LET kept == IF tx[t].reuse THEN aliases \ AliasesAt(Destination(t)) ELSE aliases
    IN  CASE tx[t].request.op = "move" ->
               kept \cup {[path |-> tx[t].seen.path, resource |-> tx[t].target]}
          [] tx[t].request.op = "delete" ->
               {a \in kept : a.resource # tx[t].target}
          [] OTHER -> kept

\* The unique indexes of migration 048 the writes would run into.
IdTaken(t) ==
    tx[t].request.op = "create" /\ resources[tx[t].target].lifecycle # "absent"

IndexViolated(t) ==
    \/ Committed(tx[t].request.mutation) # {}
    \/ TakesPath(t) /\ ~(Owners(Destination(t)) \subseteq {tx[t].target})
    \/ /\ tx[t].request.op = "move"
       /\ \E a \in AliasesAt(tx[t].seen.path) :
            ~(tx[t].reuse /\ a.path = Destination(t))

Commit(t, action, lifecycle) ==
    LET q == tx[t].request
        r == tx[t].target
        n == Len(revisions) + 1
    IN  /\ tx[t].pc = "publish"
        /\ ~IdTaken(t)
        /\ ~IndexViolated(t)
        /\ revisions' = Append(revisions,
               [resource |-> r, parent |-> tx[t].seen.head, action |-> action,
                path |-> NewPath(t), request |-> q])
        /\ resources' = [resources EXCEPT ![r] =
               [lifecycle |-> lifecycle, path |-> NewPath(t), head |-> n]]
        /\ aliases' = NewAliases(t)
        /\ tx' = [tx EXCEPT ![t] = [NoTx EXCEPT !.pc = "reply", !.request = q,
                                                !.outcome = n]]
        /\ UNCHANGED answers

PublishCreate(t)  == tx[t].request.op = "create"  /\ Commit(t, "create", "live")
PublishReplace(t) == tx[t].request.op = "replace" /\ Commit(t, "replace", "live")
PublishMove(t)    == tx[t].request.op = "move"    /\ Commit(t, "move", "live")
PublishDelete(t)  == tx[t].request.op = "delete"  /\ Commit(t, "delete", "deleted")
PublishRestore(t) == tx[t].request.op = "restore" /\ Commit(t, "replace", "live")

\* A unique violation rolls the transaction back and reaches the caller.
UniqueViolation(t) ==
    /\ tx[t].pc = "publish"
    /\ IdTaken(t) \/ IndexViolated(t)
    /\ End(t)

Deliver(t) ==
    /\ tx[t].pc = "reply"
    /\ answers' = answers \cup {[request |-> tx[t].request, revision |-> tx[t].outcome]}
    /\ tx' = [tx EXCEPT ![t] = NoTx]
    /\ UNCHANGED store

\* Crash, cancellation or a lost connection, before or after the commit.
Lose(t) == tx[t].pc # "idle" /\ End(t)

-----------------------------------------------------------------------------
Publish(t) ==
    \/ PublishCreate(t)
    \/ PublishReplace(t)
    \/ PublishMove(t)
    \/ PublishDelete(t)
    \/ PublishRestore(t)
    \/ UniqueViolation(t)

\* The steps that take a lock another transaction may hold.
Acquire(t) ==
    \/ LockMutation(t)
    \/ ReplayMutation(t)
    \/ RejectReuse(t)
    \/ LockRow(t)
    \/ RejectRow(t)
    \/ LockPath(t)

Proceed(t) ==
    \/ Resolve(t)
    \/ RejectResolve(t)
    \/ Check(t)
    \/ RejectCheck(t)
    \/ Publish(t)
    \/ Deliver(t)

Next ==
    \E t \in Workers :
        \/ \E q \in Requests : Begin(t, q)
        \/ Acquire(t)
        \/ Proceed(t)
        \/ Lose(t)

(* The database runs the statements it is sent, and grants heavyweight     *)
(* locks in the order they were asked for, so a lock that is freed again   *)
(* and again is granted in the end.  Nothing obliges a client to send or a *)
(* transaction to be lost.                                                 *)
Fairness == \A t \in Workers : SF_vars(Acquire(t)) /\ WF_vars(Proceed(t))

Spec == Init /\ [][Next]_vars /\ Fairness

-----------------------------------------------------------------------------
(* Every table and every transaction holds values of its types.            *)
TypeOK == StoreTypeOK /\ tx \in [Workers -> Tx]

(* The locks alone keep the writes legal.  What a transaction checked is   *)
(* still so when it writes: the unique indexes on the live path, the live  *)
(* alias and the mutation id are a net nothing falls into.                 *)
LocksSuffice == \A t \in Workers : tx[t].pc = "publish" => ~IndexViolated(t)

\* t asks for a lock u holds.
WaitsFor(t, u) ==
    CASE tx[t].pc = "mutation" -> tx[t].request.mutation \in tx[u].mutexes
      [] tx[t].pc = "row"      -> tx[t].target \in tx[u].rows
      [] tx[t].pc = "paths"    -> \E p \in tx[u].paths : NextPath(t, p)
      [] OTHER                 -> FALSE

(* No transactions wait for each other in a circle, whatever mix of aliases*)
(* and current paths they came by: the order mutation, row, sorted paths   *)
(* is one order for all five operations.                                   *)
NoWaitCycle ==
    \A S \in (SUBSET Workers) \ {{}} :
        \E t \in S : \A u \in S \ {t} : ~WaitsFor(t, u)

(* The transactions implement the store that does each request at once: at *)
(* the commit the reference still names the resource, the head is still    *)
(* the one expected, and the path taken is still free.                     *)
Promise == INSTANCE VersionedStore
             WITH resources <- resources, aliases <- aliases,
                  revisions <- revisions, answers <- answers
AtOnce == Promise!Spec

(* Every request sent is answered, refused or lost: no lock order and no   *)
(* retry leaves a transaction waiting for ever.                            *)
EveryRequestEnds ==
    \A t \in Workers : tx[t].pc # "idle" ~> tx[t].pc = "idle"
=============================================================================
