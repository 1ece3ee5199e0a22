------------------------- MODULE NativeLedgerProofs -------------------------
(* Theorems about NativeLedger, for any number of transactions, resources, *)
(* paths and requests.                                                     *)
EXTENDS NativeLedgerInv, FiniteSetTheorems, WellFoundedInduction, TLAPS

LEMMA NoTxType == NoTx \in Tx
BY StoreRequests DEF NoTx, Tx, NoRow, Row

(* Every table and every transaction keeps its types.                      *)
LEMMA TypeInit == Init => TypeOK
<1> SUFFICES ASSUME Init PROVE TypeOK
  OBVIOUS
<1>1. StoreTypeOK
  BY DEF Init, StoreInit, StoreTypeOK, NoRow, Row
<1>2. tx \in [Workers -> Tx]
  BY NoTxType DEF Init
<1> QED BY <1>1, <1>2 DEF TypeOK

\* What Next may do, with the writes of the five operations in one case.
Writes == {<<"create", "create", "live">>, <<"replace", "replace", "live">>,
           <<"move", "move", "live">>, <<"delete", "delete", "deleted">>,
           <<"restore", "replace", "live">>}

(* A request is well formed, and the paths it names are paths.             *)
LEMMA RequestFacts ==
    ASSUME TypeOK, NEW t \in Workers
    PROVE  /\ tx[t] \in Tx
           /\ tx[t].request \in Requests
           /\ tx[t].request \in Request
           /\ tx[t].request.op \in Operations
           /\ tx[t].request.mutation \in Mutations
           /\ tx[t].request.reference \in Paths
           /\ tx[t].request.op = "move" => tx[t].request.pathTo \in Paths
           /\ tx[t].request.op = "restore" => tx[t].request.resource \in ResourceIds
           /\ TakesPath(t) => Destination(t) \in Paths
<1>1. tx[t] \in Tx /\ tx[t].request \in Requests
  BY DEF TypeOK, Tx
<1>2. tx[t].request \in Request
  BY <1>1, StoreRequests
<1> QED BY <1>1, <1>2, StoreRequests DEF Request, TakesPath, Destination

(* A commit writes the row it read: it holds the row lock, or the row does *)
(* not exist yet.                                                          *)
LEMMA CommitFacts ==
    ASSUME LockInv, NEW t \in Workers, NEW action, NEW lifecycle,
           Commit(t, action, lifecycle),
           <<tx[t].request.op, action, lifecycle>> \in Writes
    PROVE  /\ tx[t].target \in ResourceIds
           /\ tx[t].seen = resources[tx[t].target]
           /\ tx[t].seen.head \in Nat
           /\ NewPath(t) \in Paths
           /\ NewPath(t) \in tx[t].paths
           /\ tx[t].request.op = "move" => tx[t].seen.path \in Paths \cap tx[t].paths
<1> USE RequestFacts
<1> DEFINE q == tx[t].request
           r == tx[t].target
<1>0. tx[t].pc = "publish" /\ TypeOK /\ Found(t) /\ Stable(t) /\ Holds(t) /\ ~IdTaken(t)
  BY DEF Commit, LockInv
<1>1. r \in ResourceIds
  BY <1>0 DEF Found, Mutating, RowLocked, UsesReference, Operations
<1>2. tx[t].seen = resources[r]
  BY <1>0, <1>1 DEF Found, Stable, RowLocked, Mutating, IdTaken, LockInv, RowsOK
<1>3. tx[t].seen.head \in Nat
  BY <1>0, <1>1, <1>2 DEF TypeOK, StoreTypeOK, Row
<1>4. UsesReference(t) => tx[t].seen.path \in Paths
  BY <1>0, <1>1, <1>2 DEF Found, RowLocked, RowsOK, LockInv
<1>5. NewPath(t) \in Paths
  BY <1>0, <1>4 DEF NewPath, TakesPath, UsesReference, Operations
<1>6. PathsNeeded(t) \subseteq tx[t].paths
  BY <1>0 DEF Holds, PathsLocked
<1>7. NewPath(t) \in PathsNeeded(t)
  BY <1>0, <1>5, StoreConstants
  DEF NewPath, PathsNeeded, TakesPath, Destination, UsesReference, Operations
<1>8. q.op = "move" => tx[t].seen.path \in Paths \cap PathsNeeded(t)
  BY <1>4, StoreConstants DEF PathsNeeded, UsesReference
<1> QED BY <1>1, <1>2, <1>3, <1>5, <1>6, <1>7, <1>8

(* What a step of a transaction makes of its record.                       *)
LEMMA TxTyped ==
    ASSUME TypeOK, NEW t \in Workers, NEW r \in Tx, tx' = [tx EXCEPT ![t] = r]
    PROVE  tx' \in [Workers -> Tx]
BY DEF TypeOK

LEMMA TypeStep == LockInv /\ [Next]_vars => TypeOK'
<1> SUFFICES ASSUME LockInv, [Next]_vars PROVE TypeOK'
  OBVIOUS
<1>0. TypeOK
  BY DEF LockInv
<1> USE <1>0 DEF TypeOK, StoreTypeOK
<1>1. ASSUME NEW t \in Workers, NEW q \in Requests, Begin(t, q) PROVE TypeOK'
  <2>1. PICK r \in ResourceIds \cup {NoResource} :
          tx' = [tx EXCEPT ![t].pc = "mutation", ![t].request = q, ![t].target = r]
    BY <1>1 DEF Begin
  <2>2. tx' \in [Workers -> Tx]
    <3> DEFINE s == [tx[t] EXCEPT !.pc = "mutation", !.request = q, !.target = r]
    <3>1. tx' = [tx EXCEPT ![t] = s]
      BY <2>1
    <3>2. tx[t] \in Tx
      OBVIOUS
    <3>3. s \in Tx
      BY <3>2 DEF Tx
    <3> HIDE DEF s
    <3> QED BY <1>0, <3>1, <3>3, TxTyped
  <2> QED BY <1>1, <2>2 DEF Begin, store
<1>2. ASSUME NEW t \in Workers, LockMutation(t) PROVE TypeOK'
  BY <1>2, StoreRequests DEF LockMutation, Tx, store, Request
<1>3. ASSUME NEW t \in Workers, ReplayMutation(t) PROVE TypeOK'
  <2>1. PICK i \in Committed(tx[t].request.mutation) :
          tx' = [tx EXCEPT ![t] = [NoTx EXCEPT !.pc = "reply",
                                     !.request = tx[t].request, !.outcome = i]]
    BY <1>3 DEF ReplayMutation
  <2>2. i \in Nat
    BY DEF Committed
  <2> QED BY <1>3, <2>1, <2>2, NoTxType DEF ReplayMutation, Tx, store
<1>4. ASSUME NEW t \in Workers, End(t) PROVE TypeOK'
  BY <1>4, NoTxType DEF End, store
<1>5. ASSUME NEW t \in Workers, Resolve(t) PROVE TypeOK'
  <2>1. PICK r \in ResourceIds :
          tx' = [tx EXCEPT ![t].target = r, ![t].pc = "row"]
    BY <1>5 DEF Resolve
  <2>2. tx' \in [Workers -> Tx]
    <3> DEFINE s == [tx[t] EXCEPT !.target = r, !.pc = "row"]
    <3>1. tx' = [tx EXCEPT ![t] = s]
      BY <2>1
    <3>2. tx[t] \in Tx
      OBVIOUS
    <3>3. s \in Tx
      BY <3>2 DEF Tx
    <3> HIDE DEF s
    <3> QED BY <1>0, <3>1, <3>3, TxTyped
  <2> QED BY <1>5, <2>2 DEF Resolve, store
<1>6. ASSUME NEW t \in Workers, LockRow(t) PROVE TypeOK'
  BY <1>6 DEF LockRow, Tx, store
<1>7. ASSUME NEW t \in Workers, LockPath(t) PROVE TypeOK'
  <2>1. PICK p \in Paths, c \in {"check", "paths"} :
          tx' = [tx EXCEPT ![t].paths = @ \cup {p}, ![t].pc = c]
    BY <1>7 DEF LockPath
  <2>2. tx' \in [Workers -> Tx]
    <3> DEFINE s == [tx[t] EXCEPT !.paths = @ \cup {p}, !.pc = c]
    <3>1. tx' = [tx EXCEPT ![t] = s]
      BY <2>1
    <3>2. tx[t] \in Tx
      OBVIOUS
    <3>3. s \in Tx
      BY <3>2 DEF Tx
    <3> HIDE DEF s
    <3> QED BY <1>0, <3>1, <3>3, TxTyped
  <2> QED BY <1>7, <2>2 DEF LockPath, store
<1>8. ASSUME NEW t \in Workers, Check(t) PROVE TypeOK'
  <2>1. PICK x \in BOOLEAN :
          tx' = [tx EXCEPT ![t].reuse = x, ![t].pc = "publish"]
    BY <1>8, Zenon DEF Check
  <2>2. tx' \in [Workers -> Tx]
    <3> DEFINE s == [tx[t] EXCEPT !.reuse = x, !.pc = "publish"]
    <3>1. tx' = [tx EXCEPT ![t] = s]
      BY <2>1
    <3>2. tx[t] \in Tx
      OBVIOUS
    <3>3. s \in Tx
      BY <3>2 DEF Tx
    <3> HIDE DEF s
    <3> QED BY <1>0, <3>1, <3>3, TxTyped
  <2> QED BY <1>8, <2>2 DEF Check, store
<1>9. ASSUME NEW t \in Workers, Deliver(t) PROVE TypeOK'
  <2>1. tx[t].request \in Requests /\ tx[t].outcome \in Nat
    BY DEF Tx
  <2> QED BY <1>9, <2>1, NoTxType DEF Deliver, store
<1>10. ASSUME NEW t \in Workers, NEW action, NEW lifecycle, Commit(t, action, lifecycle),
              <<tx[t].request.op, action, lifecycle>> \in Writes
       PROVE TypeOK'
  <2>1. /\ tx[t].target \in ResourceIds
        /\ tx[t].seen.head \in Nat
        /\ NewPath(t) \in Paths
        /\ tx[t].request.op = "move" => tx[t].seen.path \in Paths
    BY <1>10, CommitFacts
  <2>2. /\ action \in {"create", "replace", "move", "delete"}
        /\ lifecycle \in {"live", "deleted"}
    BY <1>10 DEF Writes
  <2>3. tx[t].request \in Requests /\ tx[t].request \in Request
    BY RequestFacts
  <2>4. Len(revisions) + 1 \in Nat
    OBVIOUS
  <2>5. revisions' \in Seq(Revision)
    <3>1. [resource |-> tx[t].target, parent |-> tx[t].seen.head, action |-> action,
           path |-> NewPath(t), request |-> tx[t].request] \in Revision
      BY <2>1, <2>2, <2>3 DEF Revision
    <3> QED BY <1>10, <3>1 DEF Commit
  <2>6. resources' \in [ResourceIds -> Row]
    <3>1. [lifecycle |-> lifecycle, path |-> NewPath(t), head |-> Len(revisions) + 1] \in Row
      BY <2>1, <2>2, <2>4 DEF Row
    <3> QED BY <1>10, <3>1 DEF Commit
  <2>7. aliases' \subseteq Alias
    BY <1>10, <2>1 DEF Commit, NewAliases, Alias
  <2>8. tx' \in [Workers -> Tx]
    BY <1>10, <2>3, <2>4, NoTxType DEF Commit, Tx
  <2> QED BY <1>10, <2>5, <2>6, <2>7, <2>8 DEF Commit
<1>11. CASE UNCHANGED vars
  BY <1>11 DEF vars, store
<1> QED
  BY <1>1, <1>2, <1>3, <1>4, <1>5, <1>6, <1>7, <1>8, <1>9, <1>10, <1>11
  DEF Writes, Next, Acquire, Proceed, Publish, Lose, RejectReuse, RejectResolve, RejectRow,
      RejectCheck, UniqueViolation, PublishCreate, PublishReplace, PublishMove,
      PublishDelete, PublishRestore

-----------------------------------------------------------------------------
(* What holds of one transaction still holds after a step that touches     *)
(* neither it nor the tables.                                              *)
Facts(t) == Holds(t) /\ Found(t) /\ Stable(t) /\ Replied(t)

LEMMA Frame ==
    ASSUME LockInv, NEW u \in Workers, tx'[u] = tx[u],
           resources' = resources, aliases' = aliases, revisions' = revisions
    PROVE  Facts(u)'
<1>0. Facts(u)
  BY DEF LockInv, Facts
<1>1. Holds(u)'
  BY <1>0 DEF Facts, Holds, PathsNeeded
<1>2. Found(u)'
  BY <1>0 DEF Facts, Found, UsesReference
<1>3. Stable(u)'
  BY <1>0 DEF Facts, Stable, UsesReference, TakesPath, Destination, Committed, Owners,
      IsLive, AliasesAt, Promise!Names, Promise!FreeFor, Promise!IsLive,
      Promise!Owners, Promise!AliasesAt
<1>4. Replied(u)'
  BY <1>0 DEF Facts, Replied
<1> QED BY <1>1, <1>2, <1>3, <1>4 DEF Facts

\* A commit of t, seen from another transaction u.
LEMMA CommitElsewhere ==
    ASSUME LockInv, NEW t \in Workers, NEW action, NEW lifecycle,
           Commit(t, action, lifecycle),
           <<tx[t].request.op, action, lifecycle>> \in Writes,
           NEW u \in Workers, u # t
    PROVE  Facts(u)'
<1> DEFINE q == tx[u].request
           r == tx[u].target
           w == tx[t].target
<1>0. TypeOK /\ Facts(u) /\ Facts(t) /\ tx'[u] = tx[u]
  BY DEF LockInv, Facts, Commit, TypeOK
<1>1. /\ w \in ResourceIds
      /\ NewPath(t) \in tx[t].paths
      /\ tx[t].request.op = "move" => tx[t].seen.path \in tx[t].paths
  BY CommitFacts
<1>2. Holds(u)' /\ Found(u)'
  BY <1>0 DEF Facts, Holds, Found, PathsNeeded, UsesReference
<1>3. Replied(u)'
  <2>1. \A i \in DOMAIN revisions : i \in DOMAIN revisions' /\ revisions'[i] = revisions[i]
    BY <1>0 DEF Commit, TypeOK, StoreTypeOK
  <2> QED BY <1>0, <2>1 DEF Facts, Replied
<1>4. ASSUME tx[u].pc \in Mutating PROVE Committed(q.mutation)' = {}
  <2>1. q.mutation # tx[t].request.mutation
    BY <1>0, <1>4 DEF Facts, Holds, Mutating, Commit, LockInv, Exclusive
  <2>2. Committed(q.mutation) = {}
    BY <1>0, <1>4 DEF Facts, Stable
  <2>3. \A i \in DOMAIN revisions' : i \notin DOMAIN revisions =>
          revisions'[i].request.mutation = tx[t].request.mutation
    BY <1>0 DEF Commit, TypeOK, StoreTypeOK
  <2>4. \A i \in DOMAIN revisions : revisions'[i] = revisions[i]
    BY <1>0 DEF Commit, TypeOK, StoreTypeOK
  <2> QED BY <1>0, <2>1, <2>2, <2>3, <2>4 DEF Committed
<1>5. ASSUME tx[u].pc \in RowLocked, q.op # "create"
      PROVE r # w /\ resources'[r] = resources[r]
  <2>1. tx[u].seen = resources[r] /\ r \in tx[u].rows
    BY <1>0, <1>5 DEF Facts, Stable, Holds
  <2>2. CASE tx[t].request.op = "create"
    <3>1. resources[w].lifecycle = "absent"
      BY <2>2 DEF Commit, IdTaken
    <3>2. tx[u].seen.lifecycle \in {"live", "deleted"}
      BY <1>0, <1>5, RequestFacts
      DEF Facts, Found, UsesReference, Operations
    <3>3. r # w
      BY <2>1, <3>1, <3>2
    <3> QED BY <1>0, <3>3 DEF Commit, TypeOK, StoreTypeOK
  <2>3. CASE tx[t].request.op # "create"
    <3>1. w \in tx[t].rows
      BY <1>0, <2>3 DEF Facts, Holds, Commit, RowLocked
    <3>2. r # w
      BY <2>1, <3>1 DEF LockInv, Exclusive
    <3> QED BY <1>0, <3>2 DEF Commit, TypeOK, StoreTypeOK
  <2> QED BY <2>2, <2>3
\* Nobody joins a path u holds, as an owner or as an alias.
<1>6. ASSUME NEW p \in tx[u].paths
      PROVE  Owners(p)' \subseteq Owners(p) /\ AliasesAt(p)' \subseteq AliasesAt(p)
  <2>1. p # NewPath(t) /\ (tx[t].request.op = "move" => p # tx[t].seen.path)
    BY <1>1 DEF LockInv, Exclusive
  <2>2. Owners(p)' \subseteq Owners(p)
    BY <1>0, <2>1 DEF Owners, IsLive, Commit, TypeOK, StoreTypeOK
  <2>3. AliasesAt(p)' \subseteq AliasesAt(p)
    BY <1>0, <2>1 DEF AliasesAt, Commit, NewAliases
  <2> QED BY <2>2, <2>3
\* Nor does an alias of the resource u works on leave it.
<1>7. ASSUME NEW p \in tx[u].paths, NEW a \in AliasesAt(p), a.resource = r, r # w
      PROVE  a \in AliasesAt(p)'
  <2>1. tx[t].reuse => p # Destination(t)
    BY <1>0, <1>1 DEF LockInv, Exclusive, NewPath, Facts, Stable, Commit
  <2> QED BY <1>7, <2>1 DEF AliasesAt, Commit, NewAliases
<1>8. ASSUME tx[u].pc = "publish" PROVE Stable(u)'
  <2>0. /\ Stable(u)
        /\ PathsNeeded(u) \subseteq tx[u].paths
        /\ q.op \in Operations
        /\ tx[u].pc \in Mutating \cap RowLocked \cap PathsLocked
    BY <1>0, <1>8, RequestFacts DEF Facts, Holds, Mutating, RowLocked, PathsLocked
  <2>1. q.reference \in tx[u].paths
    BY <1>0, <2>0, RequestFacts, StoreConstants DEF PathsNeeded
  <2>2. q.op = "move" => q.pathTo \in tx[u].paths
    BY <1>0, <2>0, RequestFacts, StoreConstants DEF PathsNeeded
  <2>3. TakesPath(u) => Destination(u) \in tx[u].paths
    BY <2>1, <2>2 DEF TakesPath, Destination
  <2>4. ASSUME UsesReference(u) PROVE Promise!Names(q, r)'
    <3>1. Promise!Names(q, r) /\ r # w /\ resources'[r] = resources[r]
      BY <1>5, <1>8, <2>0, <2>4 DEF Stable, UsesReference
    <3>2. \A a \in AliasesAt(q.reference) : a.resource = r => a \in AliasesAt(q.reference)'
      BY <1>0, <1>7, <2>1, <3>1 DEF AliasesAt
    <3> QED BY <1>0, <3>1, <3>2
            DEF Promise!Names, Promise!IsLive, Promise!AliasesAt, AliasesAt
  <2>5. ASSUME q.op = "move" PROVE Promise!FreeFor(q.pathTo, r)'
    <3>1. Promise!FreeFor(q.pathTo, r)
      BY <1>8, <2>0, <2>5 DEF Stable
    <3> QED BY <1>0, <1>6, <2>2, <2>5, <3>1
            DEF Promise!FreeFor, Promise!Owners, Promise!AliasesAt, Promise!IsLive,
                Owners, IsLive, AliasesAt
  <2>6. q.op \in {"create", "restore"} => Owners(q.reference)' = {}
    BY <1>0, <1>6, <1>8, <2>0, <2>1 DEF Stable, Owners, IsLive
  <2>7. TakesPath(u) => tx[u].reuse \/ AliasesAt(Destination(u))' = {}
    BY <1>0, <1>6, <1>8, <2>0, <2>3 DEF Stable, AliasesAt, Destination, TakesPath
  <2>8. q.op # "create" => tx[u].seen = resources'[r]
    BY <1>5, <2>0 DEF Stable
  <2> QED BY <1>0, <1>4, <1>8, <2>0, <2>4, <2>5, <2>6, <2>7, <2>8
          DEF Stable, UsesReference, TakesPath, Destination
<1>9. ASSUME tx[u].pc # "publish" PROVE Stable(u)'
  BY <1>0, <1>4, <1>5, <1>9 DEF Facts, Stable
<1> QED BY <1>2, <1>3, <1>8, <1>9 DEF Facts

-----------------------------------------------------------------------------
(* A step of t that writes no table keeps the invariant if it keeps what   *)
(* is said of t, and takes only locks nobody holds.                        *)
LEMMA Assemble ==
    ASSUME LockInv, TypeOK', NEW t \in Workers,
           \A u \in Workers \ {t} : tx'[u] = tx[u],
           resources' = resources, aliases' = aliases, revisions' = revisions,
           Facts(t)',
           \A u \in Workers \ {t} :
              /\ tx'[t].mutexes \cap tx[u].mutexes = {}
              /\ tx'[t].rows \cap tx[u].rows = {}
              /\ tx'[t].paths \cap tx[u].paths = {}
    PROVE  LockInv'
<1>1. RowsOK'
  BY DEF LockInv, RowsOK
<1>2. Exclusive'
  <2>1. \A u, v \in Workers \ {t} : u # v =>
          /\ tx'[u].mutexes \cap tx'[v].mutexes = {}
          /\ tx'[u].rows \cap tx'[v].rows = {}
          /\ tx'[u].paths \cap tx'[v].paths = {}
    BY DEF LockInv, Exclusive
  <2> QED BY <2>1 DEF Exclusive
<1>3. \A u \in Workers : Facts(u)'
  BY Frame
<1> QED BY <1>1, <1>2, <1>3 DEF LockInv, Facts

LEMMA LockInvStep == LockInv /\ [Next]_vars => LockInv'
<1> SUFFICES ASSUME LockInv, [Next]_vars PROVE LockInv'
  OBVIOUS
<1>0. TypeOK /\ TypeOK'
  BY TypeStep DEF LockInv
<1> USE <1>0
<1>a. \A t, u \in Workers : t # u =>
        /\ tx[t].mutexes \cap tx[u].mutexes = {}
        /\ tx[t].rows \cap tx[u].rows = {}
        /\ tx[t].paths \cap tx[u].paths = {}
  BY DEF LockInv, Exclusive
<1>b. tx \in [Workers -> Tx]
  BY DEF TypeOK
<1>c. \A t \in Workers : Facts(t)
  BY DEF LockInv, Facts
<1>1. ASSUME NEW t \in Workers, NEW q \in Requests, Begin(t, q) PROVE LockInv'
  <2>1. PICK r \in ResourceIds \cup {NoResource} :
          /\ IF q.op = "create"
              THEN IF q.resource # NoResource THEN r = q.resource
                   ELSE /\ r # NoResource
                        /\ SurfaceOf[r] = q.surface
                        /\ resources[r].lifecycle = "absent"
                        /\ \A u \in Workers : tx[u].target # r
              ELSE r = IF q.op = "restore" THEN q.resource ELSE NoResource
          /\ tx' = [tx EXCEPT ![t].pc = "mutation", ![t].request = q, ![t].target = r]
    BY <1>1 DEF Begin
  <2>2. tx[t] = NoTx
    BY <1>1, <1>c DEF Facts, Found, Begin
  <2>3. /\ \A u \in Workers \ {t} : tx'[u] = tx[u]
        /\ tx'[t] = [NoTx EXCEPT !.pc = "mutation", !.request = q, !.target = r]
    BY <1>b, <2>1, <2>2
  <2>4. tx'[t].pc = "mutation" /\ tx'[t].request = q /\ tx'[t].target = r
        /\ tx'[t].seen = NoRow /\ tx'[t].mutexes = {} /\ tx'[t].rows = {}
        /\ tx'[t].paths = {}
    BY <2>3 DEF NoTx
  <2>5. Found(t)'
    BY <2>1, <2>4, StoreRequests DEF Found, Mutating, RowLocked, Request, UsesReference
  <2>6. Facts(t)'
    BY <2>4, <2>5 DEF Facts, Holds, Stable, Replied, Mutating, RowLocked, PathsLocked
  <2> QED BY <1>1, <1>a, <2>3, <2>4, <2>6, Assemble DEF Begin, store
<1>2. ASSUME NEW t \in Workers, LockMutation(t) PROVE LockInv'
  <2>1. /\ \A u \in Workers \ {t} : tx'[u] = tx[u]
        /\ tx'[t].pc = CASE tx[t].request.op = "create"  -> "paths"
                         [] tx[t].request.op = "restore" -> "row"
                         [] OTHER            -> "resolve"
        /\ tx'[t].request = tx[t].request /\ tx'[t].target = tx[t].target
        /\ tx'[t].seen = tx[t].seen /\ tx'[t].rows = tx[t].rows
        /\ tx'[t].paths = tx[t].paths /\ tx'[t].mutexes = {tx[t].request.mutation}
    BY <1>2, <1>b DEF LockMutation, Tx
  <2>2. /\ tx[t].pc = "mutation" /\ Facts(t) /\ tx[t].request.op \in Operations
        /\ revisions' = revisions /\ resources' = resources /\ aliases' = aliases
        /\ Committed(tx[t].request.mutation) = {}
        /\ \A u \in Workers \ {t} : tx[t].request.mutation \notin tx[u].mutexes
    BY <1>2, <1>c, RequestFacts DEF LockMutation, store, MutexFree, Others
  <2>3. tx'[t].pc \in {"paths", "row", "resolve"}
    BY <2>1
  <2>4. Holds(t)'
    BY <2>1, <2>2, <2>3 DEF Holds, Mutating, RowLocked, PathsLocked
  <2>5. Found(t)'
    BY <2>1, <2>2 DEF Facts, Found, Mutating, RowLocked, UsesReference, Operations
  <2>6. Stable(t)'
    BY <2>1, <2>2 DEF Stable, Mutating, RowLocked, Committed
  <2>7. Replied(t)'
    BY <2>3 DEF Replied
  <2> QED BY <1>a, <2>1, <2>2, <2>4, <2>5, <2>6, <2>7, Assemble DEF Facts
<1>3. ASSUME NEW t \in Workers, ReplayMutation(t) PROVE LockInv'
  <2>1. PICK i \in Committed(tx[t].request.mutation) :
          /\ Fingerprint(revisions[i].request) = Fingerprint(tx[t].request)
          /\ tx' = [tx EXCEPT ![t] = [NoTx EXCEPT !.pc = "reply",
                                     !.request = tx[t].request, !.outcome = i]]
    BY <1>3 DEF ReplayMutation
  <2>2. /\ \A u \in Workers \ {t} : tx'[u] = tx[u]
        /\ tx'[t].pc = "reply" /\ tx'[t].request = tx[t].request /\ tx'[t].outcome = i
        /\ tx'[t].mutexes = {} /\ tx'[t].rows = {} /\ tx'[t].paths = {}
    BY <1>b, <2>1 DEF NoTx
  <2>3. revisions' = revisions /\ resources' = resources /\ aliases' = aliases
    BY <1>3 DEF ReplayMutation, store
  <2>4. Replied(t)'
    BY <2>1, <2>2, <2>3 DEF Replied, Committed
  <2>5. Facts(t)'
    BY <2>2, <2>4 DEF Facts, Holds, Found, Stable, Mutating, RowLocked, PathsLocked
  <2> QED BY <1>a, <2>2, <2>3, <2>5, Assemble
<1>4. ASSUME NEW t \in Workers, End(t) PROVE LockInv'
  <2>1. tx'[t] = NoTx /\ \A u \in Workers \ {t} : tx'[u] = tx[u]
    BY <1>4, <1>b DEF End
  <2>2. Facts(t)'
    BY <2>1 DEF Facts, Holds, Found, Stable, Replied, NoTx, Mutating, RowLocked, PathsLocked
  <2> QED BY <1>4, <1>a, <2>1, <2>2, Assemble DEF End, store, NoTx
<1>5. ASSUME NEW t \in Workers, Resolve(t) PROVE LockInv'
  <2>1. PICK r \in ResourceIds :
          /\ Expected(t, r)
          /\ tx' = [tx EXCEPT ![t].target = r, ![t].pc = "row"]
    BY <1>5 DEF Resolve
  <2>2. /\ \A u \in Workers \ {t} : tx'[u] = tx[u]
        /\ tx'[t].pc = "row" /\ tx'[t].request = tx[t].request /\ tx'[t].target = r
        /\ tx'[t].mutexes = tx[t].mutexes /\ tx'[t].rows = tx[t].rows
        /\ tx'[t].paths = tx[t].paths
    BY <1>b, <2>1 DEF Tx
  <2>3. /\ tx[t].pc = "resolve" /\ Facts(t)
        /\ revisions' = revisions /\ resources' = resources /\ aliases' = aliases
    BY <1>5, <1>c DEF Resolve, store
  <2>4. Holds(t)'
    BY <2>2, <2>3 DEF Facts, Holds, Mutating, RowLocked, PathsLocked
  <2>5. Found(t)'
    BY <2>1, <2>2, <2>3 DEF Facts, Found, Mutating, RowLocked, UsesReference, Expected
  <2>6. Stable(t)' /\ Replied(t)'
    BY <2>2, <2>3 DEF Facts, Stable, Replied, Mutating, RowLocked, Committed
  <2> QED BY <1>a, <2>2, <2>3, <2>4, <2>5, <2>6, Assemble DEF Facts
<1>6. ASSUME NEW t \in Workers, LockRow(t) PROVE LockInv'
  <2>1. /\ \A u \in Workers \ {t} : tx'[u] = tx[u]
        /\ tx'[t].pc = "paths" /\ tx'[t].request = tx[t].request
        /\ tx'[t].target = tx[t].target /\ tx'[t].seen = resources[tx[t].target]
        /\ tx'[t].mutexes = tx[t].mutexes /\ tx'[t].rows = {tx[t].target}
        /\ tx'[t].paths = tx[t].paths
    BY <1>6, <1>b DEF LockRow, Tx
  <2>2. /\ tx[t].pc = "row" /\ Facts(t) /\ RowUsable(t)
        /\ tx[t].request.op \in Operations
        /\ revisions' = revisions /\ resources' = resources /\ aliases' = aliases
        /\ \A u \in Workers \ {t} : tx[t].target \notin tx[u].rows
    BY <1>6, <1>c, RequestFacts DEF LockRow, store, RowFree, Others
  <2>3. Holds(t)'
    BY <2>1, <2>2 DEF Facts, Holds, Mutating, RowLocked, PathsLocked
  <2>4. Found(t)'
    BY <2>1, <2>2
    DEF Facts, Found, Mutating, RowLocked, UsesReference, RowUsable, IsLive, Operations
  <2>5. Stable(t)' /\ Replied(t)'
    BY <2>1, <2>2 DEF Facts, Stable, Replied, Mutating, RowLocked, Committed
  <2> QED BY <1>a, <2>1, <2>2, <2>3, <2>4, <2>5, Assemble DEF Facts
<1>7. ASSUME NEW t \in Workers, LockPath(t) PROVE LockInv'
  <2>1. PICK p \in Paths :
          /\ PathFree(t, p)
          /\ tx' = [tx EXCEPT ![t].paths = @ \cup {p},
                              ![t].pc = IF PathsNeeded(t) \subseteq tx[t].paths \cup {p}
                                          THEN "check" ELSE "paths"]
    BY <1>7 DEF LockPath
  <2>2. /\ \A u \in Workers \ {t} : tx'[u] = tx[u]
        /\ tx'[t].pc = IF PathsNeeded(t) \subseteq tx[t].paths \cup {p}
                        THEN "check" ELSE "paths"
        /\ tx'[t].request = tx[t].request /\ tx'[t].target = tx[t].target
        /\ tx'[t].seen = tx[t].seen
        /\ tx'[t].mutexes = tx[t].mutexes /\ tx'[t].rows = tx[t].rows
        /\ tx'[t].paths = tx[t].paths \cup {p}
    BY <1>b, <2>1 DEF Tx
  <2>3. /\ tx[t].pc = "paths" /\ Facts(t)
        /\ revisions' = revisions /\ resources' = resources /\ aliases' = aliases
        /\ \A u \in Workers \ {t} : p \notin tx[u].paths
    BY <1>7, <1>c, <2>1 DEF LockPath, store, PathFree, Others
  <2>4. tx'[t].pc \in {"paths", "check"}
    BY <2>2
  <2>5. Holds(t)'
    BY <2>2, <2>3 DEF Facts, Holds, Mutating, RowLocked, PathsLocked, PathsNeeded
  <2>6. Found(t)'
    BY <2>2, <2>3, <2>4 DEF Facts, Found, Mutating, RowLocked, UsesReference
  <2>7. Stable(t)' /\ Replied(t)'
    BY <2>2, <2>3, <2>4 DEF Facts, Stable, Replied, Mutating, RowLocked, Committed
  <2> QED BY <1>a, <2>2, <2>3, <2>5, <2>6, <2>7, Assemble DEF Facts
<1>8. ASSUME NEW t \in Workers, Check(t) PROVE LockInv'
  <2>1. /\ \A u \in Workers \ {t} : tx'[u] = tx[u]
        /\ tx'[t].pc = "publish" /\ tx'[t].request = tx[t].request
        /\ tx'[t].target = tx[t].target /\ tx'[t].seen = tx[t].seen
        /\ tx'[t].mutexes = tx[t].mutexes /\ tx'[t].rows = tx[t].rows
        /\ tx'[t].paths = tx[t].paths
        /\ tx'[t].reuse <=> TakesPath(t) /\ AliasesAt(Destination(t)) # {}
    BY <1>8, <1>b DEF Check, Tx
  <2>2. /\ tx[t].pc = "check" /\ Facts(t) /\ Admissible(t)
        /\ tx[t].request.op \in Operations
        /\ revisions' = revisions /\ resources' = resources /\ aliases' = aliases
    BY <1>8, <1>c, RequestFacts DEF Check, store
  <2>3. Holds(t)'
    BY <2>1, <2>2 DEF Facts, Holds, Mutating, RowLocked, PathsLocked, PathsNeeded
  <2>4. Found(t)'
    BY <2>1, <2>2 DEF Facts, Found, Mutating, RowLocked, UsesReference
  <2>5. Stable(t)'
    <3> DEFINE q == tx[t].request
               r == tx[t].target
    <3>1. /\ Committed(q.mutation) = {}
          /\ q.op # "create" => tx[t].seen = resources[r]
          /\ UsesReference(t) => r \in ResourceIds
      BY <2>2 DEF Facts, Stable, Found, Mutating, RowLocked
    <3>2. UsesReference(t) => Promise!Names(q, r) /\ q.expected \in {0, tx[t].seen.head}
      <4>1. ASSUME UsesReference(t) PROVE Candidates(q) = {r}
        BY <2>2, <4>1 DEF Admissible, Resolves, UsesReference
      <4>2. ASSUME r \in Candidates(q) PROVE Promise!Names(q, r)
        BY <4>2 DEF Candidates, Promise!Names, Promise!IsLive, Promise!AliasesAt,
                    Owners, IsLive, AliasesAt
      <4> QED BY <2>2, <4>1, <4>2 DEF Admissible, UsesReference
    <3>3. q.op = "move" => q.pathTo # tx[t].seen.path /\ Promise!FreeFor(q.pathTo, r)
      BY <2>2 DEF Admissible, Promise!FreeFor, Promise!Owners, Promise!AliasesAt,
                  Promise!IsLive, Owners, IsLive, AliasesAt
    <3>4. q.op \in {"create", "restore"} => Owners(q.reference) = {}
      BY <2>2 DEF Admissible
    <3> HIDE DEF q, r
    <3> QED BY <2>1, <2>2, <3>1, <3>2, <3>3, <3>4
            DEF q, r, Stable, Mutating, RowLocked, Committed, UsesReference, TakesPath,
                Destination, Owners, IsLive, AliasesAt, Promise!Names, Promise!FreeFor,
                Promise!IsLive, Promise!Owners, Promise!AliasesAt
  <2>6. Replied(t)'
    BY <2>1 DEF Replied
  <2> QED BY <1>a, <2>1, <2>2, <2>3, <2>4, <2>5, <2>6, Assemble DEF Facts
<1>9. ASSUME NEW t \in Workers, Deliver(t) PROVE LockInv'
  <2>1. tx'[t] = NoTx /\ \A u \in Workers \ {t} : tx'[u] = tx[u]
    BY <1>9, <1>b DEF Deliver
  <2>2. Facts(t)'
    BY <2>1 DEF Facts, Holds, Found, Stable, Replied, NoTx, Mutating, RowLocked, PathsLocked
  <2> QED BY <1>9, <1>a, <2>1, <2>2, Assemble DEF Deliver, store, NoTx
<1>10. ASSUME NEW t \in Workers, NEW action, NEW lifecycle, Commit(t, action, lifecycle),
              <<tx[t].request.op, action, lifecycle>> \in Writes
       PROVE LockInv'
  <2>1. /\ \A u \in Workers \ {t} : tx'[u] = tx[u]
        /\ tx'[t].pc = "reply" /\ tx'[t].request = tx[t].request
        /\ tx'[t].outcome = Len(revisions) + 1
        /\ tx'[t].mutexes = {} /\ tx'[t].rows = {} /\ tx'[t].paths = {}
    BY <1>10, <1>b DEF Commit, NoTx
  <2>2. Replied(t)'
    <3>1. /\ Len(revisions) + 1 \in DOMAIN revisions'
          /\ revisions'[Len(revisions) + 1].request = tx[t].request
      BY <1>10 DEF Commit, TypeOK, StoreTypeOK
    <3> QED BY <2>1, <3>1 DEF Replied
  <2>3. Facts(t)'
    BY <2>1, <2>2 DEF Facts, Holds, Found, Stable, Mutating, RowLocked, PathsLocked
  <2>4. \A u \in Workers : Facts(u)'
    BY <1>10, <2>3, CommitElsewhere
  <2>5. Exclusive'
    BY <1>a, <2>1 DEF Exclusive
  <2>6. RowsOK'
    <3>1. tx[t].target \in ResourceIds /\ NewPath(t) \in Paths
      BY <1>10, CommitFacts
    <3>2. lifecycle # "absent"
      BY <1>10 DEF Writes
    <3> QED BY <1>10, <3>1, <3>2 DEF Commit, RowsOK, LockInv, TypeOK, StoreTypeOK
  <2> QED BY <2>4, <2>5, <2>6 DEF LockInv, Facts
<1>11. CASE UNCHANGED vars
  <2>1. \A t \in Workers : Facts(t)'
    BY <1>11, Frame DEF vars
  <2> QED BY <1>11, <2>1 DEF vars, LockInv, Facts, RowsOK, Exclusive
<1> QED
  BY <1>1, <1>2, <1>3, <1>4, <1>5, <1>6, <1>7, <1>8, <1>9, <1>10, <1>11
  DEF Writes, Next, Acquire, Proceed, Publish, Lose, RejectReuse, RejectResolve, RejectRow,
      RejectCheck, UniqueViolation, PublishCreate, PublishReplace, PublishMove,
      PublishDelete, PublishRestore

LEMMA LockInvInit == Init => LockInv
<1> SUFFICES ASSUME Init PROVE LockInv
  OBVIOUS
<1>1. TypeOK
  BY TypeInit
<1>2. \A t \in Workers : tx[t] = NoTx
  BY DEF Init
<1>3. RowsOK
  BY DEF Init, StoreInit, RowsOK, NoRow
<1>4. Exclusive
  <2>1. NoTx.mutexes = {} /\ NoTx.rows = {} /\ NoTx.paths = {}
    BY DEF NoTx
  <2> QED BY <1>2, <2>1 DEF Exclusive
<1>5. \A t \in Workers : Holds(t) /\ Found(t) /\ Stable(t) /\ Replied(t)
  BY <1>2 DEF Holds, Found, Stable, Replied, NoTx, Mutating, RowLocked, PathsLocked
<1> QED BY <1>1, <1>3, <1>4, <1>5 DEF LockInv

(* The locking protocol keeps what transactions read true until they       *)
(* commit: _lock_live_reference, lock_mutation and lock_paths.             *)
THEOREM LockInvariant == Spec => []LockInv
<1>1. Init => LockInv
  BY LockInvInit
<1>2. LockInv /\ [Next]_vars => LockInv'
  BY LockInvStep
<1> QED BY <1>1, <1>2, PTL DEF Spec

(* Every table and every transaction keeps its types.                      *)
THEOREM TypesHold == Spec => []TypeOK
<1>1. LockInv => TypeOK
  BY DEF LockInv
<1> QED BY <1>1, LockInvariant, PTL

-----------------------------------------------------------------------------
(* Each commit is a step of the promised store, taken at that instant.     *)
LEMMA CommitRefines ==
    ASSUME LockInv, NEW t \in Workers, NEW action, NEW lifecycle,
           Commit(t, action, lifecycle),
           <<tx[t].request.op, action, lifecycle>> \in Writes
    PROVE  Promise!Next
<1> DEFINE q == tx[t].request
           r == tx[t].target
<1>0. /\ TypeOK /\ Facts(t) /\ tx[t].pc = "publish"
      /\ q \in Requests /\ q.op \in Operations
      /\ r \in ResourceIds /\ tx[t].seen = resources[r]
  BY CommitFacts, RequestFacts DEF LockInv, Facts, Commit
<1>1. Stable(t) /\ Found(t)
  BY <1>0 DEF Facts
<1>2. Promise!Record(q, r, action, lifecycle, NewPath(t))
  <2>1. Committed(q.mutation) = {}
    BY <1>0, <1>1 DEF Stable, Mutating
  <2> QED BY <1>0, <2>1 DEF Commit, Promise!Record, Promise!Committed, Committed
<1>3. CASE q.op = "create"
  <2>1. resources[r].lifecycle = "absent"
    BY <1>3 DEF Commit, IdTaken
  <2>2. /\ q.resource \in {NoResource, r} /\ SurfaceOf[r] = q.surface
        /\ Owners(q.reference) = {} /\ NewPath(t) = q.reference
        /\ tx[t].reuse \/ AliasesAt(q.reference) = {}
    BY <1>0, <1>1, <1>3 DEF Found, Stable, Mutating, NewPath, TakesPath, Destination
  <2>3. aliases' = aliases \ AliasesAt(q.reference)
    BY <1>3, <2>2 DEF Commit, NewAliases, Destination
  <2>4. action = "create" /\ lifecycle = "live"
    BY <1>3 DEF Writes
  <2>5. Promise!Create(q, r)
    BY <1>2, <1>3, <2>1, <2>2, <2>3, <2>4
    DEF Promise!Create, Promise!Owners, Promise!IsLive, Promise!AliasesAt,
        Owners, IsLive, AliasesAt
  <2> QED BY <1>0, <2>5 DEF Promise!Next, Promise!Step
<1>4. CASE q.op = "restore"
  <2>1. /\ r = q.resource /\ SurfaceOf[r] = q.surface
        /\ resources[r].lifecycle = "deleted"
        /\ resources[r].path = q.reference /\ resources[r].head = q.expected
        /\ Owners(q.reference) = {} /\ NewPath(t) = q.reference
        /\ tx[t].reuse \/ AliasesAt(q.reference) = {}
    BY <1>0, <1>1, <1>4
    DEF Found, Stable, Mutating, RowLocked, NewPath, TakesPath, Destination
  <2>2. aliases' = aliases \ AliasesAt(q.reference)
    BY <1>4, <2>1 DEF Commit, NewAliases, Destination
  <2>3. action = "replace" /\ lifecycle = "live"
    BY <1>4 DEF Writes
  <2>4. Promise!Restore(q, r)
    BY <1>2, <1>4, <2>1, <2>2, <2>3
    DEF Promise!Restore, Promise!Owners, Promise!IsLive, Promise!AliasesAt,
        Owners, IsLive, AliasesAt
  <2> QED BY <1>0, <2>4 DEF Promise!Next, Promise!Step
<1>5. ASSUME UsesReference(t) PROVE Promise!Current(q, r)
  BY <1>0, <1>1, <1>5 DEF Found, Stable, RowLocked, UsesReference, Promise!Current
<1>6. CASE q.op = "replace"
  <2>1. /\ aliases' = aliases /\ NewPath(t) = resources[r].path
        /\ action = "replace" /\ lifecycle = "live"
    BY <1>0, <1>1, <1>6 DEF Stable, Commit, NewAliases, NewPath, TakesPath, Writes
  <2>2. Promise!Replace(q, r)
    BY <1>2, <1>5, <1>6, <2>1 DEF Promise!Replace, UsesReference
  <2> QED BY <1>0, <2>2 DEF Promise!Next, Promise!Step
<1>7. CASE q.op = "delete"
  <2>1. /\ NewPath(t) = resources[r].path /\ ~tx[t].reuse
        /\ action = "delete" /\ lifecycle = "deleted"
    BY <1>0, <1>1, <1>7 DEF Stable, NewPath, TakesPath, Writes
  <2>2. aliases' = {a \in aliases : a.resource # r}
    BY <1>7, <2>1 DEF Commit, NewAliases
  <2>3. Promise!Delete(q, r)
    BY <1>2, <1>5, <1>7, <2>1, <2>2 DEF Promise!Delete, UsesReference
  <2> QED BY <1>0, <2>3 DEF Promise!Next, Promise!Step
<1>8. CASE q.op = "move"
  <2>1. /\ NewPath(t) = q.pathTo
        /\ tx[t].reuse \/ AliasesAt(q.pathTo) = {}
        /\ q.pathTo # resources[r].path /\ Promise!FreeFor(q.pathTo, r)
        /\ action = "move" /\ lifecycle = "live"
    BY <1>0, <1>1, <1>8 DEF Stable, NewPath, TakesPath, Destination, Writes
  <2>2. aliases' = (aliases \ AliasesAt(q.pathTo))
                     \cup {[path |-> resources[r].path, resource |-> r]}
    BY <1>0, <1>8, <2>1 DEF Commit, NewAliases, Destination
  <2>3. Promise!Move(q, r)
    BY <1>2, <1>5, <1>8, <2>1, <2>2
    DEF Promise!Move, UsesReference, Promise!AliasesAt, AliasesAt
  <2> QED BY <1>0, <2>3 DEF Promise!Next, Promise!Step
<1> QED BY <1>0, <1>3, <1>4, <1>6, <1>7, <1>8 DEF Operations

LEMMA FingerprintKey ==
    ASSUME NEW q \in Request, NEW p \in Request, Fingerprint(q) = Fingerprint(p)
    PROVE  q.mutation = p.mutation
BY DEF Fingerprint, Request

(* Each response names what its request committed.                         *)
LEMMA DeliverRefines ==
    ASSUME LockInv, NEW t \in Workers, Deliver(t)
    PROVE  Promise!Next
<1>1. /\ tx[t].outcome \in DOMAIN revisions
      /\ Fingerprint(revisions[tx[t].outcome].request) = Fingerprint(tx[t].request)
      /\ tx[t].request \in Requests
  BY RequestFacts DEF LockInv, Replied, Deliver
<1>2. revisions[tx[t].outcome].request.mutation = tx[t].request.mutation
  <2>1. revisions[tx[t].outcome].request \in Request
    <3>1. revisions \in Seq(Revision)
      BY DEF LockInv, TypeOK, StoreTypeOK
    <3>2. revisions[tx[t].outcome] \in Revision
      BY <1>1, <3>1
    <3> QED BY <3>2 DEF Revision
  <2> QED BY <1>1, <2>1, RequestFacts, FingerprintKey DEF LockInv
<1>3. Promise!Answer(tx[t].request)
  BY <1>1, <1>2 DEF Promise!Answer, Promise!Committed, Promise!Fingerprint, Fingerprint,
                    Deliver, store, Promise!store
<1> QED BY <1>1, <1>3 DEF Promise!Next, Promise!Step

LEMMA StepRefines ==
    LockInv /\ [Next]_vars => [Promise!Next]_<<Promise!store, answers>>
<1> SUFFICES ASSUME LockInv, [Next]_vars
             PROVE  Promise!Next \/ UNCHANGED <<Promise!store, answers>>
  OBVIOUS
<1> USE DEF store, Promise!store
<1>1. ASSUME NEW t \in Workers, NEW q \in Requests, Begin(t, q)
      PROVE UNCHANGED <<Promise!store, answers>>
  BY <1>1 DEF Begin
<1>2. ASSUME NEW t \in Workers,
             LockMutation(t) \/ ReplayMutation(t) \/ Resolve(t) \/ LockRow(t)
               \/ LockPath(t) \/ Check(t)
      PROVE UNCHANGED <<Promise!store, answers>>
  BY <1>2 DEF LockMutation, ReplayMutation, Resolve, LockRow, LockPath, Check
<1>3. ASSUME NEW t \in Workers, End(t) PROVE UNCHANGED <<Promise!store, answers>>
  BY <1>3 DEF End
<1>4. ASSUME NEW t \in Workers, Deliver(t) PROVE Promise!Next
  BY <1>4, DeliverRefines
<1>5. ASSUME NEW t \in Workers, NEW action, NEW lifecycle, Commit(t, action, lifecycle),
              <<tx[t].request.op, action, lifecycle>> \in Writes
      PROVE Promise!Next
  BY <1>5, CommitRefines
<1>6. CASE UNCHANGED vars
  BY <1>6 DEF vars
<1> QED
  BY <1>1, <1>2, <1>3, <1>4, <1>5, <1>6
  DEF Writes, Next, Acquire, Proceed, Publish, Lose, RejectReuse, RejectResolve, RejectRow,
      RejectCheck, UniqueViolation, PublishCreate, PublishReplace, PublishMove,
      PublishDelete, PublishRestore

(* The interleaved transactions implement the store in which each request  *)
(* happens at once, on the resource its reference then names.              *)
THEOREM Implements == Spec => AtOnce
<1>1. Init => Promise!Init
  BY DEF Init, StoreInit, Promise!Init, Promise!StoreInit, NoRow, Promise!NoRow
<1>2. LockInv /\ [Next]_vars => [Promise!Next]_<<Promise!store, answers>>
  BY StepRefines
<1> QED BY <1>1, <1>2, LockInvariant, PTL DEF Spec, AtOnce, Promise!Spec

-----------------------------------------------------------------------------
(* What the promised store keeps, the transactions keep.                   *)
StoreStep == [Promise!Next]_<<Promise!store, answers>>

LEMMA IdentityStep == TypeOK /\ RowsOK /\ PathIdentity /\ StoreStep => PathIdentity'
<1> SUFFICES ASSUME TypeOK, RowsOK, PathIdentity, StoreStep PROVE PathIdentity'
  OBVIOUS
<1> USE DEF Promise!Owners, Promise!IsLive, Promise!AliasesAt, Promise!Record
<1>0. /\ resources \in [ResourceIds -> Row]
      /\ \A r, s \in ResourceIds :
           IsLive(r) /\ IsLive(s) /\ resources[r].path = resources[s].path => r = s
      /\ \A a, b \in aliases : a.path = b.path => a.resource = b.resource
      /\ \A a \in aliases : a \in Alias /\ IsLive(a.resource) /\ Owners(a.path) = {}
  BY DEF TypeOK, StoreTypeOK, PathIdentity
\* A resource comes to live at a path nobody lives at, and its alias goes.
<1>1. ASSUME NEW r \in ResourceIds, NEW p \in Paths, NEW n,
             Owners(p) = {}, ~IsLive(r),
             resources' = [resources EXCEPT ![r] =
                             [lifecycle |-> "live", path |-> p, head |-> n]],
             aliases' = aliases \ AliasesAt(p)
      PROVE  PathIdentity'
  <2>1. \A s \in ResourceIds \ {r} : resources'[s] = resources[s]
    BY <1>0, <1>1
  <2>2. resources'[r].lifecycle = "live" /\ resources'[r].path = p
    BY <1>0, <1>1
  <2>3. \A s \in ResourceIds : IsLive(s) => resources[s].path # p
    BY <1>1 DEF Owners
  <2>4. \A a \in aliases' : a \in aliases /\ a.path # p /\ a.resource \in ResourceIds
    BY <1>0, <1>1 DEF AliasesAt, Alias
  <2>5. \A a \in aliases' : IsLive(a.resource)' /\ Owners(a.path)' = {}
    BY <1>0, <1>1, <2>1, <2>2, <2>4 DEF Owners, IsLive
  <2>6. \A s1, s2 \in ResourceIds :
          IsLive(s1)' /\ IsLive(s2)' /\ resources'[s1].path = resources'[s2].path => s1 = s2
    BY <1>0, <2>1, <2>2, <2>3 DEF IsLive
  <2> QED BY <1>0, <2>4, <2>5, <2>6 DEF PathIdentity
<1>2. ASSUME NEW q \in Requests, NEW r \in ResourceIds,
             Promise!Create(q, r) \/ Promise!Restore(q, r)
      PROVE  PathIdentity'
  <2>1. /\ Owners(q.reference) = {} /\ ~IsLive(r)
        /\ \E n : resources' = [resources EXCEPT ![r] =
                    [lifecycle |-> "live", path |-> q.reference, head |-> n]]
        /\ aliases' = aliases \ AliasesAt(q.reference)
    BY <1>2 DEF Promise!Create, Promise!Restore, Owners, IsLive, AliasesAt
  <2>2. q.reference \in Paths
    BY StoreRequests DEF Request
  <2> QED BY <1>1, <2>1, <2>2
<1>3. ASSUME NEW q \in Requests, NEW r \in ResourceIds, Promise!Replace(q, r)
      PROVE  PathIdentity'
  <2>1. /\ aliases' = aliases
        /\ \A s \in ResourceIds : resources'[s].lifecycle = resources[s].lifecycle
        /\ \A s \in ResourceIds : resources'[s].path = resources[s].path
    <3>1. IsLive(r) /\ aliases' = aliases
      BY <1>3 DEF Promise!Replace, Promise!Current, Promise!Names, IsLive
    <3>2. \E n : resources' = [resources EXCEPT ![r] =
                    [lifecycle |-> "live", path |-> resources[r].path, head |-> n]]
      BY <1>3 DEF Promise!Replace
    <3> QED BY <1>0, <3>1, <3>2 DEF IsLive
  <2> QED BY <1>0, <2>1 DEF PathIdentity, Owners, IsLive, Alias
<1>4. ASSUME NEW q \in Requests, NEW r \in ResourceIds, Promise!Move(q, r)
      PROVE  PathIdentity'
  <2> DEFINE old == resources[r].path
             new == q.pathTo
  <2>1. /\ IsLive(r) /\ new # old /\ new \in Paths /\ old \in Paths
    BY <1>0, <1>4, StoreRequests
       DEF Promise!Move, Promise!Current, Promise!Names, Promise!FreeFor, IsLive,
           Request, RowsOK
  <2>2. /\ \A s \in ResourceIds \ {r} : resources'[s] = resources[s]
        /\ resources'[r].lifecycle = "live" /\ resources'[r].path = new
    BY <1>0, <1>4 DEF Promise!Move
  <2>3. \A s \in ResourceIds : IsLive(s) => resources[s].path # new
    BY <1>4, <2>1 DEF Promise!Move, Promise!FreeFor, IsLive
  <2>4. \A a \in aliases : a.path # old
    BY <1>0, <2>1 DEF Owners
  <2>5. \A a \in aliases' :
          \/ a \in aliases /\ a.path # new
          \/ a.path = old /\ a.resource = r
    BY <1>4 DEF Promise!Move
  <2>6. \A s1, s2 \in ResourceIds :
          IsLive(s1)' /\ IsLive(s2)' /\ resources'[s1].path = resources'[s2].path => s1 = s2
    BY <1>0, <2>2, <2>3 DEF IsLive
  <2>7. \A a, b \in aliases' : a.path = b.path => a.resource = b.resource
    BY <1>0, <2>4, <2>5
  <2>8. ASSUME NEW a \in aliases' PROVE IsLive(a.resource)' /\ Owners(a.path)' = {}
    <3>1. a.resource \in ResourceIds
      BY <1>0, <2>5 DEF Alias
    <3>2. IsLive(a.resource) /\ a.path # new
      BY <1>0, <2>1, <2>5
    <3>3. \A s \in ResourceIds \ {r} : IsLive(s) => resources[s].path # a.path
      BY <1>0, <2>1, <2>5 DEF Owners
    <3> QED BY <2>2, <3>1, <3>2, <3>3 DEF IsLive, Owners
  <2> QED BY <2>6, <2>7, <2>8 DEF PathIdentity
<1>5. ASSUME NEW q \in Requests, NEW r \in ResourceIds, Promise!Delete(q, r)
      PROVE  PathIdentity'
  <2>1. /\ aliases' = {a \in aliases : a.resource # r}
        /\ \A s \in ResourceIds \ {r} : resources'[s] = resources[s]
        /\ resources'[r].lifecycle = "deleted"
    BY <1>0, <1>5 DEF Promise!Delete
  <2> QED BY <1>0, <2>1 DEF PathIdentity, Owners, IsLive, Alias
<1>6. CASE UNCHANGED store
  BY <1>6 DEF store, PathIdentity, Owners, IsLive
<1>7. ASSUME NEW q \in Requests, Promise!Answer(q) PROVE UNCHANGED store
  BY <1>7 DEF Promise!Answer, store, Promise!store
<1> QED BY <1>2, <1>3, <1>4, <1>5, <1>6, <1>7
        DEF StoreStep, Promise!Next, Promise!Step, store, Promise!store

(* A path names at most one thing, across documents, files and the old     *)
(* paths moves left behind.                                                *)
THEOREM PathsIdentify == Spec => []PathIdentity
<1>1. Init => PathIdentity
  BY DEF Init, StoreInit, PathIdentity, IsLive, NoRow
<1>2. LockInv => TypeOK /\ RowsOK
  BY DEF LockInv
<1>3. LockInv /\ [Next]_vars => StoreStep
  BY StepRefines DEF StoreStep
<1>4. LockInv /\ PathIdentity /\ [Next]_vars => PathIdentity'
  BY <1>2, <1>3, IdentityStep
<1> QED BY <1>1, <1>4, LockInvariant, PTL DEF Spec

(* No write of a transaction that passed its checks meets a unique index:  *)
(* the locks and the second look are enough, and no caller is refused for  *)
(* a race it could not see.                                                *)
THEOREM LocksAreEnough == Spec => []LocksSuffice
<1>1. ASSUME LockInv, PathIdentity PROVE LocksSuffice
  <2> SUFFICES ASSUME NEW t \in Workers, tx[t].pc = "publish" PROVE ~IndexViolated(t)
    BY DEF LocksSuffice
  <2> DEFINE q == tx[t].request
             r == tx[t].target
  <2>1. Stable(t) /\ Found(t) /\ TypeOK /\ q.op \in Operations
    BY <1>1, RequestFacts DEF LockInv
  <2>2. Committed(q.mutation) = {}
    BY <2>1 DEF Stable, Mutating
  <2>3. TakesPath(t) => Owners(Destination(t)) \subseteq {r}
    BY <2>1 DEF Stable, TakesPath, Destination, Promise!FreeFor, Promise!Owners,
                Promise!IsLive, Owners, IsLive
  <2>4. q.op = "move" => AliasesAt(tx[t].seen.path) = {}
    <3> SUFFICES ASSUME q.op = "move" PROVE AliasesAt(tx[t].seen.path) = {}
      OBVIOUS
    <3>1. r \in ResourceIds /\ tx[t].seen = resources[r] /\ IsLive(r)
      BY <2>1 DEF Found, Stable, RowLocked, UsesReference, IsLive
    <3>2. r \in Owners(tx[t].seen.path)
      BY <3>1 DEF Owners
    <3> QED BY <1>1, <3>2 DEF PathIdentity, AliasesAt
  <2> QED BY <2>2, <2>3, <2>4 DEF IndexViolated
<1> QED BY <1>1, LockInvariant, PathsIdentify, PTL

-----------------------------------------------------------------------------
(* The ledger only grows, and each delivered answer stays true.            *)
LEMMA AnswersStep == TypeOK /\ AnswersTrue /\ StoreStep => AnswersTrue'
<1> SUFFICES ASSUME TypeOK, AnswersTrue, StoreStep PROVE AnswersTrue'
  OBVIOUS
<1>0. revisions \in Seq(Revision)
  BY DEF TypeOK, StoreTypeOK
<1>1. ASSUME NEW q \in Requests, NEW r \in ResourceIds, NEW action, NEW lifecycle, NEW path,
             Promise!Record(q, r, action, lifecycle, path)
      PROVE  AnswersTrue'
  <2> DEFINE n == Len(revisions) + 1
  <2>1. /\ answers' = answers
        /\ \A i \in DOMAIN revisions : revisions[i].request.mutation # q.mutation
    BY <1>1 DEF Promise!Record, Promise!Committed
  <2>2. /\ DOMAIN revisions' = DOMAIN revisions \cup {n} /\ n \notin DOMAIN revisions
        /\ \A i \in DOMAIN revisions : revisions'[i] = revisions[i]
        /\ revisions'[n].request = q
    <3> DEFINE new == [resource |-> r, parent |-> resources[r].head, action |-> action,
                       path |-> path, request |-> q]
    <3>1. revisions' = Append(revisions, new)
      BY <1>1 DEF Promise!Record
    <3>2. new.request = q
      OBVIOUS
    <3> HIDE DEF new
    <3> QED BY <1>0, <3>1, <3>2
  <2> HIDE DEF n
  <2> QED BY <2>1, <2>2 DEF AnswersTrue
<1>2. ASSUME NEW q \in Requests, Promise!Answer(q) PROVE AnswersTrue'
  BY <1>2 DEF Promise!Answer, Promise!Committed, Promise!Fingerprint, Fingerprint,
              Promise!store, AnswersTrue
<1>3. CASE UNCHANGED <<Promise!store, answers>>
  BY <1>3 DEF Promise!store, AnswersTrue
<1> QED BY <1>1, <1>2, <1>3
        DEF StoreStep, Promise!Next, Promise!Step, Promise!Create, Promise!Replace,
            Promise!Move, Promise!Delete, Promise!Restore

(* A key commits once, and every answer names what its request committed.  *)
THEOREM AnswersHold == Spec => []AnswersTrue
<1>1. Init => AnswersTrue
  BY DEF Init, StoreInit, AnswersTrue
<1>2. LockInv => TypeOK
  BY DEF LockInv
<1>3. LockInv /\ AnswersTrue /\ [Next]_vars => AnswersTrue'
  BY <1>2, StepRefines, AnswersStep DEF StoreStep
<1> QED BY <1>1, <1>3, LockInvariant, PTL DEF Spec

-----------------------------------------------------------------------------
\* LinearHistory, resource by resource and revision by revision.
Mine(r) == {i \in DOMAIN revisions : revisions[i].resource = r}

Follows(r, i) ==
    IF revisions[i].action = "create"
      THEN revisions[i].parent = 0 /\ \A j \in Mine(r) : i <= j
      ELSE /\ revisions[i].parent \in Mine(r)
           /\ revisions[i].parent < i
           /\ \A j \in Mine(r) : j < i => j <= revisions[i].parent
           /\ revisions[revisions[i].parent].action = "delete"
                <=> revisions[i].request.op = "restore"

HeadOK(r) ==
    /\ resources[r].head \in Mine(r) \cup {0}
    /\ \A i \in Mine(r) : i <= resources[r].head
    /\ resources[r].lifecycle = "absent" <=> Mine(r) = {}
    /\ Mine(r) # {} =>
         /\ resources[r].head # 0
         /\ resources[r].path = revisions[resources[r].head].path
         /\ resources[r].lifecycle = "deleted"
              <=> revisions[resources[r].head].action = "delete"

Line == \A r \in ResourceIds : HeadOK(r) /\ \A i \in Mine(r) : Follows(r, i)

LEMMA LineIsHistory == LinearHistory <=> Line
BY DEF LinearHistory, Line, HeadOK, Follows, Mine

\* A revision written on top of the head extends the line of its resource
\* and leaves the others alone.
LEMMA LineGrows ==
    ASSUME TypeOK, Line, NEW q \in Requests, NEW r \in ResourceIds, NEW path,
           NEW action, NEW lifecycle, <<q.op, action, lifecycle>> \in Writes,
           Promise!Record(q, r, action, lifecycle, path),
           q.op = "create" <=> resources[r].lifecycle = "absent",
           q.op = "restore" <=> resources[r].lifecycle = "deleted"
    PROVE  Line'
<1> SUFFICES ASSUME NEW n, n = Len(revisions) + 1 PROVE Line'
  OBVIOUS
<1> DEFINE new == [resource |-> r, parent |-> resources[r].head, action |-> action,
                   path |-> path, request |-> q]
<1>1. /\ revisions \in Seq(Revision)
      /\ revisions' = Append(revisions, new)
      /\ resources \in [ResourceIds -> Row]
      /\ resources' = [resources EXCEPT ![r] =
                         [lifecycle |-> lifecycle, path |-> path, head |-> n]]
  BY DEF TypeOK, StoreTypeOK, Promise!Record
<1>2. /\ DOMAIN revisions \subseteq Nat
      /\ \A i \in DOMAIN revisions : i < n
      /\ DOMAIN revisions' = DOMAIN revisions \cup {n} /\ n \in Nat /\ n # 0
      /\ \A i \in DOMAIN revisions : revisions'[i] = revisions[i]
      /\ revisions'[n] = new
  <2> HIDE DEF new
  <2> QED BY <1>1
<1>3. /\ \A s \in ResourceIds \ {r} : resources'[s] = resources[s]
      /\ resources'[r] = [lifecycle |-> lifecycle, path |-> path, head |-> n]
  BY <1>1
<1>4. /\ \A s \in ResourceIds \ {r} : Mine(s)' = Mine(s)
      /\ Mine(r)' = Mine(r) \cup {n}
  BY <1>2 DEF Mine
<1>5. /\ new.resource = r /\ new.parent = resources[r].head /\ new.action = action
      /\ new.path = path /\ new.request = q
  OBVIOUS
<1>6. /\ \A s \in ResourceIds : Mine(s) \subseteq DOMAIN revisions
      /\ n \notin DOMAIN revisions
  BY <1>2 DEF Mine
<1> HIDE DEF new
<1>7. ASSUME NEW s \in ResourceIds \ {r} PROVE HeadOK(s)' /\ \A i \in Mine(s)' : Follows(s, i)'
  <2>1. HeadOK(s) /\ \A i \in Mine(s) : Follows(s, i)
    BY DEF Line
  <2>2. HeadOK(s)'
    BY <1>2, <1>3, <1>4, <1>6, <2>1 DEF HeadOK
  <2>3. \A i \in Mine(s)' : Follows(s, i)'
    BY <1>2, <1>4, <1>6, <2>1 DEF Follows
  <2> QED BY <2>2, <2>3
<1>8. HeadOK(r)'
  <2>1. lifecycle \in {"live", "deleted"} /\ (lifecycle = "deleted" <=> action = "delete")
    BY DEF Writes
  <2> QED BY <1>2, <1>3, <1>4, <1>5, <1>6, <2>1 DEF HeadOK
<1>9. ASSUME NEW i \in Mine(r) PROVE Follows(r, i)'
  <2>1. Follows(r, i) /\ i \in DOMAIN revisions /\ i < n
    BY <1>2, <1>6 DEF Line
  <2> QED BY <1>2, <1>4, <1>6, <2>1 DEF Follows
<1>10. Follows(r, n)'
  <2>1. HeadOK(r) /\ (action = "create" <=> q.op = "create")
    BY DEF Line, Writes
  <2>2. CASE action = "create"
    <3>1. Mine(r) = {} /\ resources[r].head = 0
      BY <2>1, <2>2 DEF HeadOK
    <3> QED BY <1>2, <1>4, <1>5, <2>2, <3>1 DEF Follows
  <2>3. CASE action # "create"
    <3>1. /\ resources[r].head \in Mine(r) /\ resources[r].head < n
          /\ \A j \in Mine(r) : j <= resources[r].head
          /\ resources[r].lifecycle = "deleted"
               <=> revisions[resources[r].head].action = "delete"
      BY <1>2, <1>6, <2>1, <2>3 DEF HeadOK
    <3> QED BY <1>2, <1>4, <1>5, <1>6, <2>3, <3>1 DEF Follows
  <2> QED BY <2>2, <2>3
<1> QED BY <1>4, <1>7, <1>8, <1>9, <1>10 DEF Line

LEMMA LineStep == TypeOK /\ Line /\ StoreStep => Line'
<1> SUFFICES ASSUME TypeOK, Line, StoreStep PROVE Line'
  OBVIOUS
<1>1. ASSUME NEW q \in Requests, NEW r \in ResourceIds,
             \/ Promise!Create(q, r) \/ Promise!Replace(q, r) \/ Promise!Move(q, r)
             \/ Promise!Delete(q, r) \/ Promise!Restore(q, r)
      PROVE  Line'
  <2>1. PICK action, lifecycle, path :
          /\ Promise!Record(q, r, action, lifecycle, path)
          /\ <<q.op, action, lifecycle>> \in Writes
    BY <1>1 DEF Promise!Create, Promise!Replace, Promise!Move, Promise!Delete,
                Promise!Restore, Writes
  <2>2. /\ q.op = "create" <=> resources[r].lifecycle = "absent"
        /\ q.op = "restore" <=> resources[r].lifecycle = "deleted"
    BY <1>1 DEF Promise!Create, Promise!Replace, Promise!Move, Promise!Delete,
                Promise!Restore, Promise!Current, Promise!Names, Promise!IsLive
  <2> QED BY <2>1, <2>2, LineGrows
<1>2. CASE UNCHANGED Promise!store
  BY <1>2 DEF Promise!store, Line, HeadOK, Follows, Mine
<1> QED BY <1>1, <1>2
        DEF StoreStep, Promise!Next, Promise!Step, Promise!Answer, Promise!store

(* No revision is forked, lost or written on a head that moved: the ledger *)
(* of each resource is one line from its create to its head.               *)
THEOREM HistoryIsLinear == Spec => []LinearHistory
<1>1. Init => Line
  BY DEF Init, StoreInit, Line, HeadOK, Mine, NoRow
<1>2. LockInv => TypeOK
  BY DEF LockInv
<1>3. LockInv /\ Line /\ [Next]_vars => Line'
  BY <1>2, StepRefines, LineStep DEF StoreStep
<1> QED BY <1>1, <1>3, LockInvariant, LineIsHistory, PTL DEF Spec

-----------------------------------------------------------------------------
(* Of some natural numbers there is a least.                               *)
LEMMA Least ==
    ASSUME NEW T, T \subseteq Nat, T # {}
    PROVE  \E n \in T : \A m \in T : n <= m
<1>1. PICK n \in T : \A m \in T : ~(<<m, n>> \in OpToRel(<, Nat))
  <2>1. IsWellFoundedOn(OpToRel(<, Nat), Nat)
    BY NatLessThanWellFounded
  <2> QED BY <2>1, WFMin
<1>2. \A m \in T : ~(m < n)
  BY <1>1 DEF OpToRel
<1> QED BY <1>2

(* Of finitely many ranked things there is a highest.                      *)
LEMMA Highest ==
    ASSUME NEW S, IsFiniteSet(S), S # {}, NEW rank \in [S -> Nat]
    PROVE  \E s \in S : \A u \in S : rank[u] <= rank[s]
<1> DEFINE Above(s) == {u \in S : rank[u] > rank[s]}
           T == {Cardinality(Above(s)) : s \in S}
<1>1. \A s \in S : IsFiniteSet(Above(s)) /\ Cardinality(Above(s)) \in Nat
  BY FS_Subset, FS_CardinalityType
<1>2. PICK n \in T : \A m \in T : n <= m
  <2>1. T \subseteq Nat /\ T # {}
    BY <1>1
  <2> HIDE DEF T
  <2> QED BY <2>1, Least
<1>3. PICK s \in S : n = Cardinality(Above(s))
  BY <1>2
<1>4. ASSUME NEW u \in S, rank[u] > rank[s] PROVE FALSE
  <2>1. Above(u) \subseteq Above(s) /\ u \in Above(s) /\ u \notin Above(u)
    BY <1>4
  <2>2. Cardinality(Above(s)) <= Cardinality(Above(u))
    BY <1>2, <1>3
  <2>3. Above(u) # Above(s)
    BY <2>1
  <2> HIDE DEF Above
  <2> QED BY <1>1, <2>1, <2>2, <2>3, FS_Subset
<1> QED BY <1>4

-----------------------------------------------------------------------------
(* Every transaction asks for its locks in the one order.                  *)
LEMMA WaitInvStep == WaitInv /\ [Next]_vars => WaitInv'
<1> SUFFICES ASSUME WaitInv, [Next]_vars PROVE \A t \in Workers : Orderly(t)'
  BY LockInvStep DEF WaitInv
<1>a. tx \in [Workers -> Tx] /\ \A t \in Workers : Orderly(t) /\ Found(t)
  BY DEF WaitInv, LockInv, TypeOK
<1>b. ASSUME NEW u \in Workers, tx'[u] = tx[u] PROVE Orderly(u)'
  BY <1>a, <1>b DEF Orderly, PathsNeeded
<1>c. ASSUME NEW t \in Workers, \A u \in Workers \ {t} : tx'[u] = tx[u], Orderly(t)'
      PROVE  \A u \in Workers : Orderly(u)'
  BY <1>a, <1>b, <1>c
<1>1. ASSUME NEW t \in Workers, NEW q \in Requests, Begin(t, q)
      PROVE  \A u \in Workers : Orderly(u)'
  <2>1. PICK r : tx' = [tx EXCEPT ![t].pc = "mutation", ![t].request = q, ![t].target = r]
    BY <1>1 DEF Begin
  <2>2. tx[t] = NoTx
    BY <1>1, <1>a DEF Found, Begin
  <2>3. /\ tx'[t] = [NoTx EXCEPT !.pc = "mutation", !.request = q, !.target = r]
        /\ \A u \in Workers \ {t} : tx'[u] = tx[u]
    BY <1>a, <2>1, <2>2
  <2>4. /\ tx'[t].pc = "mutation" /\ tx'[t].mutexes = {} /\ tx'[t].rows = {}
        /\ tx'[t].paths = {}
    BY <2>3 DEF NoTx
  <2>5. Orderly(t)'
    BY <2>4 DEF Orderly
  <2> QED BY <1>c, <2>3, <2>5
<1>2. ASSUME NEW t \in Workers, LockMutation(t) PROVE \A u \in Workers : Orderly(u)'
  <2>1. /\ tx[t].pc = "mutation" /\ tx'[t].pc \in {"paths", "row", "resolve"}
        /\ tx'[t].rows = tx[t].rows /\ tx'[t].paths = tx[t].paths
        /\ \A u \in Workers \ {t} : tx'[u] = tx[u]
    BY <1>2, <1>a DEF LockMutation, Tx
  <2>2. Orderly(t)'
    BY <1>a, <2>1 DEF Orderly
  <2> QED BY <1>c, <2>1, <2>2
<1>3. ASSUME NEW t \in Workers, End(t) \/ ReplayMutation(t) \/ Deliver(t)
      PROVE  \A u \in Workers : Orderly(u)'
  <2>1. \A u \in Workers \ {t} : tx'[u] = tx[u]
    BY <1>3, <1>a DEF End, ReplayMutation, Deliver
  <2>2. tx'[t].pc \in {"idle", "reply"}
    <3>1. CASE End(t) \/ Deliver(t)
      BY <3>1, <1>a DEF End, Deliver, NoTx
    <3>2. CASE ReplayMutation(t)
      <4>1. PICK i : tx' = [tx EXCEPT ![t] = [NoTx EXCEPT !.pc = "reply",
                              !.request = tx[t].request, !.outcome = i]]
        BY <3>2 DEF ReplayMutation
      <4> QED BY <1>a, <4>1 DEF NoTx
    <3> QED BY <1>3, <3>1, <3>2
  <2>3. Orderly(t)'
    BY <2>2 DEF Orderly
  <2> QED BY <1>c, <2>1, <2>3
<1>4. ASSUME NEW t \in Workers, Resolve(t) PROVE \A u \in Workers : Orderly(u)'
  <2>1. /\ tx[t].pc = "resolve" /\ tx'[t].pc = "row"
        /\ tx'[t].rows = tx[t].rows /\ tx'[t].paths = tx[t].paths
        /\ \A u \in Workers \ {t} : tx'[u] = tx[u]
    BY <1>4, <1>a DEF Resolve, Tx
  <2>2. Orderly(t)'
    BY <1>a, <2>1 DEF Orderly
  <2> QED BY <1>c, <2>1, <2>2
<1>5. ASSUME NEW t \in Workers, LockRow(t) PROVE \A u \in Workers : Orderly(u)'
  <2>1. /\ tx[t].pc = "row" /\ tx'[t].pc = "paths" /\ tx'[t].paths = tx[t].paths
        /\ \A u \in Workers \ {t} : tx'[u] = tx[u]
    BY <1>5, <1>a DEF LockRow, Tx
  <2>2. Orderly(t)'
    BY <1>a, <2>1 DEF Orderly
  <2> QED BY <1>c, <2>1, <2>2
<1>6. ASSUME NEW t \in Workers, LockPath(t) PROVE \A u \in Workers : Orderly(u)'
  <2>1. PICK p \in Paths :
          /\ NextPath(t, p)
          /\ tx' = [tx EXCEPT ![t].paths = @ \cup {p},
                              ![t].pc = IF PathsNeeded(t) \subseteq tx[t].paths \cup {p}
                                          THEN "check" ELSE "paths"]
    BY <1>6 DEF LockPath
  <2>2. /\ tx'[t].paths = tx[t].paths \cup {p} /\ tx'[t].pc \in {"check", "paths"}
        /\ PathsNeeded(t)' = PathsNeeded(t)
        /\ \A u \in Workers \ {t} : tx'[u] = tx[u]
    BY <1>a, <2>1 DEF Tx, PathsNeeded
  <2>3. /\ tx[t].paths \subseteq PathsNeeded(t) /\ p \in PathsNeeded(t)
        /\ \A h \in tx[t].paths, o \in PathsNeeded(t) \ tx[t].paths : PathRank[h] < PathRank[o]
    BY <1>a, <1>6, <2>1 DEF Orderly, LockPath, NextPath
  <2>4. PathsNeeded(t) \subseteq Paths
    BY <1>a, RequestFacts DEF PathsNeeded, WaitInv, LockInv, Tx, Row, Request, Operations
  <2>5. \A o \in PathsNeeded(t) \ (tx[t].paths \cup {p}) : PathRank[p] < PathRank[o]
    BY <2>1, <2>4, StoreConstants DEF NextPath
  <2>6. Orderly(t)'
    BY <2>2, <2>3, <2>5 DEF Orderly
  <2> QED BY <1>c, <2>2, <2>6
<1>7. ASSUME NEW t \in Workers, Check(t) PROVE \A u \in Workers : Orderly(u)'
  <2>1. tx'[t].pc = "publish" /\ \A u \in Workers \ {t} : tx'[u] = tx[u]
    BY <1>7, <1>a DEF Check, Tx
  <2>2. Orderly(t)'
    BY <2>1 DEF Orderly
  <2> QED BY <1>c, <2>1, <2>2
<1>8. ASSUME NEW t \in Workers, NEW action, NEW lifecycle, Commit(t, action, lifecycle)
      PROVE  \A u \in Workers : Orderly(u)'
  <2>1. tx'[t].pc = "reply" /\ \A u \in Workers \ {t} : tx'[u] = tx[u]
    BY <1>8, <1>a DEF Commit, NoTx
  <2>2. Orderly(t)'
    BY <2>1 DEF Orderly
  <2> QED BY <1>c, <2>1, <2>2
<1>9. CASE UNCHANGED vars
  BY <1>9, <1>b DEF vars
<1> QED
  BY <1>1, <1>2, <1>3, <1>4, <1>5, <1>6, <1>7, <1>8, <1>9
  DEF Next, Acquire, Proceed, Publish, Lose, RejectReuse, RejectResolve, RejectRow,
      RejectCheck, UniqueViolation, PublishCreate, PublishReplace, PublishMove,
      PublishDelete, PublishRestore

(* Somebody in every group waits for nobody in it: of those at their paths *)
(* the one who wants the highest path, for the others hold lower ones;     *)
(* without such, one at a row, for whoever holds a row has come to its     *)
(* paths; without such, anyone, for a mutation id is held past its lock.   *)
LEMMA NobodyCircles == WaitInv => NoWaitCycle
<1> SUFFICES ASSUME WaitInv, NEW S \in (SUBSET Workers) \ {{}}
             PROVE  \E t \in S : \A u \in S \ {t} : ~WaitsFor(t, u)
  BY Zenon DEF NoWaitCycle
<1>0. S \subseteq Workers /\ S # {}
  OBVIOUS
<1>a. TypeOK /\ \A t \in Workers : Orderly(t) /\ Holds(t) /\ tx[t] \in Tx
  BY DEF WaitInv, LockInv, TypeOK
<1>b. \A t, u \in Workers : t # u => tx[t].paths \cap tx[u].paths = {}
  BY DEF WaitInv, LockInv, Exclusive
<1> DEFINE Q == {t \in S : tx[t].pc = "paths" /\ \E p : NextPath(t, p)}
           want == [t \in Q |-> CHOOSE p : NextPath(t, p)]
           rank == [t \in Q |-> PathRank[want[t]]]
<1>1. CASE \E t \in S : tx[t].pc \notin {"mutation", "row", "paths"}
  BY <1>1 DEF WaitsFor
<1>2. CASE \E t \in S : tx[t].pc = "paths" /\ ~\E p : NextPath(t, p)
  BY <1>2 DEF WaitsFor
<1>3. CASE Q # {} /\ \A t \in S : tx[t].pc \in {"mutation", "row"} \/ t \in Q
  <2>1. IsFiniteSet(Q)
    BY LedgerConstants, FS_Subset
  <2>2. ASSUME NEW t \in Q, NEW p, NextPath(t, p)
        PROVE  p \in Paths /\ p = want[t]
    <3>1. PathsNeeded(t) \subseteq Paths
      BY <1>a, RequestFacts DEF PathsNeeded, Tx, Row, Request, Operations
    <3>2. NextPath(t, want[t])
      BY <2>2
    <3> HIDE DEF want
    <3> QED BY <2>2, <3>1, <3>2, StoreConstants DEF NextPath
  <2>3. rank \in [Q -> Nat] /\ \A t \in Q : want[t] \in Paths /\ NextPath(t, want[t])
    <3>1. \A t \in Q : NextPath(t, want[t])
      OBVIOUS
    <3> HIDE DEF want
    <3>2. \A t \in Q : want[t] \in Paths
      BY <2>2, <3>1
    <3> QED BY <3>1, <3>2, StoreConstants
  <2>4. PICK t \in Q : \A u \in Q : rank[u] <= rank[t]
    <3> HIDE DEF rank, Q
    <3> QED BY <1>3, <2>1, <2>3, Highest
  <2>5. ASSUME NEW u \in S, u # t PROVE ~WaitsFor(t, u)
    <3> HIDE DEF want
    <3>1. WaitsFor(t, u) => want[t] \in tx[u].paths
      BY <2>2 DEF WaitsFor
    <3>2. u \notin Q => tx[u].paths = {}
      BY <1>a, <1>3 DEF Orderly
    <3>3. ASSUME u \in Q, want[t] \in tx[u].paths PROVE FALSE
      <4>1. PathRank[want[t]] < PathRank[want[u]]
        BY <1>a, <2>3, <3>3 DEF Orderly, NextPath
      <4>2. PathRank[want[u]] <= PathRank[want[t]]
        BY <2>4, <3>3
      <4> QED BY <2>3, <3>3, <4>1, <4>2, StoreConstants
    <3> QED BY <3>1, <3>2, <3>3
  <2> QED BY <2>5
<1>4. CASE Q = {} /\ \A t \in S : tx[t].pc \in {"mutation", "row"}
  <2>1. \A u \in S : tx[u].rows = {}
    BY <1>a, <1>4 DEF Orderly
  <2>2. CASE \E t \in S : tx[t].pc = "row"
    BY <2>1, <2>2 DEF WaitsFor
  <2>3. CASE \A t \in S : tx[t].pc = "mutation"
    BY <1>a, <2>3 DEF WaitsFor, Orderly
  <2> QED BY <1>4, <2>2, <2>3
<1> QED BY <1>1, <1>2, <1>3, <1>4

(* The transactions never wait for each other in a circle.                 *)
THEOREM NobodyInACircle == Spec => []NoWaitCycle
<1>1. Init => WaitInv
  <2>1. Init => LockInv
    BY LockInvInit
  <2>2. ASSUME Init, NEW t \in Workers PROVE Orderly(t)
    BY <2>2 DEF Init, NoTx, Orderly
  <2> QED BY <2>1, <2>2 DEF WaitInv
<1> QED BY <1>1, WaitInvStep, NobodyCircles, PTL DEF Spec
=============================================================================
