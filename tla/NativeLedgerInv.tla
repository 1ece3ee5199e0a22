--------------------------- MODULE NativeLedgerInv ---------------------------
(* Why the transactions of NativeLedger may trust what they read: the      *)
(* invariant that every step keeps, in the parts the proofs cite.          *)
EXTENDS NativeLedger

UsesReference(t) == tx[t].request.op \in {"replace", "move", "delete"}

\* Past lock_mutation, past the row lock, past the path locks; not yet committed.
Mutating == {"resolve", "row", "paths", "check", "publish"}
RowLocked == {"paths", "check", "publish"}
PathsLocked == {"check", "publish"}

(* A row that does not exist has no path and no head; any other has a path.*)
RowsOK ==
    \A r \in ResourceIds :
        IF resources[r].lifecycle = "absent" THEN resources[r] = NoRow
                                             ELSE resources[r].path \in Paths

(* No lock is held twice.                                                  *)
Exclusive ==
    \A t, u \in Workers : t # u =>
        /\ tx[t].mutexes \cap tx[u].mutexes = {}
        /\ tx[t].rows \cap tx[u].rows = {}
        /\ tx[t].paths \cap tx[u].paths = {}

(* A transaction holds the locks of the steps it has passed.               *)
Holds(t) ==
    /\ tx[t].pc \in Mutating => tx[t].request.mutation \in tx[t].mutexes
    /\ tx[t].pc \in RowLocked /\ tx[t].request.op # "create" => tx[t].target \in tx[t].rows
    /\ tx[t].pc \in PathsLocked => PathsNeeded(t) \subseteq tx[t].paths

(* It works on the resource its request may name, from the row it locked.  *)
Found(t) ==
    LET q == tx[t].request
        r == tx[t].target
    IN  /\ tx[t].pc = "idle" => tx[t] = NoTx
        /\ tx[t].pc \in Mutating \cup {"mutation"} /\ q.op = "create" =>
             /\ r \in ResourceIds
             /\ SurfaceOf[r] = q.surface
             /\ q.resource \in {NoResource, r}
             /\ tx[t].seen = NoRow
        /\ tx[t].pc \in Mutating \cup {"mutation"} /\ q.op = "restore" =>
             r = q.resource /\ r \in ResourceIds
        /\ tx[t].pc \in RowLocked \cup {"row"} /\ UsesReference(t) =>
             /\ r \in ResourceIds
             /\ q.resource \in {NoResource, r}
        /\ tx[t].pc = "resolve" => UsesReference(t)
        /\ tx[t].pc = "row" => q.op # "create"
        /\ tx[t].pc \in RowLocked /\ UsesReference(t) => tx[t].seen.lifecycle = "live"
        /\ tx[t].pc \in RowLocked /\ q.op = "restore" =>
             /\ SurfaceOf[r] = q.surface
             /\ tx[t].seen.lifecycle = "deleted"
             /\ tx[t].seen.path = q.reference
             /\ tx[t].seen.head = q.expected

(* Its locks keep true what it read: nobody used its mutation id, nobody   *)
(* wrote the row it locked, and past the checks, nobody changed who lives  *)
(* at or is remembered at the paths it locked.                             *)
Stable(t) ==
    LET q == tx[t].request
        r == tx[t].target
    IN  /\ tx[t].pc \in Mutating => Committed(q.mutation) = {}
        /\ tx[t].pc \in RowLocked /\ q.op # "create" => tx[t].seen = resources[r]
        /\ tx[t].pc = "publish" =>
             /\ UsesReference(t) =>
                  Promise!Names(q, r) /\ q.expected \in {0, tx[t].seen.head}
             /\ q.op = "move" =>
                  q.pathTo # tx[t].seen.path /\ Promise!FreeFor(q.pathTo, r)
             /\ q.op \in {"create", "restore"} => Owners(q.reference) = {}
             /\ TakesPath(t) => tx[t].reuse \/ AliasesAt(Destination(t)) = {}
             /\ ~TakesPath(t) => ~tx[t].reuse

(* What it will answer is what its request committed.                      *)
Replied(t) ==
    tx[t].pc = "reply" =>
        /\ tx[t].outcome \in DOMAIN revisions
        /\ Fingerprint(revisions[tx[t].outcome].request) = Fingerprint(tx[t].request)

(* The inductive invariant of the locking protocol.                        *)
LockInv ==
    /\ TypeOK
    /\ RowsOK
    /\ Exclusive
    /\ \A t \in Workers : Holds(t) /\ Found(t) /\ Stable(t) /\ Replied(t)

(* Locks are asked for in one order: the mutation id, the row, then the    *)
(* paths by rank.                                                          *)
Orderly(t) ==
    /\ tx[t].pc = "mutation" => tx[t].mutexes = {}
    /\ tx[t].pc \in {"mutation", "resolve", "row"} => tx[t].rows = {} /\ tx[t].paths = {}
    /\ tx[t].pc = "paths" =>
         /\ tx[t].paths \subseteq PathsNeeded(t)
         /\ \A p \in tx[t].paths, o \in PathsNeeded(t) \ tx[t].paths :
              PathRank[p] < PathRank[o]

WaitInv == LockInv /\ \A t \in Workers : Orderly(t)
=============================================================================
