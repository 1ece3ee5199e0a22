--------------------------- MODULE VersionedStore ---------------------------
(***************************************************************************)
(* What the native revision ledger promises its clients: a store of        *)
(* versioned resources in which every request happens at one instant, on   *)
(* the resource its reference names at that instant, or does not happen.   *)
(***************************************************************************)
EXTENDS LedgerStore

\* The live resource r goes by the reference of q on its surface.
Names(q, r) ==
    /\ IsLive(r)
    /\ SurfaceOf[r] = q.surface
    /\ \/ r = q.reference
       \/ resources[r].path = q.reference
       \/ \E a \in AliasesAt(q.reference) : a.resource = r

\* Nobody lives at p but, perhaps, r; and r alone may be remembered there.
FreeFor(p, r) ==
    /\ Owners(p) \subseteq {r}
    /\ \A a \in AliasesAt(p) : a.resource = r

Record(q, r, action, lifecycle, path) ==
    /\ Committed(q.mutation) = {}
    /\ revisions' = Append(revisions,
           [resource |-> r, parent |-> resources[r].head, action |-> action,
            path |-> path, request |-> q])
    /\ resources' = [resources EXCEPT ![r] =
           [lifecycle |-> lifecycle, path |-> path, head |-> Len(revisions) + 1]]
    /\ UNCHANGED answers

Create(q, r) ==
    /\ q.op = "create"
    /\ q.resource \in {NoResource, r}
    /\ SurfaceOf[r] = q.surface
    /\ resources[r].lifecycle = "absent"
    /\ Owners(q.reference) = {}
    /\ Record(q, r, "create", "live", q.reference)
    /\ aliases' = aliases \ AliasesAt(q.reference)

\* A request on a live resource, from the head it was made against.
Current(q, r) ==
    /\ Names(q, r)
    /\ q.resource \in {NoResource, r}
    /\ q.expected \in {0, resources[r].head}

Replace(q, r) ==
    /\ q.op = "replace"
    /\ Current(q, r)
    /\ Record(q, r, "replace", "live", resources[r].path)
    /\ UNCHANGED aliases

Move(q, r) ==
    /\ q.op = "move"
    /\ Current(q, r)
    /\ q.pathTo # resources[r].path
    /\ FreeFor(q.pathTo, r)
    /\ Record(q, r, "move", "live", q.pathTo)
    /\ aliases' = (aliases \ AliasesAt(q.pathTo))
                    \cup {[path |-> resources[r].path, resource |-> r]}

Delete(q, r) ==
    /\ q.op = "delete"
    /\ Current(q, r)
    /\ Record(q, r, "delete", "deleted", resources[r].path)
    /\ aliases' = {a \in aliases : a.resource # r}

Restore(q, r) ==
    /\ q.op = "restore"
    /\ r = q.resource
    /\ SurfaceOf[r] = q.surface
    /\ resources[r].lifecycle = "deleted"
    /\ resources[r].path = q.reference
    /\ resources[r].head = q.expected
    /\ Owners(q.reference) = {}
    /\ Record(q, r, "replace", "live", q.reference)
    /\ aliases' = aliases \ AliasesAt(q.reference)

\* A client learns, once more or for the first time, what its request did.
Answer(q) ==
    /\ \E i \in Committed(q.mutation) :
         /\ Fingerprint(revisions[i].request) = Fingerprint(q)
         /\ answers' = answers \cup {[request |-> q, revision |-> i]}
    /\ UNCHANGED store

Step(q) ==
    \/ Answer(q)
    \/ \E r \in ResourceIds :
         \/ Create(q, r)
         \/ Replace(q, r)
         \/ Move(q, r)
         \/ Delete(q, r)
         \/ Restore(q, r)

Init == StoreInit
Next == \E q \in Requests : Step(q)
Spec == Init /\ [][Next]_<<store, answers>>
=============================================================================
