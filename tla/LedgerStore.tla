---------------------------- MODULE LedgerStore ----------------------------
(***************************************************************************)
(* The tables of the native revision ledger, the requests clients send and *)
(* the reads both the transactions (NativeLedger) and the promise they     *)
(* keep (VersionedStore) are stated with.                                  *)
(*                                                                         *)
(* Revision ids are opaque and compared for equality only, so a revision   *)
(* is named by its position in commit order.                               *)
(***************************************************************************)
EXTENDS Integers, Sequences, FiniteSets

CONSTANTS
    ResourceIds,    \* resource ids
    Paths,          \* paths; one that is also in ResourceIds looks like a UUID
    PathRank,       \* lexical order of the paths
    Surfaces,       \* "document" and "file"
    SurfaceOf,      \* surface of each resource
    Mutations,      \* idempotency keys
    Requests,       \* the requests clients send
    NoResource,     \* "no resource given"
    NoPath          \* "no path given"

Operations == {"create", "replace", "move", "delete", "restore"}

Request == [op        : Operations,
            mutation  : Mutations,
            surface   : Surfaces,
            reference : Paths,                        \* path, alias or id
            pathTo    : Paths \cup {NoPath},          \* move only
            resource  : ResourceIds \cup {NoResource},\* expected_resource_id
            expected  : Nat]                          \* 0: no expectation

\* What a key is bound to.  A restore is fingerprinted as the replace it is.
Fingerprint(q) == [q EXCEPT !.op = IF @ = "restore" THEN "replace" ELSE @]

ASSUME StoreConstants ==
    /\ NoResource \notin ResourceIds
    /\ NoPath \notin Paths
    /\ SurfaceOf \in [ResourceIds -> Surfaces]
    /\ PathRank \in [Paths -> Nat]
    /\ \A p, q \in Paths : PathRank[p] = PathRank[q] => p = q

\* What the validators let through to a transaction.
ASSUME StoreRequests ==
    /\ Requests \subseteq Request
    /\ Requests # {}
    /\ \A q \in Requests :
         /\ q.op = "restore" => q.resource # NoResource /\ q.expected # 0
         /\ q.op = "move" <=> q.pathTo # NoPath
         /\ q.op = "move" => q.pathTo # q.reference
         /\ q.op = "create" /\ q.resource # NoResource
              => SurfaceOf[q.resource] = q.surface

VARIABLES
    resources,   \* native_resources: lifecycle, current path and head
    aliases,     \* native_resource_path_aliases not yet retired
    revisions,   \* native_revisions in commit order
    answers      \* the responses delivered: request and revision named

store == <<resources, aliases, revisions>>

-----------------------------------------------------------------------------
Row == [lifecycle : {"absent", "live", "deleted"},
        path      : Paths \cup {NoPath},
        head      : Nat]

Revision == [resource : ResourceIds,
             parent   : Nat,
             action   : {"create", "replace", "move", "delete"},
             path     : Paths,
             request  : Request]

Alias == [path : Paths, resource : ResourceIds]

NoRow == [lifecycle |-> "absent", path |-> NoPath, head |-> 0]

IsLive(r) == resources[r].lifecycle = "live"

\* find_live_path: namespace-wide, whatever the surface.
Owners(p) == {r \in ResourceIds : IsLive(r) /\ resources[r].path = p}

\* find_live_alias, namespace-wide too.
AliasesAt(p) == {a \in aliases : a.path = p}

\* resolve_live_reference: the id first, then the current path, then a live
\* alias, each within the surface asked for.  Two different answers are
\* ambiguous and resolve to nothing.
Candidates(q) ==
    LET visible == {r \in ResourceIds : IsLive(r) /\ SurfaceOf[r] = q.surface}
        byId    == {r \in visible : r = q.reference}
        byPath  == Owners(q.reference) \cap visible
        byAlias == {r \in visible : \E a \in AliasesAt(q.reference) : a.resource = r}
    IN  byId \cup (IF byPath # {} THEN byPath ELSE byAlias)

Resolves(q, r) == Candidates(q) = {r}

\* find_mutation
Committed(m) == {i \in DOMAIN revisions : revisions[i].request.mutation = m}

StoreInit ==
    /\ resources = [r \in ResourceIds |-> NoRow]
    /\ aliases = {}
    /\ revisions = <<>>
    /\ answers = {}

-----------------------------------------------------------------------------
(* Every table holds rows of its columns' types.                           *)
StoreTypeOK ==
    /\ resources \in [ResourceIds -> Row]
    /\ aliases \subseteq Alias
    /\ revisions \in Seq(Revision)
    /\ answers \subseteq [request : Requests, revision : Nat]

(* A path means at most one thing in a namespace, on either surface: the   *)
(* current path of one live resource, or the old path of one live resource *)
(* and then nobody's current path.  Resolution never has to choose.        *)
PathIdentity ==
    /\ \A r, s \in ResourceIds :
         IsLive(r) /\ IsLive(s) /\ resources[r].path = resources[s].path => r = s
    /\ \A a, b \in aliases : a.path = b.path => a.resource = b.resource
    /\ \A a \in aliases : IsLive(a.resource) /\ Owners(a.path) = {}

(* The revisions of a resource form one line from its create to its head:  *)
(* each was written on top of the one committed just before it, none is    *)
(* forked or lost, nothing but a restore follows a delete, and the head    *)
(* says where the resource is and whether it lives.                        *)
LinearHistory ==
    \A r \in ResourceIds :
        LET mine == {i \in DOMAIN revisions : revisions[i].resource = r}
            row  == resources[r]
        IN  /\ row.head \in mine \cup {0}
            /\ \A i \in mine :
                 /\ i <= row.head
                 /\ IF revisions[i].action = "create"
                      THEN revisions[i].parent = 0 /\ \A j \in mine : i <= j
                      ELSE /\ revisions[i].parent \in mine
                           /\ revisions[i].parent < i
                           /\ \A j \in mine : j < i => j <= revisions[i].parent
                           /\ revisions[revisions[i].parent].action = "delete"
                                <=> revisions[i].request.op = "restore"
            /\ row.lifecycle = "absent" <=> mine = {}
            /\ mine # {} =>
                 /\ row.head # 0
                 /\ row.path = revisions[row.head].path
                 /\ row.lifecycle = "deleted" <=> revisions[row.head].action = "delete"

(* A mutation id commits at most once, and every response delivered for a  *)
(* request names a revision committed by a request of the same fingerprint,*)
(* however many times it was sent and whichever attempt is answered.       *)
AnswersTrue ==
    /\ \A i, j \in DOMAIN revisions :
         revisions[i].request.mutation = revisions[j].request.mutation => i = j
    /\ \A x \in answers :
         /\ x.revision \in DOMAIN revisions
         /\ Fingerprint(revisions[x.revision].request) = Fingerprint(x.request)
=============================================================================
