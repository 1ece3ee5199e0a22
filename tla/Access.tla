------------------------------- MODULE Access -------------------------------
(***************************************************************************)
(* Who may use one vault, and the database roles that say the same to      *)
(* PostgreSQL.  A user holds a role on several bases, one row for each     *)
(* source of a grant; vault_access is the strongest of them, ownership is  *)
(* apart from both, and memberships of the vault's group roles are derived *)
(* from the catalog: in the transaction that changes it, by a hook after   *)
(* the commit that may be lost, or by the reconciler.  Every one of these  *)
(* transactions holds the role-authority lock, so each is one step; the    *)
(* check that lets a request in is made before it, on another connection.  *)
(* Left out: archiving and public access, each a transaction of its own.   *)
(*                                                                         *)
(* Projection that fails for a passing reason rolls its transaction back,  *)
(* which is the request's refusal here.  A membership that an operator     *)
(* granted by hand is the lasting reason: the product cannot revoke it.    *)
(*                                                                         *)
(* A definition whose name ends in Slip belongs to no specification: it is *)
(* the form a plausible bug would give the definition that follows it.     *)
(***************************************************************************)
EXTENDS Integers

CONSTANTS
    Users,
    Tokens,         \* scoped access tokens
    Bearer,         \* bound: the user all of them were issued to
    Granted,        \* bound: the roles that requests ask for
    Rules,          \* source keys of automated grantors
    MaxRevision,    \* bound: the revisions that requests carry
    Revising,       \* bound: the sources for which they may carry one ...
    Plain,          \* bound: ... and for which they may carry none
    MaxEvents,      \* bound: requests, and acts of administrators and operators
    Creator         \* the user who created the vault

Roles == {"reader", "writer", "admin"}
Sources == Rules \cup {"direct"}

ASSUME AccessConstants ==
    /\ Creator \in Users
    /\ Bearer \in Users \ {Creator}
    /\ Granted \subseteq Roles
    /\ "direct" \notin Rules /\ Revising \cup Plain \subseteq Sources
    /\ MaxRevision \in Nat /\ MaxEvents \in Nat

VARIABLES
    owner,      \* vaults.owner_id
    sysadmins,  \* users.is_admin
    bases,      \* vault_access_contributions
    access,     \* vault_access
    tokens,
    members,    \* group roles granted by the product to akb_user_<uid>
    foreign,    \* ... and by an operator
    narrow,     \* akb_token_<tid>: whether it exists, and its group roles
    requests,   \* let in by check_vault_access, waiting for the lock
    hooks,      \* tokens whose post-commit hook is still to run
    events

catalog == <<owner, sysadmins, bases, access>>
roles == <<members, foreign, narrow>>
vars == <<catalog, tokens, roles, requests, hooks, events>>

\* ROLE_HIERARCHY
Level == [none |-> 0, reader |-> 1, writer |-> 2, admin |-> 3]
Missing == [role |-> "none", revision |-> 0]
Basis == [role : Roles \cup {"none"}, revision : Nat]
Held(row) == {row[s].role : s \in Sources}

\* effective_role
Effective(row) == CHOOSE r \in Held(row) : \A o \in Held(row) : Level[r] >= Level[o]

Wants(o, acc, u) == IF o = u THEN "admin" ELSE acc[u]
Set(role) == {role} \cap Roles
Reach(o, acc, u) == Set(acc[u]) \cup (IF o = u THEN {"admin"} ELSE {})

\* _fetch_user_accessible without the scope
TokenWantsSlip(o, acc, t) == Reach(o, acc, Bearer)

\* wanted_token_group_roles
TokenWants(o, acc, t) == IF tokens[t].inside THEN Reach(o, acc, Bearer) ELSE {}

Event == events < MaxEvents /\ events' = events + 1
Live(t) == tokens[t].state = "live"
Administers(u) == u \in sysadmins \/ owner = u \/ access[u] = "admin"
Owns(u) == u \in sysadmins \/ owner = u

Request == [op       : {"grant", "revoke", "transfer"},
            by       : Users,
            target   : Users,
            role     : Granted,
            source   : Sources \cup {"all"},
            revision : 0..MaxRevision,    \* 0 for None
            asAdmin  : BOOLEAN]           \* caller_is_system_admin

Token == [state  : {"unissued", "live", "dead"},
          inside : BOOLEAN]               \* whether its scope permits this vault

\* The bearer may have been made an administrator before.
Init ==
    /\ owner = Creator
    /\ sysadmins = {}
    /\ \E b \in {Missing, [role |-> "admin", revision |-> 1]} :
          bases = [u \in Users |-> [s \in Sources |->
                      IF u = Bearer /\ s = "direct" THEN b ELSE Missing]]
    /\ access = [u \in Users |-> Effective(bases[u])]
    /\ tokens = [t \in Tokens |-> [state |-> "unissued", inside |-> FALSE]]
    /\ members = [u \in Users |-> Set(Wants(owner, access, u))]
    /\ foreign = [u \in Users |-> {}]
    /\ narrow = [t \in Tokens |-> [exists |-> FALSE, groups |-> {}]]
    /\ requests = {}
    /\ hooks = {}
    /\ events = 0

-----------------------------------------------------------------------------
(* The projection of a changed catalog, in the transaction that changes it *)

\* _sync_user_scoped_tokens grants what is new and leaves what is stale.
SyncTokensSlip(o, acc, us) ==
    narrow' = [t \in Tokens |->
        IF Live(t) /\ Bearer \in us
        THEN [exists |-> TRUE, groups |-> narrow[t].groups \cup TokenWants(o, acc, t)]
        ELSE narrow[t]]

SyncTokens(o, acc, us) ==
    narrow' = [t \in Tokens |->
        IF Live(t) /\ Bearer \in us
        THEN [exists |-> TRUE, groups |-> TokenWants(o, acc, t)]
        ELSE narrow[t]]

\* _grant_membership looks for an edge under any grantor.
Synced(u, wanted) == IF wanted \subseteq foreign[u] THEN members[u] \cap wanted ELSE wanted

\* The revocation warns instead of raising.
SyncUsersSlip(o, acc, us) ==
    /\ members' = [u \in Users |-> IF u \in us THEN Synced(u, Set(Wants(o, acc, u)))
                                   ELSE members[u]]
    /\ SyncTokens(o, acc, us)
    /\ UNCHANGED foreign

\* sync_vault_user_in_conn for each of us, which raises when an edge the
\* catalog does not call for remains under another grantor
SyncUsers(o, acc, us) ==
    /\ \A u \in us : foreign[u] \subseteq Set(Wants(o, acc, u))
    /\ members' = [u \in Users |-> IF u \in us THEN Synced(u, Set(Wants(o, acc, u)))
                                   ELSE members[u]]
    /\ SyncTokens(o, acc, us)
    /\ UNCHANGED foreign

\* A role, once materialized, is never lowered.
MaterializeSlip(rows) ==
    /\ bases' = rows
    /\ access' = [u \in Users |-> IF Level[access[u]] > Level[Effective(rows[u])] THEN access[u]
                                  ELSE Effective(rows[u])]

\* _materialize
Materialize(rows) ==
    /\ bases' = rows
    /\ access' = [u \in Users |-> IF rows[u] = bases[u] THEN access[u] ELSE Effective(rows[u])]

Done(q) == requests' = requests \ {q} /\ UNCHANGED <<tokens, hooks, events>>

\* apply_contribution overwrites whatever it finds.
NewerSlip(q, b) == TRUE

\* The revision a request carries is newer than the stored one.
Newer(q, b) == q.revision = 0 \/ b = Missing \/ q.revision > b.revision

\* apply_contribution
Applied(q) ==
    LET b == bases[q.target][q.source]
    IN  IF Newer(q, b)
        THEN [bases EXCEPT ![q.target][q.source] =
                 [role |-> q.role, revision |-> IF q.revision = 0 THEN b.revision + 1 ELSE q.revision]]
        ELSE bases

\* remove_contribution, remove_all_contributions
Removed(q) ==
    IF q.source = "all" THEN [bases EXCEPT ![q.target] = [s \in Sources |-> Missing]]
    ELSE IF Newer(q, bases[q.target][q.source])
         THEN [bases EXCEPT ![q.target][q.source] = Missing]
         ELSE bases

-----------------------------------------------------------------------------
(* Requests.  check_vault_access lets them in; what they do, they do under *)
(* the lock, where grant and revoke look at the requester's right again.   *)
Allowed(q) ==
    IF q.op = "transfer" THEN Owns(q.by) ELSE Administers(q.by)

WellFormed(q) ==
    /\ q.op = "grant" => q.source # "all"
    /\ IF q.revision > 0 THEN q.source \in Revising ELSE q.source \in Plain \cup {"all"}
    /\ q.op # "grant" => q.role = CHOOSE r \in Granted : TRUE
    /\ q.op = "transfer" => q.source = "all" /\ q.revision = 0
    /\ q.asAdmin = (q.op = "transfer" /\ q.by \in sysadmins)

LetIn(q) ==
    /\ Event
    /\ WellFormed(q)
    /\ Allowed(q)
    /\ requests' = requests \cup {q}
    /\ UNCHANGED <<catalog, tokens, roles, hooks>>

Grant(q) ==
    /\ q.op = "grant"
    /\ Allowed(q)
    /\ Materialize(Applied(q))
    /\ SyncUsers(owner, access', {q.target})
    /\ UNCHANGED <<owner, sysadmins>>
    /\ Done(q)

\* The requester's right is the one that was checked before the lock.
RevokeSlip(q) ==
    /\ q.op = "revoke"
    /\ q.target # owner
    /\ Materialize(Removed(q))
    /\ members' = [members EXCEPT ![q.target] = Set(access'[q.target])]
    /\ UNCHANGED <<owner, sysadmins, foreign, narrow>>
    /\ Done(q)

Revoke(q) ==
    /\ q.op = "revoke"
    /\ Allowed(q)
    /\ q.target # owner
    /\ Materialize(Removed(q))
    /\ SyncUsers(owner, access', {q.target})
    /\ UNCHANGED <<owner, sysadmins>>
    /\ Done(q)

\* The old owner's roles are left to the reconciler.
TransferSlip(q) ==
    LET old == owner
        row == [role |-> "admin", revision |-> bases[old]["direct"].revision + 1]
    IN  /\ q.op = "transfer"
        /\ old = q.by \/ q.asAdmin
        /\ owner' = q.target
        /\ Materialize([bases EXCEPT ![old]["direct"] = row,
                                     ![q.target] = [s \in Sources |-> Missing]])
        /\ SyncUsers(owner', access', {q.target})
        /\ UNCHANGED sysadmins
        /\ Done(q)

\* A system administrator's flag is not read again.
Transfer(q) ==
    LET old == owner
        row == [role |-> "admin", revision |-> bases[old]["direct"].revision + 1]
    IN  /\ q.op = "transfer"
        /\ old = q.by \/ q.asAdmin
        /\ owner' = q.target
        /\ Materialize([bases EXCEPT ![old]["direct"] = row,
                                     ![q.target] = [s \in Sources |-> Missing]])
        /\ SyncUsers(owner', access', {old, q.target})
        /\ UNCHANGED sysadmins
        /\ Done(q)

\* Refused under the lock, cancelled, or rolled back
Refuse(q) ==
    /\ UNCHANGED <<catalog, roles>>
    /\ Done(q)

\* set_user_admin
SetAdmin(u) ==
    /\ Event
    /\ sysadmins' = IF u \in sysadmins THEN sysadmins \ {u} ELSE sysadmins \cup {u}
    /\ UNCHANGED <<owner, bases, access, tokens, roles, requests, hooks>>

-----------------------------------------------------------------------------
(* Scoped tokens: a row, then a hook that finds the row as it is by then.  *)
Issue(t, inside) ==
    /\ tokens[t].state = "unissued"
    /\ tokens' = [tokens EXCEPT ![t] = [state |-> "live", inside |-> inside]]
    /\ hooks' = hooks \cup {<<"create", t>>}
    /\ UNCHANGED <<catalog, roles, requests, events>>

\* revoke_pat
RevokeToken(t) ==
    /\ Live(t)
    /\ tokens' = [tokens EXCEPT ![t].state = "dead"]
    /\ hooks' = hooks \cup {<<"revoke", t>>}
    /\ UNCHANGED <<catalog, roles, requests, events>>

\* Expiry has no hook.
Expire(t) ==
    /\ Live(t)
    /\ tokens' = [tokens EXCEPT ![t].state = "dead"]
    /\ UNCHANGED <<catalog, roles, requests, hooks, events>>

\* on_token_create grants to whatever role it finds or makes.
OnCreate(t) ==
    /\ <<"create", t>> \in hooks
    /\ hooks' = hooks \ {<<"create", t>>}
    /\ narrow' = IF Live(t)
                 THEN [narrow EXCEPT ![t] = [exists |-> TRUE,
                          groups |-> @.groups \cup TokenWants(owner, access, t)]]
                 ELSE narrow
    /\ UNCHANGED <<catalog, tokens, members, foreign, requests, events>>

NoRole == [exists |-> FALSE, groups |-> {}]

OnRevoke(t) ==
    /\ <<"revoke", t>> \in hooks
    /\ hooks' = hooks \ {<<"revoke", t>>}
    /\ narrow' = [narrow EXCEPT ![t] = NoRole]
    /\ UNCHANGED <<catalog, tokens, members, foreign, requests, events>>

\* The hook fails, or its process dies before it runs.
HookLost(h) ==
    /\ hooks' = hooks \ {h}
    /\ UNCHANGED <<catalog, tokens, roles, requests, events>>

-----------------------------------------------------------------------------
(* Operators and the reconciler *)
\* An operator's GRANT, under another grantor than the product's.
OperatorGrants(u, role) ==
    /\ Event
    /\ foreign' = [foreign EXCEPT ![u] = @ \cup {role}]
    /\ UNCHANGED <<catalog, tokens, members, narrow, requests, hooks>>

OperatorRevokes(u, role) ==
    /\ role \in foreign[u]
    /\ foreign' = [foreign EXCEPT ![u] = @ \ {role}]
    /\ UNCHANGED <<catalog, tokens, members, narrow, requests, hooks, events>>

\* _reconcile_memberships revokes what is not called for, an edge at a time,
\* unless an operator granted it too, and grants what nobody has.
Reconciled(u) ==
    LET wanted == Set(Wants(owner, access, u))
    IN  (members[u] \cap (wanted \cup foreign[u])) \cup (wanted \ foreign[u])

\* Tokens keep the roles they have.
ReconcileSlip ==
    /\ members' = [u \in Users |-> Reconciled(u)]
    /\ narrow' = [t \in Tokens |-> IF Live(t) THEN narrow[t] ELSE NoRole]
    /\ UNCHANGED <<catalog, tokens, foreign, requests, hooks, events>>

\* reconcile_from_catalog, at startup and from time to time
Reconcile ==
    /\ members' = [u \in Users |-> Reconciled(u)]
    /\ narrow' = [t \in Tokens |->
                     IF Live(t) THEN [exists |-> TRUE, groups |-> TokenWants(owner, access, t)]
                     ELSE NoRole]
    /\ UNCHANGED <<catalog, tokens, foreign, requests, hooks, events>>

Execute(q) == Grant(q) \/ Revoke(q) \/ Transfer(q) \/ Refuse(q)

Next ==
    \/ \E q \in Request : LetIn(q)
    \/ \E q \in requests : Execute(q)
    \/ \E u \in Users : SetAdmin(u)
    \/ \E t \in Tokens : RevokeToken(t) \/ Expire(t) \/ OnCreate(t) \/ OnRevoke(t)
    \/ \E t \in Tokens, inside \in BOOLEAN : Issue(t, inside)
    \/ \E h \in hooks : HookLost(h)
    \/ \E u \in Users, role \in Granted : OperatorGrants(u, role) \/ OperatorRevokes(u, role)
    \/ Reconcile

\* The reconciler's timer; nobody else is bound to act.
Spec == Init /\ [][Next]_vars /\ WF_vars(Reconcile)

-----------------------------------------------------------------------------
(* The variables have their types, and vault_access is the strongest of a  *)
(* user's bases (access_contributions._materialize).                       *)
TypeOK ==
    /\ owner \in Users
    /\ sysadmins \subseteq Users
    /\ bases \in [Users -> [Sources -> Basis]]
    /\ access = [u \in Users |-> Effective(bases[u])]
    /\ tokens \in [Tokens -> Token]
    /\ members \in [Users -> SUBSET Roles]
    /\ foreign \in [Users -> SUBSET Roles]
    /\ narrow \in [Tokens -> [exists : BOOLEAN, groups : SUBSET Roles]]
    /\ requests \subseteq Request
    /\ hooks \subseteq {"create", "revoke"} \X Tokens
    /\ events \in 0..MaxEvents

(* Every variable has its type, roles being the strongest of their bases;  *)
(* and a token that can be used reaches nothing its user does not hold     *)
(* now, nor the vault at all when its scope leaves it out, whatever has    *)
(* become of hooks and of the user since                                   *)
(* (role_sync.wanted_token_group_roles).                                   *)
TokenWithinUser ==
    TypeOK /\ \A t \in Tokens : Live(t) /\ narrow[t].groups # {} =>
        /\ tokens[t].inside
        /\ narrow[t].groups \subseteq Reach(owner, access, Bearer)

(* When a user's authority over the vault changes, the memberships that    *)
(* PostgreSQL enforces are, by the end of that step, just the one for the  *)
(* new role, hand-made ones included (role_sync.sync_vault_user_in_conn).  *)
ProjectedTogether ==
    [][\A u \in Users :
          Wants(owner, access, u)' # Wants(owner, access, u)
              => members'[u] \cup foreign'[u] = Set(Wants(owner, access, u)')]_vars

(* However requests of an automated grantor are delayed or repeated, none  *)
(* overwrites a basis with an older or a different one of its age          *)
(* (access_contributions.apply_contribution).                              *)
NeverOverwrittenByOlder ==
    [][\A u \in Users, s \in Sources :
          LET old == bases[u][s]  new == bases'[u][s]
          IN  old # Missing /\ new # Missing /\ new # old => new.revision > old.revision]_vars

(* No request of somebody who has lost the right to make it takes effect,  *)
(* with one exception the code makes: a system administrator's transfer.   *)
RightAtCommit ==
    [][\A q \in requests : q \notin requests' /\ (bases' # bases \/ owner' # owner)
          => Allowed(q) \/ q.asAdmin]_vars

(* Drift is healed: a live token has its role, a dead one has none, and a  *)
(* user without hand-made memberships has those of the catalog.            *)
Agree ==
    /\ \A t \in Tokens : narrow[t].exists = Live(t)
    /\ \A u \in Users : foreign[u] = {} => members[u] = Set(Wants(owner, access, u))
Heals == []<>Agree
=============================================================================
