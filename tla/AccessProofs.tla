---------------------------- MODULE AccessProofs ----------------------------
(* Theorems about Access, for any users, tokens, automated grantors and    *)
(* revisions.                                                              *)
EXTENDS Access, TLAPS

\* A token that was not issued has no role that would await it.
Unissued == \A t \in Tokens : tokens[t].state = "unissued" => narrow[t].groups = {}

\* What is granted is granted on one basis.
Grants == \A q \in requests : q.op = "grant" => q.source # "all"

AccessInv == TokenWithinUser /\ Unissued /\ Grants

Typed(rows) == rows \in [Users -> [Sources -> Basis]]

-----------------------------------------------------------------------------
LEMMA MissingTyped == Missing \in Basis /\ [s \in Sources |-> Missing] \in [Sources -> Basis]
BY DEF Missing, Basis

(* Changes of the rows of bases.                                           *)
LEMMA RowTyped ==
    ASSUME Typed(bases), NEW u \in Users, NEW s \in Sources, NEW b \in Basis
    PROVE  /\ Typed([bases EXCEPT ![u] = [@ EXCEPT ![s] = b]])
           /\ \A x \in Users, y \in Sources :
                [bases EXCEPT ![u] = [@ EXCEPT ![s] = b]][x][y] = IF x = u /\ y = s THEN b ELSE bases[x][y]
           /\ \A x \in Users \ {u} : [bases EXCEPT ![u] = [@ EXCEPT ![s] = b]][x] = bases[x]
BY DEF Typed

LEMMA ClearedTyped ==
    ASSUME NEW rows, Typed(rows), NEW u \in Users
    PROVE  /\ Typed([rows EXCEPT ![u] = [s \in Sources |-> Missing]])
           /\ \A x \in Users, y \in Sources :
                [rows EXCEPT ![u] = [s \in Sources |-> Missing]][x][y] = IF x = u THEN Missing ELSE rows[x][y]
           /\ \A x \in Users \ {u} : [rows EXCEPT ![u] = [s \in Sources |-> Missing]][x] = rows[x]
BY MissingTyped DEF Typed

\* What apply_contribution and the removals may do to one user's bases.
Advances(rows, us) ==
    /\ Typed(rows)
    /\ \A u \in Users \ us : rows[u] = bases[u]
    /\ \A u \in Users, s \in Sources :
         \/ rows[u][s] = bases[u][s] \/ rows[u][s] = Missing \/ bases[u][s] = Missing
         \/ rows[u][s].revision > bases[u][s].revision

LEMMA RowAdvances ==
    ASSUME Typed(bases), NEW u \in Users, NEW s \in Sources, NEW b \in Basis,
           b = Missing \/ bases[u][s] = Missing \/ b.revision > bases[u][s].revision
    PROVE  Advances([bases EXCEPT ![u] = [@ EXCEPT ![s] = b]], {u})
<1> DEFINE rows == [bases EXCEPT ![u] = [@ EXCEPT ![s] = b]]
<1>1. /\ Typed(rows)
      /\ \A x \in Users, y \in Sources : rows[x][y] = IF x = u /\ y = s THEN b ELSE bases[x][y]
      /\ \A x \in Users \ {u} : rows[x] = bases[x]
  BY RowTyped
<1> HIDE DEF rows
<1>2. Advances(rows, {u})
  BY <1>1 DEF Advances
<1> QED BY <1>2 DEF rows

LEMMA AppliedAdvances ==
    ASSUME TypeOK, NEW q \in Request, q.op = "grant", q.source # "all"
    PROVE  Advances(Applied(q), {q.target})
<1> DEFINE b == bases[q.target][q.source]
           new == [role |-> q.role, revision |-> IF q.revision = 0 THEN b.revision + 1 ELSE q.revision]
<1>1. q.target \in Users /\ q.source \in Sources /\ q.role \in Roles /\ q.revision \in Nat
  BY AccessConstants DEF Request
<1>2. Typed(bases) /\ b \in Basis
  BY <1>1 DEF TypeOK, Typed
<1>3. new \in Basis /\ new.revision = IF q.revision = 0 THEN b.revision + 1 ELSE q.revision
  BY <1>1, <1>2 DEF Basis
<1>4. CASE ~Newer(q, b)
  BY <1>2, <1>4 DEF Applied, Advances
<1>5. CASE Newer(q, b)
  <2>1. Applied(q) = [bases EXCEPT ![q.target] = [@ EXCEPT ![q.source] = new]]
    BY <1>5 DEF Applied
  <2>2. b = Missing \/ new.revision > b.revision
    BY <1>1, <1>2, <1>3, <1>5 DEF Newer, Basis
  <2>3. PICK u \in Users, s \in Sources : u = q.target /\ s = q.source
    BY <1>1
  <2> HIDE DEF new
  <2>4. bases[u][s] = Missing \/ new.revision > bases[u][s].revision
    BY <2>2, <2>3
  <2>5. Advances([bases EXCEPT ![u] = [@ EXCEPT ![s] = new]], {u})
    BY <1>2, <1>3, <2>4, RowAdvances
  <2> QED BY <2>1, <2>3, <2>5
<1> QED BY <1>4, <1>5

LEMMA RemovedAdvances ==
    ASSUME TypeOK, NEW q \in Request
    PROVE  Advances(Removed(q), {q.target})
<1>1. q.target \in Users /\ q.source \in Sources \cup {"all"} /\ Typed(bases)
  BY DEF Request, TypeOK, Typed
<1>2. CASE q.source = "all"
  <2>1. PICK u \in Users : u = q.target
    BY <1>1
  <2> DEFINE rows == [bases EXCEPT ![u] = [s \in Sources |-> Missing]]
  <2>2. /\ Typed(rows)
        /\ \A x \in Users, y \in Sources : rows[x][y] = IF x = u THEN Missing ELSE bases[x][y]
        /\ \A x \in Users \ {u} : rows[x] = bases[x]
    BY <1>1, ClearedTyped
  <2>3. Removed(q) = rows
    BY <1>2, <2>1 DEF Removed
  <2> HIDE DEF rows
  <2>4. Advances(rows, {u})
    BY <2>2 DEF Advances
  <2> QED BY <2>1, <2>3, <2>4
<1>3. CASE q.source # "all" /\ Newer(q, bases[q.target][q.source])
  <2>1. PICK u \in Users, s \in Sources : u = q.target /\ s = q.source
    BY <1>1, <1>3
  <2>2. Removed(q) = [bases EXCEPT ![u] = [@ EXCEPT ![s] = Missing]]
    BY <1>3, <2>1 DEF Removed
  <2>3. Advances([bases EXCEPT ![u] = [@ EXCEPT ![s] = Missing]], {u})
    BY <1>1, RowAdvances, MissingTyped
  <2> QED BY <2>1, <2>2, <2>3
<1>4. CASE q.source # "all" /\ ~Newer(q, bases[q.target][q.source])
  BY <1>1, <1>4 DEF Removed, Advances
<1> QED BY <1>2, <1>3, <1>4

LEMMA TransferAdvances ==
    ASSUME TypeOK, NEW v \in Users
    PROVE  Advances([bases EXCEPT ![owner]["direct"] =
                       [role |-> "admin", revision |-> bases[owner]["direct"].revision + 1],
                                  ![v] = [s \in Sources |-> Missing]], {owner, v})
<1> DEFINE row == [role |-> "admin", revision |-> bases[owner]["direct"].revision + 1]
           mid == [bases EXCEPT ![owner] = [@ EXCEPT !["direct"] = row]]
<1>1. owner \in Users /\ "direct" \in Sources /\ Typed(bases) /\ bases[owner]["direct"] \in Basis
  BY DEF TypeOK, Typed, Sources
<1>2. row \in Basis /\ row.revision > bases[owner]["direct"].revision
  BY <1>1 DEF Basis, Roles
<1>3. /\ Typed(mid)
      /\ \A x \in Users, y \in Sources : mid[x][y] = IF x = owner /\ y = "direct" THEN row ELSE bases[x][y]
      /\ \A x \in Users \ {owner} : mid[x] = bases[x]
  <2> HIDE DEF row
  <2> QED BY <1>1, <1>2, RowTyped
<1> HIDE DEF row
<1>4. Advances([mid EXCEPT ![v] = [s \in Sources |-> Missing]], {owner, v})
  <2> HIDE DEF mid
  <2> QED BY <1>2, <1>3, ClearedTyped DEF Advances
<1> QED BY <1>4 DEF row

(* A changed catalog is typed and materialized, and touches only these     *)
(* users.                                                                  *)
LEMMA Materialized ==
    ASSUME TypeOK, NEW rows, NEW us, Advances(rows, us), Materialize(rows)
    PROVE  /\ bases' \in [Users -> [Sources -> Basis]]
           /\ access' = [u \in Users |-> Effective(bases'[u])]
           /\ \A u \in Users \ us : access'[u] = access[u]
BY DEF TypeOK, Advances, Typed, Materialize

-----------------------------------------------------------------------------
(* The projection, in the same step, for the users whose authority it      *)
(* changed.                                                                *)
LEMMA Follow ==
    ASSUME AccessInv, NEW us \in SUBSET Users, SyncUsers(owner', access', us), UNCHANGED tokens,
           \A u \in Users \ us : access'[u] = access[u] /\ (owner' = u <=> owner = u)
    PROVE  /\ members' \in [Users -> SUBSET Roles] /\ foreign' = foreign
           /\ narrow' \in [Tokens -> [exists : BOOLEAN, groups : SUBSET Roles]]
           /\ \A u \in us : members'[u] \cup foreign'[u] = Set(Wants(owner', access', u))
           /\ \A t \in Tokens : Live(t) /\ narrow'[t].groups # {} =>
                tokens[t].inside /\ narrow'[t].groups \subseteq Reach(owner', access', Bearer)
           /\ Unissued'
<1>1. foreign' = foreign /\ members \in [Users -> SUBSET Roles] /\ Bearer \in Users
  BY AccessConstants DEF SyncUsers, AccessInv, TokenWithinUser, TypeOK
<1>2. \A u \in Users : Set(Wants(owner', access', u)) \in SUBSET Roles
  BY DEF Set
<1>3. members' = [u \in Users |-> IF u \in us THEN Synced(u, Set(Wants(owner', access', u))) ELSE members[u]]
  BY DEF SyncUsers
<1>4. members' \in [Users -> SUBSET Roles]
  BY <1>1, <1>2, <1>3 DEF Synced
<1>5. \A u \in us : members'[u] \cup foreign'[u] = Set(Wants(owner', access', u))
  <2> SUFFICES ASSUME NEW u \in us PROVE members'[u] \cup foreign'[u] = Set(Wants(owner', access', u))
    OBVIOUS
  <2>1. foreign[u] \subseteq Set(Wants(owner', access', u))
    BY DEF SyncUsers
  <2>2. members'[u] = Synced(u, Set(Wants(owner', access', u)))
    BY <1>3
  <2> QED BY <1>1, <2>1, <2>2 DEF Synced
<1>6. narrow' = [t \in Tokens |->
        IF Live(t) /\ Bearer \in us THEN [exists |-> TRUE, groups |-> TokenWants(owner', access', t)]
        ELSE narrow[t]]
  BY DEF SyncUsers, SyncTokens
<1>7. \A t \in Tokens :
        /\ TokenWants(owner', access', t) \subseteq Roles
        /\ TokenWants(owner', access', t) # {} => tokens[t].inside
        /\ TokenWants(owner', access', t) \subseteq Reach(owner', access', Bearer)
  BY DEF TokenWants, Reach, Set, Roles
<1>8. Bearer \notin us => Reach(owner', access', Bearer) = Reach(owner, access, Bearer)
  BY <1>1 DEF Reach
<1>9. narrow \in [Tokens -> [exists : BOOLEAN, groups : SUBSET Roles]]
  BY DEF AccessInv, TokenWithinUser, TypeOK
<1>10. narrow' \in [Tokens -> [exists : BOOLEAN, groups : SUBSET Roles]]
  BY <1>6, <1>7, <1>9
<1>11. \A t \in Tokens : Live(t) /\ narrow'[t].groups # {} =>
         tokens[t].inside /\ narrow'[t].groups \subseteq Reach(owner', access', Bearer)
  BY <1>6, <1>7, <1>8 DEF AccessInv, TokenWithinUser
<1>12. Unissued'
  BY <1>6 DEF AccessInv, Unissued, Live
<1> QED BY <1>1, <1>4, <1>5, <1>10, <1>11, <1>12

LEMMA GrantStep ==
    ASSUME AccessInv, NEW q \in requests, Grant(q) \/ Revoke(q)
    PROVE  /\ AccessInv'
           /\ Advances(bases', {q.target})
           /\ \A u \in Users : Wants(owner, access, u)' # Wants(owner, access, u) => u = q.target
           /\ members'[q.target] \cup foreign'[q.target] = Set(Wants(owner, access, q.target)')
<1>1. TypeOK /\ q \in Request /\ q.target \in Users
  BY DEF AccessInv, TokenWithinUser, TypeOK, Request
<1>2. PICK rows : Advances(rows, {q.target}) /\ Materialize(rows)
  <2>1. CASE Grant(q)
    <3>1. q.op = "grant" /\ Materialize(Applied(q))
      BY <2>1 DEF Grant
    <3> QED BY <1>1, <2>1, <3>1, AppliedAdvances DEF AccessInv, Grants
  <2>2. CASE Revoke(q)
    BY <1>1, <2>2, RemovedAdvances DEF Revoke
  <2> QED BY <2>1, <2>2
<1>3. /\ owner' = owner /\ sysadmins' = sysadmins /\ UNCHANGED <<tokens, hooks, events>>
      /\ requests' = requests \ {q} /\ SyncUsers(owner, access', {q.target})
  <2>1. CASE Grant(q)
    BY <2>1 DEF Grant, Done
  <2>2. CASE Revoke(q)
    BY <2>2 DEF Revoke, Done
  <2> QED BY <2>1, <2>2
<1>4. /\ bases' \in [Users -> [Sources -> Basis]] /\ bases' = rows
      /\ access' = [u \in Users |-> Effective(bases'[u])]
      /\ \A u \in Users \ {q.target} : access'[u] = access[u]
  BY <1>1, <1>2, Materialized DEF Materialize
<1>5. SyncUsers(owner', access', {q.target}) /\ {q.target} \in SUBSET Users
  BY <1>1, <1>3
<1>6. /\ members' \in [Users -> SUBSET Roles] /\ foreign' = foreign
      /\ narrow' \in [Tokens -> [exists : BOOLEAN, groups : SUBSET Roles]]
      /\ members'[q.target] \cup foreign'[q.target] = Set(Wants(owner', access', q.target))
      /\ \A t \in Tokens : Live(t) /\ narrow'[t].groups # {} =>
           tokens[t].inside /\ narrow'[t].groups \subseteq Reach(owner', access', Bearer)
      /\ Unissued'
  BY <1>3, <1>4, <1>5, Follow
<1>7. TypeOK'
  BY <1>1, <1>3, <1>4, <1>6 DEF TypeOK
<1>8. TokenWithinUser'
  BY <1>3, <1>6, <1>7 DEF TokenWithinUser, Live
<1>9. Grants'
  BY <1>3 DEF AccessInv, Grants
<1>10. \A u \in Users : Wants(owner, access, u)' # Wants(owner, access, u) => u = q.target
  BY <1>3, <1>4 DEF Wants
<1> QED BY <1>2, <1>4, <1>6, <1>8, <1>9, <1>10 DEF AccessInv

LEMMA TransferStep ==
    ASSUME AccessInv, NEW q \in requests, Transfer(q)
    PROVE  /\ AccessInv'
           /\ Advances(bases', {owner, q.target})
           /\ \A u \in Users : Wants(owner, access, u)' # Wants(owner, access, u) => u \in {owner, q.target}
           /\ \A u \in {owner, q.target} : members'[u] \cup foreign'[u] = Set(Wants(owner, access, u)')
<1>1. TypeOK /\ q \in Request /\ q.target \in Users /\ owner \in Users
  BY DEF AccessInv, TokenWithinUser, TypeOK, Request
<1>2. PICK rows : Advances(rows, {owner, q.target}) /\ Materialize(rows)
  BY <1>1, TransferAdvances DEF Transfer
<1>3. /\ owner' = q.target /\ sysadmins' = sysadmins /\ UNCHANGED <<tokens, hooks, events>>
      /\ requests' = requests \ {q} /\ SyncUsers(owner', access', {owner, q.target})
  BY DEF Transfer, Done
<1>4. /\ bases' \in [Users -> [Sources -> Basis]] /\ bases' = rows
      /\ access' = [u \in Users |-> Effective(bases'[u])]
      /\ \A u \in Users \ {owner, q.target} : access'[u] = access[u]
  BY <1>1, <1>2, Materialized DEF Materialize
<1>5. /\ {owner, q.target} \in SUBSET Users
      /\ \A u \in Users \ {owner, q.target} : access'[u] = access[u] /\ (owner' = u <=> owner = u)
  BY <1>1, <1>3, <1>4
<1>6. /\ members' \in [Users -> SUBSET Roles] /\ foreign' = foreign
      /\ narrow' \in [Tokens -> [exists : BOOLEAN, groups : SUBSET Roles]]
      /\ \A u \in {owner, q.target} : members'[u] \cup foreign'[u] = Set(Wants(owner', access', u))
      /\ \A t \in Tokens : Live(t) /\ narrow'[t].groups # {} =>
           tokens[t].inside /\ narrow'[t].groups \subseteq Reach(owner', access', Bearer)
      /\ Unissued'
  BY <1>3, <1>5, Follow
<1>7. TypeOK'
  BY <1>1, <1>3, <1>4, <1>6 DEF TypeOK
<1>8. TokenWithinUser'
  BY <1>3, <1>6, <1>7 DEF TokenWithinUser, Live
<1>9. Grants'
  BY <1>3 DEF AccessInv, Grants
<1>10. \A u \in Users : Wants(owner, access, u)' # Wants(owner, access, u) => u \in {owner, q.target}
  BY <1>5 DEF Wants
<1> QED BY <1>2, <1>4, <1>6, <1>8, <1>9, <1>10 DEF AccessInv

-----------------------------------------------------------------------------
(* Every other step leaves the catalog alone.                              *)
LEMMA RoleStep ==
    ASSUME AccessInv, UNCHANGED <<owner, bases, access>>, TypeOK',
           Grants', Unissued',
           \A t \in Tokens : Live(t)' =>
             \/ Live(t) /\ tokens'[t] = tokens[t] /\ narrow'[t].groups \subseteq narrow[t].groups \cup TokenWants(owner, access, t)
             \/ narrow'[t].groups = {}
    PROVE  AccessInv'
<1>1. \A t \in Tokens : TokenWants(owner, access, t) # {} =>
        tokens[t].inside /\ TokenWants(owner, access, t) \subseteq Reach(owner, access, Bearer)
  BY DEF TokenWants
<1>2. TokenWithinUser'
  BY <1>1 DEF AccessInv, TokenWithinUser
<1> QED BY <1>2 DEF AccessInv

LEMMA OtherStep ==
    ASSUME AccessInv, Next, ~ \E q \in requests : Grant(q) \/ Revoke(q) \/ Transfer(q)
    PROVE  AccessInv' /\ UNCHANGED <<owner, bases, access>>
<1> USE AccessConstants
<1>0. TypeOK /\ Unissued /\ Grants
  BY DEF AccessInv, TokenWithinUser
<1>1. ASSUME NEW q \in Request, LetIn(q) PROVE AccessInv' /\ UNCHANGED <<owner, bases, access>>
  <2>1. requests' = requests \cup {q} /\ UNCHANGED <<catalog, tokens, roles, hooks>> /\ Event /\ WellFormed(q)
    BY <1>1 DEF LetIn
  <2>2. TypeOK'
    BY <1>0, <2>1 DEF TypeOK, Event, catalog, roles
  <2>3. Grants' /\ Unissued'
    BY <1>0, <2>1 DEF Grants, Unissued, WellFormed, roles
  <2> QED BY <2>1, <2>2, <2>3, RoleStep DEF catalog, roles, Live
<1>2. ASSUME NEW q \in requests, Refuse(q) PROVE AccessInv' /\ UNCHANGED <<owner, bases, access>>
  <2>1. requests' = requests \ {q} /\ UNCHANGED <<catalog, tokens, roles, hooks, events>>
    BY <1>2 DEF Refuse, Done
  <2>2. TypeOK' /\ Grants' /\ Unissued'
    BY <1>0, <2>1 DEF TypeOK, catalog, roles, Grants, Unissued
  <2> QED BY <2>1, <2>2, RoleStep DEF catalog, roles, Live
<1>3. ASSUME NEW u \in Users, SetAdmin(u) PROVE AccessInv' /\ UNCHANGED <<owner, bases, access>>
  <2>1. TypeOK' /\ Grants' /\ Unissued'
    BY <1>0, <1>3 DEF SetAdmin, Event, TypeOK, roles, Grants, Unissued
  <2> QED BY <1>3, <2>1, RoleStep DEF SetAdmin, roles, Live
<1>4. ASSUME NEW t \in Tokens, NEW inside \in BOOLEAN, Issue(t, inside)
      PROVE  AccessInv' /\ UNCHANGED <<owner, bases, access>>
  <2>1. UNCHANGED <<catalog, roles, requests, events>> /\ hooks' = hooks \cup {<<"create", t>>}
        /\ tokens' = [tokens EXCEPT ![t] = [state |-> "live", inside |-> inside]]
    BY <1>4 DEF Issue
  <2>2. TypeOK'
    BY <1>0, <2>1 DEF TypeOK, Token, catalog, roles
  <2>3. Grants' /\ Unissued' /\ narrow'[t].groups = {}
    BY <1>0, <1>4, <2>1 DEF Grants, Unissued, Issue, TypeOK, roles
  <2> QED BY <1>0, <2>1, <2>2, <2>3, RoleStep DEF catalog, roles, Live, TypeOK
<1>5. ASSUME NEW t \in Tokens, RevokeToken(t) \/ Expire(t)
      PROVE  AccessInv' /\ UNCHANGED <<owner, bases, access>>
  <2>1. /\ UNCHANGED <<catalog, roles, requests, events>> /\ hooks' \subseteq hooks \cup {<<"revoke", t>>}
        /\ tokens' = [tokens EXCEPT ![t].state = "dead"]
    BY <1>5 DEF RevokeToken, Expire
  <2>2. /\ tokens' \in [Tokens -> Token] /\ tokens'[t].state = "dead"
        /\ \A x \in Tokens \ {t} : tokens'[x] = tokens[x]
    BY <1>0, <2>1 DEF TypeOK, Token
  <2>3. TypeOK'
    BY <1>0, <2>1, <2>2 DEF TypeOK, catalog, roles
  <2>4. Grants' /\ Unissued'
    BY <1>0, <2>1, <2>2 DEF Grants, Unissued, roles
  <2> QED BY <2>1, <2>2, <2>3, <2>4, RoleStep DEF catalog, roles, Live
<1>6. ASSUME NEW t \in Tokens, OnCreate(t) \/ OnRevoke(t)
      PROVE  AccessInv' /\ UNCHANGED <<owner, bases, access>>
  <2>1. UNCHANGED <<catalog, tokens, members, foreign, requests, events>> /\ hooks' \subseteq hooks
    BY <1>6 DEF OnCreate, OnRevoke
  <2>2. TokenWants(owner, access, t) \subseteq Roles
    BY DEF TokenWants, Reach, Set, Roles
  <2>3. /\ narrow' \in [Tokens -> [exists : BOOLEAN, groups : SUBSET Roles]]
        /\ \A x \in Tokens : \/ narrow'[x].groups \subseteq narrow[x].groups
                             \/ x = t /\ Live(t) /\ narrow'[t].groups = narrow[t].groups \cup TokenWants(owner, access, t)
    <3>1. CASE OnRevoke(t)
      BY <1>0, <3>1 DEF OnRevoke, NoRole, TypeOK
    <3>2. CASE OnCreate(t) /\ Live(t)
      <4>1. narrow' = [narrow EXCEPT ![t] = [exists |-> TRUE,
                         groups |-> narrow[t].groups \cup TokenWants(owner, access, t)]]
        BY <3>2 DEF OnCreate
      <4> QED BY <1>0, <2>2, <3>2, <4>1 DEF TypeOK
    <3>3. CASE OnCreate(t) /\ ~Live(t)
      BY <1>0, <3>3 DEF OnCreate, TypeOK
    <3> QED BY <1>6, <3>1, <3>2, <3>3
  <2>4. TypeOK'
    BY <1>0, <2>1, <2>3 DEF TypeOK, catalog
  <2>5. Grants' /\ Unissued'
    BY <1>0, <2>1, <2>3 DEF Grants, Unissued, Live
  <2> QED BY <2>1, <2>3, <2>4, <2>5, RoleStep DEF catalog, Live
<1>7. ASSUME NEW h \in hooks, HookLost(h) PROVE AccessInv' /\ UNCHANGED <<owner, bases, access>>
  <2>1. UNCHANGED <<catalog, tokens, roles, requests, events>> /\ hooks' \subseteq hooks
    BY <1>7 DEF HookLost
  <2>2. TypeOK' /\ Grants' /\ Unissued'
    BY <1>0, <2>1 DEF TypeOK, catalog, roles, Grants, Unissued
  <2> QED BY <2>1, <2>2, RoleStep DEF catalog, roles, Live
<1>8. ASSUME NEW u \in Users, NEW role \in Granted, OperatorGrants(u, role) \/ OperatorRevokes(u, role)
      PROVE  AccessInv' /\ UNCHANGED <<owner, bases, access>>
  <2>1. /\ UNCHANGED <<catalog, tokens, members, narrow, requests, hooks>> /\ events' \in 0..MaxEvents
        /\ foreign' \in [Users -> SUBSET Roles]
    BY <1>0, <1>8 DEF OperatorGrants, OperatorRevokes, Event, TypeOK
  <2>2. TypeOK' /\ Grants' /\ Unissued'
    BY <1>0, <2>1 DEF TypeOK, catalog, Grants, Unissued
  <2> QED BY <2>1, <2>2, RoleStep DEF catalog, Live
<1>9. CASE Reconcile
  <2>1. UNCHANGED <<catalog, tokens, foreign, requests, hooks, events>>
    BY <1>9 DEF Reconcile
  <2>2. \A t \in Tokens : TokenWants(owner, access, t) \subseteq Roles
    BY DEF TokenWants, Reach, Set, Roles
  <2>3. /\ narrow' \in [Tokens -> [exists : BOOLEAN, groups : SUBSET Roles]]
        /\ \A t \in Tokens : IF Live(t) THEN narrow'[t].groups = TokenWants(owner, access, t)
                             ELSE narrow'[t].groups = {}
    BY <1>9, <2>2 DEF Reconcile, NoRole
  <2>4. members' \in [Users -> SUBSET Roles]
    BY <1>0, <1>9 DEF Reconcile, Reconciled, Set, TypeOK
  <2>5. TypeOK'
    BY <1>0, <2>1, <2>3, <2>4 DEF TypeOK, catalog
  <2>6. Grants' /\ Unissued'
    BY <1>0, <2>1, <2>3 DEF Grants, Unissued, Live
  <2> QED BY <2>1, <2>3, <2>5, <2>6, RoleStep DEF catalog, Live
<1> QED BY <1>1, <1>2, <1>3, <1>4, <1>5, <1>6, <1>7, <1>8, <1>9 DEF Next, Execute

LEMMA InvInit == Init => AccessInv
<1> SUFFICES ASSUME Init PROVE AccessInv
  OBVIOUS
<1> USE AccessConstants
<1>1. PICK b \in {Missing, [role |-> "admin", revision |-> 1]} :
        bases = [u \in Users |-> [s \in Sources |-> IF u = Bearer /\ s = "direct" THEN b ELSE Missing]]
  BY DEF Init
<1>2. b \in Basis
  BY DEF Basis, Missing, Roles
<1>3. bases \in [Users -> [Sources -> Basis]]
  BY <1>1, <1>2, MissingTyped
<1>4. TypeOK
  <2>1. owner \in Users /\ sysadmins \subseteq Users /\ requests \subseteq Request /\ events \in 0..MaxEvents
    <3>1. owner = Creator /\ sysadmins = {} /\ requests = {} /\ events = 0
      BY DEF Init
    <3> QED BY <3>1
  <2>2. members \in [Users -> SUBSET Roles] /\ foreign \in [Users -> SUBSET Roles]
    BY DEF Init, Set
  <2>3. tokens \in [Tokens -> Token] /\ hooks \subseteq {"create", "revoke"} \X Tokens
    BY DEF Init, Token
  <2>4. narrow \in [Tokens -> [exists : BOOLEAN, groups : SUBSET Roles]]
    BY DEF Init
  <2>5. access = [u \in Users |-> Effective(bases[u])]
    BY DEF Init
  <2> QED BY <1>3, <2>1, <2>2, <2>3, <2>4, <2>5 DEF TypeOK
<1>5. \A t \in Tokens : narrow[t].groups = {}
  BY DEF Init
<1> QED BY <1>4, <1>5 DEF Init, AccessInv, TokenWithinUser, Unissued, Grants

LEMMA InvStep == AccessInv /\ [Next]_vars => AccessInv'
<1> SUFFICES ASSUME AccessInv, [Next]_vars PROVE AccessInv'
  OBVIOUS
<1>1. CASE UNCHANGED vars
  <2>1. TypeOK' /\ Grants' /\ Unissued' /\ UNCHANGED <<owner, bases, access, tokens, narrow>>
    BY <1>1 DEF vars, catalog, roles, AccessInv, TokenWithinUser, TypeOK, Grants, Unissued
  <2> QED BY <2>1, RoleStep DEF Live
<1> QED BY <1>1, GrantStep, TransferStep, OtherStep

(* The invariant of the request, contribution and projection steps of      *)
(* access_service.py, access_contributions.py and role_sync.py.            *)
THEOREM AccessInvariant == Spec => []AccessInv
BY InvInit, InvStep, PTL DEF Spec

(* No hook that is late or lost, and no transfer, lets a token that can be *)
(* used reach more than its user (role_sync.py).                           *)
THEOREM TokensWithin == Spec => []TokenWithinUser
<1>1. AccessInv => TokenWithinUser
  BY DEF AccessInv
<1> QED BY <1>1, AccessInvariant, PTL

(* What access_contributions.py changes, role_sync.py projects in the same *)
(* step, or the step does not happen.                                      *)
THEOREM Projected == Spec => ProjectedTogether
<1> DEFINE Step == \A u \in Users :
          Wants(owner, access, u)' # Wants(owner, access, u)
              => members'[u] \cup foreign'[u] = Set(Wants(owner, access, u)')
<1>1. AccessInv /\ [Next]_vars => [Step]_vars
  <2> SUFFICES ASSUME AccessInv, Next PROVE Step
    OBVIOUS
  <2>1. ASSUME NEW q \in requests, Grant(q) \/ Revoke(q) PROVE Step
    BY <2>1, GrantStep
  <2>2. ASSUME NEW q \in requests, Transfer(q) PROVE Step
    BY <2>2, TransferStep
  <2>3. CASE ~ \E q \in requests : Grant(q) \/ Revoke(q) \/ Transfer(q)
    BY <2>3, OtherStep DEF Wants
  <2> QED BY <2>1, <2>2, <2>3
<1> QED BY <1>1, AccessInvariant, PTL DEF Spec, ProjectedTogether

(* apply_contribution never lets an older or repeated request of an        *)
(* automated grantor win.                                                  *)
THEOREM NewestWins == Spec => NeverOverwrittenByOlder
<1> DEFINE Step == \A u \in Users, s \in Sources :
          LET old == bases[u][s]  new == bases'[u][s]
          IN  old # Missing /\ new # Missing /\ new # old => new.revision > old.revision
<1>1. AccessInv /\ [Next]_vars => [Step]_vars
  <2> SUFFICES ASSUME AccessInv, Next PROVE Step
    OBVIOUS
  <2>1. ASSUME NEW us, Advances(bases', us) PROVE Step
    BY <2>1 DEF Advances
  <2>2. CASE ~ \E q \in requests : Grant(q) \/ Revoke(q) \/ Transfer(q)
    BY <2>2, OtherStep
  <2> QED BY <2>1, <2>2, GrantStep, TransferStep
<1> QED BY <1>1, AccessInvariant, PTL DEF Spec, NeverOverwrittenByOlder

(* Rights are looked at again under the lock, but for the system           *)
(* administrator's transfer (access_service.py).                           *)
THEOREM RightsAtCommit == Spec => RightAtCommit
<1> DEFINE Step == \A q \in requests :
          q \notin requests' /\ (bases' # bases \/ owner' # owner) => Allowed(q) \/ q.asAdmin
<1>1. AccessInv /\ [Next]_vars => [Step]_vars
  <2> SUFFICES ASSUME AccessInv, Next PROVE Step
    OBVIOUS
  <2>1. ASSUME NEW q \in requests, Grant(q) \/ Revoke(q) PROVE Step
    BY <2>1 DEF Grant, Revoke, Done
  <2>2. ASSUME NEW q \in requests, Transfer(q) PROVE Step
    <3>1. requests' = requests \ {q} /\ (owner = q.by \/ q.asAdmin) /\ q.op = "transfer"
      BY <2>2 DEF Transfer, Done
    <3> QED BY <3>1 DEF Allowed, Owns
  <2>3. CASE ~ \E q \in requests : Grant(q) \/ Revoke(q) \/ Transfer(q)
    BY <2>3, OtherStep
  <2> QED BY <2>1, <2>2, <2>3
<1> QED BY <1>1, AccessInvariant, PTL DEF Spec, RightAtCommit
=============================================================================
