---------------------------- MODULE AuthSessions ----------------------------
(***************************************************************************)
(* The sessions of one user: the rows of refresh_sessions in Postgres, the *)
(* Redis denylist, the cookies the browsers were given, and the endpoints  *)
(* /login, /refresh, /logout and /logout-all running side by side.  (No    *)
(* statement and no key of one user touches those of another.)             *)
(*                                                                         *)
(* Postgres runs at READ COMMITTED.  A request keeps its row locks until   *)
(* it commits or rolls back; a DELETE fixes the rows it will take when the *)
(* statement starts, then waits for those that are locked.  Redis writes   *)
(* take effect at once and no rollback undoes them.                        *)
(***************************************************************************)
EXTENDS Naturals, FiniteSets

CONSTANTS
    Families,        \* uuids: a login takes a fresh one; also the JWT's sid
    Tokens,          \* refresh tokens, one refresh_sessions row each
    FamilyOf,        \* FamilyOf[t]: the family in which t may be issued
    Requests,        \* requests that may be under way at the same time
    AccessTTL,       \* ACCESS_TTL_SECONDS, also the TTL of the denylist
    Leeway,          \* decode_access's leeway
    RefreshTTL,      \* REFRESH_TTL_SECONDS
    Grace,           \* cleanup's grace_days
    SessionLimit,    \* SESSION_LIMIT_PER_USER
    MaxTime          \* bound: the last second of a behaviour

ASSUME FamilyOfType == FamilyOf \in [Tokens -> Families]
ASSUME TimesType ==
    /\ AccessTTL \in Nat /\ Leeway \in Nat /\ RefreshTTL \in Nat
    /\ Grace \in Nat /\ MaxTime \in Nat
ASSUME LimitType == SessionLimit \in Nat \ {0}

VARIABLES
    now,             \* the clock, in seconds
    row,             \* each token's committed row, see RowStates
    born,            \* its created_at; expires_at is RefreshTTL later
    parent,          \* <<t, n>>: row n has parent_id t
    revokedUntil,    \* when the key revoked_sid:<f> expires (0: never set)
    epoch,           \* the value of user_epoch (0: never set)
    issued,          \* refresh tokens some browser was given
    access,          \* access JWTs some browser was given
    at,              \* where each request stands
    op,              \* the endpoint it runs
    hold,            \* rows its transaction has locked
    gone,            \* those of them its transaction has deleted
    visit,           \* rows its running DELETE statement will take
    fams,            \* families it revokes
    denied,          \* those of them it has put on the denylist
    fresh,           \* the row it has inserted and committed
    ended            \* history: families whose revocation was committed

table    == <<row, born, parent>>
redis    == <<revokedUntil, epoch>>
browsers == <<issued, access>>
work     == <<hold, gone, visit, fams, denied, fresh>>
vars     == <<now, table, redis, browsers, at, op, work, ended>>

-----------------------------------------------------------------------------
\* "revoked": deleted by an endpoint; "cleaned": deleted by the cleanup script.
RowStates == {"none", "unused", "used", "revoked", "cleaned"}
Ops       == {"none", "refresh", "login", "logout", "logout-all"}
Places    == {"idle", "rotating", "delete", "deleting", "deny", "bump", "raise",
              "commit", "create", "mint"}

Present(t) == row[t] \in {"unused", "used"}
Expired(t) == born[t] + RefreshTTL <= now
Live(t)    == row[t] = "unused" /\ ~Expired(t)
RowsOf(f)  == {t \in Tokens : FamilyOf[t] = f}

\* decode_access has not refused the JWT's exp claim before time s.
InTime(a, s) == s < a.iat + AccessTTL + Leeway

\* get_current_user accepts the JWT: it has not expired, its sid is not on the
\* denylist, and the user's epoch, a key with a TTL, is missing or not later.
Accepts(a) ==
    /\ InTime(a, now)
    /\ now >= revokedUntil[a.family]
    /\ now >= epoch + AccessTTL \/ a.iat >= epoch

Init ==
    /\ now = 1
    /\ row = [t \in Tokens |-> "none"]
    /\ born = [t \in Tokens |-> 0]
    /\ parent = {}
    /\ revokedUntil = [f \in Families |-> 0]
    /\ epoch = 0
    /\ issued = {}
    /\ access = {}
    /\ at = [r \in Requests |-> "idle"]
    /\ op = [r \in Requests |-> "none"]
    /\ hold = [r \in Requests |-> {}]
    /\ gone = [r \in Requests |-> {}]
    /\ visit = [r \in Requests |-> {}]
    /\ fams = [r \in Requests |-> {}]
    /\ denied = [r \in Requests |-> {}]
    /\ fresh = [r \in Requests |-> {}]
    /\ ended = {}

-----------------------------------------------------------------------------
(***************************************************************************)
(* What the endpoints share.                                               *)
(***************************************************************************)
Goto(r, place) == at' = [at EXCEPT ![r] = place]

\* The first statement of an endpoint: it locks the rows L and will revoke the
\* families F.
Begin(r, endpoint, L, F, place) ==
    /\ at[r] = "idle"
    /\ Goto(r, place)
    /\ op' = [op EXCEPT ![r] = endpoint]
    /\ hold' = [hold EXCEPT ![r] = L]
    /\ fams' = [fams EXCEPT ![r] = F]
    /\ UNCHANGED <<now, table, redis, browsers, gone, visit, denied, fresh, ended>>

\* Mutant: a transaction that is neither committed nor rolled back.
ReleaseLater(r) == UNCHANGED <<hold, gone, visit, fams, denied>>

\* The transaction is over and holds nothing any more.
Release(r) ==
    /\ hold' = [hold EXCEPT ![r] = {}]
    /\ gone' = [gone EXCEPT ![r] = {}]
    /\ visit' = [visit EXCEPT ![r] = {}]
    /\ fams' = [fams EXCEPT ![r] = {}]
    /\ denied' = [denied EXCEPT ![r] = {}]

\* The response is sent and the Session closed.
End(r) ==
    /\ Goto(r, "idle")
    /\ op' = [op EXCEPT ![r] = "none"]
    /\ Release(r)
    /\ fresh' = [fresh EXCEPT ![r] = {}]

\* Mutant: the SELECT of rotate without with_for_update().
LockedNever(r, t) == FALSE

Locked(r, t) == \E s \in Requests \ {r} : t \in hold[s]

\* The table without the rows D; ON DELETE SET NULL clears parent_id.
Erase(D, how)  == row' = [t \in Tokens |-> IF t \in D THEN how ELSE row[t]]
Orphan(D)      == parent' = {p \in parent : p[1] \notin D /\ p[2] \notin D}
ChildrenOf(D)  == {p[2] : p \in {q \in parent : q[1] \in D}}

-----------------------------------------------------------------------------
(***************************************************************************)
(* revoke_family and revoke_all_for_user.                                  *)
(***************************************************************************)

\* The family whose turn it is; logout-all revokes all of its own at once.
Current(r) == CHOOSE f \in fams[r] \ denied[r] : TRUE

Named(r, t) == op[r] = "logout-all" \/ FamilyOf[t] = Current(r)

\* Mutant: the used rows of the family are kept for reuse detection.
TargetsUnused(r) == {t \in Tokens : row[t] = "unused" /\ Named(r, t)}

\* The rows a DELETE finds: all of the user's, or those of one family.
Targets(r) == {t \in Tokens : Present(t) /\ Named(r, t)}

StartDelete(r) ==
    /\ at[r] = "delete"
    /\ visit' = [visit EXCEPT ![r] = Targets(r)]
    /\ Goto(r, "deleting")
    /\ UNCHANGED <<now, table, redis, browsers, op, hold, gone, fams, denied, fresh, ended>>

\* The rows whose locks the DELETE needs: its own and, to clear parent_id, the
\* children of those.
Needs(r) == visit[r] \cup ChildrenOf(visit[r])

\* Every lock has been got.  A row that another transaction deleted meanwhile is
\* skipped; a row that was inserted meanwhile is not seen.
Delete(r) ==
    /\ at[r] = "deleting"
    /\ \A t \in Needs(r) : ~Locked(r, t)
    /\ gone' = [gone EXCEPT ![r] = @ \cup {t \in visit[r] : Present(t)}]
    /\ hold' = [hold EXCEPT ![r] = @ \cup {t \in Needs(r) : Present(t)}]
    /\ Goto(r, IF fams[r] = {} THEN "bump" ELSE "deny")
    /\ UNCHANGED <<now, table, redis, browsers, op, visit, fams, denied, fresh, ended>>

\* Where a request goes when the families F are on the denylist.
AfterDeny(r, F) ==
    IF op[r] = "login"
    THEN IF F = fams[r] THEN "create" ELSE "delete"
    ELSE IF F # fams[r] THEN "deny" ELSE IF op[r] = "logout" THEN "commit" ELSE "bump"

\* Mutants: the TTL in the wrong unit, nothing written.
DenyForLeeway(f) == revokedUntil' = [revokedUntil EXCEPT ![f] = now + Leeway]
DenyNothing(f)   == UNCHANGED revokedUntil

\* revoke_sid: SET revoked_sid:<f> with EX.
RevokeSid(f) == revokedUntil' = [revokedUntil EXCEPT ![f] = now + AccessTTL]

\* revoke_family denies the family it has just deleted.
Deny(r, f) ==
    /\ at[r] = "deny"
    /\ f \in fams[r] \ denied[r]
    /\ op[r] = "logout-all" \/ f = Current(r)
    /\ RevokeSid(f)
    /\ denied' = [denied EXCEPT ![r] = @ \cup {f}]
    /\ Goto(r, AfterDeny(r, denied[r] \cup {f}))
    /\ UNCHANGED <<now, table, epoch, browsers, op, hold, gone, visit, fams, fresh, ended>>

\* bump_user_epoch: SET user_epoch:<u> to the current second.
Bump(r) ==
    /\ at[r] = "bump"
    /\ epoch' = now
    /\ Goto(r, IF op[r] = "refresh" THEN "raise" ELSE "commit")
    /\ UNCHANGED <<now, table, revokedUntil, browsers, op, work, ended>>

-----------------------------------------------------------------------------
\* Bounds: a request that will insert a row starts only while the instance has
\* an id left for it.  (uuids and sequence numbers do not run out.)
Unborn(f)      == \A t \in RowsOf(f) : row[t] = "none"
LoginsToInsert == {r \in Requests : op[r] = "login" /\ at[r] # "mint"}
FamilyLeft     ==
    Cardinality(LoginsToInsert) < Cardinality({f \in Families : RowsOf(f) # {} /\ Unborn(f)})
TokenLeft(f)   == \E n \in RowsOf(f) : row[n] = "none"

(***************************************************************************)
(* POST /refresh.                                                          *)
(***************************************************************************)

\* SELECT ... FOR UPDATE waits until no other transaction has the row.  (No row,
\* or an expired one: 401 and nothing changes.)
LockUnused(r, t) ==
    /\ t \in issued
    /\ ~Locked(r, t)
    /\ Live(t)
    /\ TokenLeft(FamilyOf[t])
    /\ Begin(r, "refresh", {t}, {}, "rotating")

\* The row was used already: rotate revokes the family.
LockUsed(r, t) ==
    /\ t \in issued
    /\ ~Locked(r, t)
    /\ row[t] = "used"
    /\ ~Expired(t)
    /\ Begin(r, "refresh", {t}, {FamilyOf[t]}, "delete")

\* Mutant: used_at is left NULL.
RotatedUnused(t, n) == [row EXCEPT ![n] = "unused"]

Rotated(t, n) == [row EXCEPT ![t] = "used", ![n] = "unused"]

\* used_at, the INSERT of the next token and the COMMIT.
Rotate(r, t, n) ==
    /\ at[r] = "rotating"
    /\ t \in hold[r]
    /\ row[n] = "none"
    /\ FamilyOf[n] = FamilyOf[t]
    /\ row' = Rotated(t, n)
    /\ born' = [born EXCEPT ![n] = now]
    /\ parent' = parent \cup {<<t, n>>}
    /\ Goto(r, "mint")
    /\ Release(r)
    /\ fresh' = [fresh EXCEPT ![r] = {n}]
    /\ UNCHANGED <<now, redis, browsers, op, ended>>

\* The response with the cookies.  /refresh looks its new row up again and
\* answers 500 when a revocation has taken it; /login does not look.
Mint(r, n) ==
    /\ at[r] = "mint"
    /\ n \in fresh[r]
    /\ IF op[r] = "login" \/ Present(n)
       THEN /\ issued' = issued \cup {n}
            /\ access' = access \cup {[family |-> FamilyOf[n], iat |-> now]}
       ELSE UNCHANGED browsers
    /\ End(r)
    /\ UNCHANGED <<now, table, redis, ended>>

\* Mutant: the dependency does not close its Session.
RaiseUnclosed(r) ==
    /\ at[r] = "raise"
    /\ UNCHANGED <<now, table, redis, browsers, at, op, work, ended>>

\* ReuseDetected leaves the endpoint before its commit, and db_dep closes the
\* Session: the DELETE is rolled back, what Redis was told stays.
Raise(r) ==
    /\ at[r] = "raise"
    /\ End(r)
    /\ UNCHANGED <<now, table, redis, browsers, ended>>

-----------------------------------------------------------------------------
(***************************************************************************)
(* POST /logout, /logout-all and /login.                                   *)
(***************************************************************************)

\* The SELECT looks neither at used_at nor at expires_at and locks nothing.
Logout(r, t) ==
    /\ t \in issued
    /\ Present(t)
    /\ Begin(r, "logout", {}, {FamilyOf[t]}, "delete")

\* SELECT DISTINCT family_id.
LogoutAll(r, a) ==
    /\ a \in access
    /\ Accepts(a)
    /\ Begin(r, "logout-all", {}, {FamilyOf[t] : t \in {s \in Tokens : Present(s)}}, "delete")

\* The COMMIT of a revocation makes its deletes visible.
Commit(r) ==
    /\ at[r] = "commit"
    /\ Erase(gone[r], "revoked")
    /\ Orphan(gone[r])
    /\ ended' = ended \cup fams[r]
    /\ End(r)
    /\ UNCHANGED <<now, born, redis, browsers>>

\* Mutant: `>` for `>=` in enforce_limit's loop.
ExcessAfter(n) == IF n > SessionLimit THEN n - SessionLimit ELSE 0

\* How many of n sessions enforce_limit evicts.
Excess(n) == IF n >= SessionLimit THEN n - SessionLimit + 1 ELSE 0

\* enforce_limit's SELECT; E are the oldest sessions, which have to go.
Login(r, E) ==
    LET active == {t \in Tokens : Live(t)} IN
    /\ FamilyLeft
    /\ E \subseteq active
    /\ Cardinality(E) = Excess(Cardinality(active))
    /\ \A e \in E, t \in active \ E : born[e] <= born[t]
    /\ Begin(r, "login", {}, {FamilyOf[t] : t \in E}, IF E = {} THEN "create" ELSE "delete")

\* create_session under a fresh family_id, and the COMMIT.
Create(r, n) ==
    /\ at[r] = "create"
    /\ Unborn(FamilyOf[n])
    /\ row' = [t \in Tokens |-> IF t = n THEN "unused"
                                ELSE IF t \in gone[r] THEN "revoked" ELSE row[t]]
    /\ Orphan(gone[r])
    /\ born' = [born EXCEPT ![n] = now]
    /\ ended' = ended \cup fams[r]
    /\ Goto(r, "mint")
    /\ Release(r)
    /\ fresh' = [fresh EXCEPT ![r] = {n}]
    /\ UNCHANGED <<now, redis, browsers, op>>

-----------------------------------------------------------------------------
(***************************************************************************)
(* Failures, time and the cleanup script.                                  *)
(***************************************************************************)

\* A Redis or Postgres error, the death of the process, or a response that is
\* lost: an open transaction is rolled back, Redis keeps what it was told.
Fail(r) ==
    /\ at[r] \notin {"idle", "raise"}
    /\ End(r)
    /\ UNCHANGED <<now, table, redis, browsers, ended>>

Waits(r, s) == at[r] = "deleting" /\ \E t \in Needs(r) : t \in hold[s]

\* Postgres aborts a transaction that waits in a circle.
Victim(r) ==
    /\ \E C \in SUBSET Requests :
         r \in C /\ \A s \in C : \E u \in C \ {s} : Waits(s, u)
    /\ Fail(r)

\* A second passes.  (JWTs that can never be accepted again are forgotten.)
Tick ==
    /\ now < MaxTime
    /\ now' = now + 1
    /\ access' = {a \in access : InTime(a, now + 1)}
    /\ UNCHANGED <<table, redis, issued, at, op, work, ended>>

\* cleanup(): DELETE ... WHERE expires_at < now - grace, and its COMMIT.
Cleanup ==
    LET old == {t \in Tokens : Present(t) /\ born[t] + RefreshTTL + Grace < now} IN
    /\ old # {}
    /\ \A t \in old \cup ChildrenOf(old), r \in Requests : t \notin hold[r]
    /\ Erase(old, "cleaned")
    /\ Orphan(old)
    /\ UNCHANGED <<now, born, redis, browsers, at, op, work, ended>>

-----------------------------------------------------------------------------
Arrive(r) ==
    \/ \E t \in Tokens : LockUnused(r, t) \/ LockUsed(r, t) \/ Logout(r, t)
    \/ \E a \in access : LogoutAll(r, a)
    \/ \E E \in SUBSET Tokens : Login(r, E)

Step(r) ==
    \/ StartDelete(r) \/ Delete(r) \/ Bump(r) \/ Raise(r) \/ Commit(r) \/ Victim(r)
    \/ \E f \in Families : Deny(r, f)
    \/ \E t, n \in Tokens : Rotate(r, t, n)
    \/ \E n \in Tokens : Mint(r, n) \/ Create(r, n)

Next ==
    \/ \E r \in Requests : Arrive(r) \/ Step(r) \/ Fail(r)
    \/ Tick \/ Cleanup

Spec == Init /\ [][Next]_vars

\* A request that has started is run to its end by the web process; Postgres
\* resolves deadlocks and hands a row lock to those waiting in their order, so
\* that a DELETE gets its rows although they are locked again and again.
\* Nothing makes a user send a request.
Fairness == \A r \in Requests : WF_vars(Step(r)) /\ SF_vars(Delete(r))
FairSpec == Spec /\ Fairness

-----------------------------------------------------------------------------
(***************************************************************************)
(* Properties.                                                             *)
(***************************************************************************)

\* A request that is over has left nothing behind, one that rotates has one row
\* locked and no other work, and one that answers has one new row and no locks.
RequestsOK ==
    \A r \in Requests :
        /\ at[r] = "idle" =>
             hold[r] = {} /\ gone[r] = {} /\ visit[r] = {} /\ fams[r] = {} /\ fresh[r] = {}
        /\ at[r] = "rotating" => fams[r] = {} /\ \E t \in Tokens : hold[r] = {t}
        /\ at[r] = "mint" => hold[r] = {} /\ \E n \in Tokens : fresh[r] = {n}

\* The shape of the table, the keys, the cookies and the requests.
TypeOK ==
    /\ now \in Nat
    /\ row \in [Tokens -> RowStates]
    /\ born \in [Tokens -> Nat]
    /\ parent \subseteq Tokens \X Tokens
    /\ revokedUntil \in [Families -> Nat]
    /\ epoch \in Nat
    /\ issued \subseteq Tokens
    /\ access \subseteq [family : Families, iat : Nat]
    /\ at \in [Requests -> Places]
    /\ op \in [Requests -> Ops]
    /\ hold \in [Requests -> SUBSET Tokens]
    /\ gone \in [Requests -> SUBSET Tokens]
    /\ visit \in [Requests -> SUBSET Tokens]
    /\ fams \in [Requests -> SUBSET Families]
    /\ denied \in [Requests -> SUBSET Families]
    /\ fresh \in [Requests -> SUBSET Tokens]
    /\ ended \subseteq Families
    /\ RequestsOK

\* However many tabs refresh at once, and whatever revocations run beside them,
\* a family has at most one refresh token that can still be exchanged.
OneLiveToken ==
    \A t, n \in Tokens :
        FamilyOf[t] = FamilyOf[n] /\ row[t] = "unused" /\ row[n] = "unused" => t = n

\* A refresh token is exchanged for at most one other, and is used from then on:
\* the generations of a family form a chain.
RotatedOnce ==
    \A p, q \in parent :
        /\ p[1] = q[1] => p = q
        /\ row[p[1]] = "used"

\* No row is revoked behind the back of the access JWTs: before the COMMIT of
\* the DELETE, the sid was put on the denylist or the user's epoch was raised.
RevocationReachesRedis ==
    \A t \in Tokens : row[t] = "revoked" => revokedUntil[FamilyOf[t]] > 0 \/ epoch > 0

\* Every request is answered, even when two revocations wait for each other.
RequestsEnd == \A r \in Requests : at[r] # "idle" ~> at[r] = "idle"

\* "POST /logout: family deleted": when a logout, a logout-all or an eviction has
\* been committed, its families have no row.
EndedFamiliesHaveNoRows == \A t \in Tokens : FamilyOf[t] \in ended => ~Present(t)

\* The access JWTs of an ended family are refused until they expire by their own
\* `exp` claim.
EndedFamiliesAreDenied ==
    \A a \in access : a.family \in ended /\ Accepts(a) => now >= a.iat + AccessTTL

\* "Max 5 sessions per user": the rows that count, in the committed table.
WithinSessionLimit == Cardinality({t \in Tokens : Live(t)}) <= SessionLimit

\* "POST /refresh with already-used token: 401, entire family deleted from DB".
ReuseDeletesFamily ==
    [][\A r \in Requests, t \in Tokens :
        at[r] = "raise" /\ at'[r] = "idle" /\ FamilyOf[t] \in fams[r] => ~Present(t)']_vars
=============================================================================
