-------------------------- MODULE AuthSessionsProofs --------------------------
(***************************************************************************)
(* What AuthSessions guarantees for any number of families, tokens and     *)
(* concurrent requests, any TTLs and any failures: types, one live token   *)
(* per family, and rotation that never forks.                              *)
(***************************************************************************)
EXTENDS AuthSessions, FiniteSetTheorems, TLAPS

\* The Redis SET of revoke_sid keeps the keys' times natural numbers, and the
\* family a request works on is one of those it has left.
LEMMA TimesAdd == \A m \in Nat : m + AccessTTL \in Nat /\ m + 1 \in Nat
BY TimesType

\* The type invariant, with what a request holds at each place, for every value
\* of the constants.
THEOREM TypeCorrect == Spec => []TypeOK
<1> USE FamilyOfType
<1>1. Init => TypeOK
  BY DEF Init, TypeOK, RequestsOK, RowStates, Places, Ops
<1>2. TypeOK /\ [Next]_vars => TypeOK'
  <2> SUFFICES ASSUME TypeOK, [Next]_vars PROVE TypeOK'
    OBVIOUS
  <2> USE DEF TypeOK, RequestsOK, RowStates, Places, Ops, table, redis, browsers, work
  <2>1. ASSUME NEW r \in Requests, NEW t \in Tokens, LockUnused(r, t) PROVE TypeOK'
    BY <2>1 DEF LockUnused, Begin, Goto
  <2>2. ASSUME NEW r \in Requests, NEW t \in Tokens, LockUsed(r, t) PROVE TypeOK'
    BY <2>2 DEF LockUsed, Begin, Goto
  <2>3. ASSUME NEW r \in Requests, NEW t \in Tokens, Logout(r, t) PROVE TypeOK'
    BY <2>3 DEF Logout, Begin, Goto
  <2>4. ASSUME NEW r \in Requests, NEW a \in access, LogoutAll(r, a) PROVE TypeOK'
    BY <2>4 DEF LogoutAll, Begin, Goto
  <2>5. ASSUME NEW r \in Requests, NEW E \in SUBSET Tokens, Login(r, E) PROVE TypeOK'
    BY <2>5 DEF Login, Begin, Goto
  <2>6. ASSUME NEW r \in Requests, StartDelete(r) PROVE TypeOK'
    BY <2>6 DEF StartDelete, Targets, Goto
  <2>7. ASSUME NEW r \in Requests, Delete(r) PROVE TypeOK'
    BY <2>7 DEF Delete, Needs, ChildrenOf, Present, Goto
  <2>8. ASSUME NEW r \in Requests, NEW f \in Families, Deny(r, f) PROVE TypeOK'
    <3>1. revokedUntil' \in [Families -> Nat]
      BY <2>8, TimesAdd DEF Deny, RevokeSid
    <3>2. AfterDeny(r, denied[r] \cup {f}) \in {"create", "delete", "deny", "commit", "bump"}
      BY DEF AfterDeny
    <3> QED
      BY <2>8, <3>1, <3>2 DEF Deny, Goto
  <2>9. ASSUME NEW r \in Requests, Bump(r) PROVE TypeOK'
    BY <2>9 DEF Bump, Goto
  <2>10. ASSUME NEW r \in Requests, NEW t \in Tokens, NEW n \in Tokens, Rotate(r, t, n) PROVE TypeOK'
    BY <2>10 DEF Rotate, Rotated, Release, Goto
  <2>11. ASSUME NEW r \in Requests, NEW n \in Tokens, Mint(r, n) PROVE TypeOK'
    BY <2>11 DEF Mint, End, Release, Goto
  <2>12. ASSUME NEW r \in Requests, Raise(r) \/ Fail(r) PROVE TypeOK'
    <3>1. End(r) /\ UNCHANGED <<now, table, redis, browsers, ended>>
      BY <2>12 DEF Raise, Fail
    <3>2. /\ hold' \in [Requests -> SUBSET Tokens] /\ gone' \in [Requests -> SUBSET Tokens]
          /\ visit' \in [Requests -> SUBSET Tokens] /\ fresh' \in [Requests -> SUBSET Tokens]
          /\ fams' \in [Requests -> SUBSET Families] /\ denied' \in [Requests -> SUBSET Families]
      BY <3>1 DEF End, Release
    <3>3. at' \in [Requests -> Places] /\ op' \in [Requests -> Ops]
      BY <3>1 DEF End, Goto
    <3>4. RequestsOK'
      BY <3>1 DEF End, Release, Goto
    <3> QED
      BY <3>1, <3>2, <3>3, <3>4
  <2>13. ASSUME NEW r \in Requests, Commit(r) PROVE TypeOK'
    BY <2>13 DEF Commit, Erase, Orphan, End, Release, Goto
  <2>14. ASSUME NEW r \in Requests, NEW n \in Tokens, Create(r, n) PROVE TypeOK'
    BY <2>14 DEF Create, Orphan, Release, Goto
  <2>15. CASE Tick
    BY <2>15, TimesAdd DEF Tick
  <2>16. CASE Cleanup
    BY <2>16 DEF Cleanup, Erase, Orphan
  <2>17. CASE UNCHANGED vars
    BY <2>17 DEF vars
  <2> QED
    BY <2>1, <2>2, <2>3, <2>4, <2>5, <2>6, <2>7, <2>8, <2>9, <2>10, <2>11, <2>12, <2>13,
       <2>14, <2>15, <2>16, <2>17 DEF Next, Arrive, Step, Victim
<1> QED
  BY <1>1, <1>2, PTL DEF Spec

-----------------------------------------------------------------------------
(***************************************************************************)
(* One live token per family.  The strengthening says what the row locks   *)
(* are for: they exclude each other, a transaction deletes only what it    *)
(* has locked, and the row that a rotation has read as unused stays unused *)
(* until it commits.                                                       *)
(***************************************************************************)
LocksExclude == \A r, s \in Requests : r # s => hold[r] \cap hold[s] = {}

GoneIsHeld == \A r \in Requests : gone[r] \subseteq hold[r]

RotatingIsUnused ==
    \A r \in Requests, t \in Tokens : at[r] = "rotating" /\ t \in hold[r] => row[t] = "unused"

RowInv == LocksExclude /\ GoneIsHeld /\ RotatingIsUnused /\ OneLiveToken /\ RotatedOnce

\* A first statement locks at most one row, which is unused if it is to be
\* rotated and which nobody else has locked.
LEMMA BeginKeeps ==
    ASSUME TypeOK, RowInv, NEW r \in Requests, NEW endpoint, NEW L \in SUBSET Tokens, NEW F,
           NEW place, Begin(r, endpoint, L, F, place),
           \A t \in L : ~Locked(r, t),
           place = "rotating" => \A t \in L : row[t] = "unused"
    PROVE  RowInv'
<1> USE DEF TypeOK, table
<1>1. gone[r] = {} /\ hold[r] = {}
  BY DEF Begin, RequestsOK
<1>2. LocksExclude'
  BY DEF RowInv, LocksExclude, Begin, Locked
<1>3. GoneIsHeld'
  BY <1>1 DEF RowInv, GoneIsHeld, Begin
<1>4. RotatingIsUnused'
  BY DEF RowInv, RotatingIsUnused, Begin, Goto
<1> QED
  BY <1>2, <1>3, <1>4 DEF RowInv, OneLiveToken, RotatedOnce, Begin

\* A step that changes no row and, of the locks, at most drops those of one
\* request that does not go on rotating.
LEMMA DroppingKeeps ==
    ASSUME TypeOK, RowInv, NEW r \in Requests, End(r), UNCHANGED table
    PROVE  RowInv'
<1> USE DEF TypeOK, table, RowInv, End, Release, Goto
<1>1. LocksExclude'
  BY DEF LocksExclude
<1>2. GoneIsHeld'
  BY DEF GoneIsHeld
<1>3. RotatingIsUnused'
  BY DEF RotatingIsUnused
<1> QED
  BY <1>1, <1>2, <1>3 DEF OneLiveToken, RotatedOnce

\* A step that leaves the table and the locks alone and starts no rotation.
LEMMA OtherwiseKeeps ==
    ASSUME TypeOK, RowInv, UNCHANGED <<table, hold, gone>>,
           \A r \in Requests : at'[r] = "rotating" => at[r] = "rotating"
    PROVE  RowInv'
BY DEF TypeOK, table, RowInv, LocksExclude, GoneIsHeld, RotatingIsUnused, OneLiveToken, RotatedOnce

\* Deleting locked rows, or rows nobody has locked, with ON DELETE SET NULL.
LEMMA ErasingKeeps ==
    ASSUME TypeOK, RowInv, NEW D \in SUBSET Tokens, NEW how \in {"revoked", "cleaned"},
           Erase(D, how), Orphan(D)
    PROVE  OneLiveToken' /\ RotatedOnce'
<1> USE DEF TypeOK, RowInv, Erase, Orphan
<1>1. OneLiveToken'
  BY DEF OneLiveToken
<1>2. RotatedOnce'
  <2> SUFFICES ASSUME NEW p \in parent', NEW q \in parent'
               PROVE  (p[1] = q[1] => p = q) /\ row'[p[1]] = "used"
    BY DEF RotatedOnce
  <2>1. p \in parent /\ q \in parent /\ p[1] \notin D /\ p[1] \in Tokens
    OBVIOUS
  <2> QED
    BY <2>1 DEF RotatedOnce
<1> QED
  BY <1>1, <1>2

\* The table stays a set of chains with one live end per family, whatever
\* refreshes, logins, revocations and failures overlap.
THEOREM TableInvariant == Spec => []RowInv
<1> USE FamilyOfType
<1>1. Init => RowInv
  BY DEF Init, RowInv, LocksExclude, GoneIsHeld, RotatingIsUnused, OneLiveToken, RotatedOnce
<1>2. TypeOK /\ TypeOK' /\ RowInv /\ [Next]_vars => RowInv'
  <2> SUFFICES ASSUME TypeOK, TypeOK', RowInv, [Next]_vars PROVE RowInv'
    OBVIOUS
  <2>1. ASSUME NEW r \in Requests, NEW t \in Tokens, LockUnused(r, t) PROVE RowInv'
    <3>1. \A u \in {t} : ~Locked(r, u) /\ row[u] = "unused"
      BY <2>1 DEF LockUnused, Live
    <3>2. Begin(r, "refresh", {t}, {}, "rotating")
      BY <2>1 DEF LockUnused
    <3> QED
      BY <3>1, <3>2, BeginKeeps
  <2>2. ASSUME NEW r \in Requests, NEW t \in Tokens, LockUsed(r, t) PROVE RowInv'
    <3>1. \A u \in {t} : ~Locked(r, u)
      BY <2>2 DEF LockUsed
    <3>2. Begin(r, "refresh", {t}, {FamilyOf[t]}, "delete")
      BY <2>2 DEF LockUsed
    <3> QED
      BY <3>1, <3>2, BeginKeeps
  <2>3. ASSUME NEW r \in Requests, NEW t \in Tokens, Logout(r, t) PROVE RowInv'
    <3>1. Begin(r, "logout", {}, {FamilyOf[t]}, "delete")
      BY <2>3 DEF Logout
    <3> QED
      BY <3>1, BeginKeeps
  <2>4. ASSUME NEW r \in Requests, NEW a \in access, LogoutAll(r, a) PROVE RowInv'
    <3>1. Begin(r, "logout-all", {}, {FamilyOf[t] : t \in {s \in Tokens : Present(s)}}, "delete")
      BY <2>4 DEF LogoutAll
    <3> QED
      BY <3>1, BeginKeeps
  <2>5. ASSUME NEW r \in Requests, NEW E \in SUBSET Tokens, Login(r, E) PROVE RowInv'
    <3>1. Begin(r, "login", {}, {FamilyOf[t] : t \in E}, IF E = {} THEN "create" ELSE "delete")
      BY <2>5 DEF Login
    <3>2. (IF E = {} THEN "create" ELSE "delete") # "rotating"
      OBVIOUS
    <3> QED
      BY <3>1, <3>2, BeginKeeps
  <2>6. ASSUME NEW r \in Requests, StartDelete(r) PROVE RowInv'
    BY <2>6, OtherwiseKeeps DEF StartDelete, Goto, TypeOK
  <2>7. ASSUME NEW r \in Requests, Delete(r) PROVE RowInv'
    <3> USE <2>7 DEF Delete, TypeOK, RowInv, table
    <3>1. LocksExclude'
      <4>1. \A t \in Needs(r), s \in Requests \ {r} : t \notin hold[s]
        BY DEF Locked
      <4>2. hold'[r] \subseteq hold[r] \cup Needs(r) /\ \A s \in Requests \ {r} : hold'[s] = hold[s]
        OBVIOUS
      <4> QED
        BY <4>1, <4>2 DEF LocksExclude
    <3>2. GoneIsHeld'
      BY DEF GoneIsHeld, Needs
    <3>3. RotatingIsUnused'
      BY DEF RotatingIsUnused, Goto
    <3> QED
      BY <3>1, <3>2, <3>3 DEF OneLiveToken, RotatedOnce
  <2>8. ASSUME NEW r \in Requests, NEW f \in Families, Deny(r, f) PROVE RowInv'
    <3>1. AfterDeny(r, denied[r] \cup {f}) # "rotating"
      BY DEF AfterDeny
    <3> QED
      BY <2>8, <3>1, OtherwiseKeeps DEF Deny, Goto, TypeOK
  <2>9. ASSUME NEW r \in Requests, Bump(r) PROVE RowInv'
    BY <2>9, OtherwiseKeeps DEF Bump, Goto, TypeOK, work
  <2>10. ASSUME NEW r \in Requests, NEW t \in Tokens, NEW n \in Tokens, Rotate(r, t, n) PROVE RowInv'
    <3> USE <2>10 DEF Rotate, TypeOK, RowInv
    <3>1. row[t] = "unused" /\ row[n] = "none" /\ FamilyOf[n] = FamilyOf[t]
      BY DEF RotatingIsUnused
    <3>2. row' = [row EXCEPT ![t] = "used", ![n] = "unused"]
      BY DEF Rotated
    <3>3. LocksExclude' /\ GoneIsHeld'
      BY DEF LocksExclude, GoneIsHeld, Release
    <3>4. RotatingIsUnused'
      <4> SUFFICES ASSUME NEW s \in Requests, NEW u \in Tokens, at'[s] = "rotating", u \in hold'[s]
                   PROVE  row'[u] = "unused"
        BY DEF RotatingIsUnused
      <4>1. s # r /\ at[s] = "rotating" /\ u \in hold[s]
        BY DEF Goto, Release
      <4>2. u # t /\ row[u] = "unused"
        BY <4>1 DEF LocksExclude, RotatingIsUnused
      <4> QED
        BY <3>1, <3>2, <4>2
    <3>5. OneLiveToken'
      BY <3>1, <3>2 DEF OneLiveToken
    <3>6. RotatedOnce'
      <4> SUFFICES ASSUME NEW p \in parent', NEW q \in parent'
                   PROVE  (p[1] = q[1] => p = q) /\ row'[p[1]] = "used"
        BY DEF RotatedOnce
      <4>1. \A o \in parent : row[o[1]] = "used" /\ o[1] \in Tokens
        BY DEF RotatedOnce
      <4>2. \A o \in parent : o[1] # t /\ o[1] # n
        BY <3>1, <4>1
      <4>3. p \in parent \/ p = <<t, n>>
        OBVIOUS
      <4>4. q \in parent \/ q = <<t, n>>
        OBVIOUS
      <4>5. p[1] = q[1] => p = q
        BY <4>2, <4>3, <4>4 DEF RotatedOnce
      <4>6. row'[p[1]] = "used"
        BY <3>1, <3>2, <4>1, <4>2, <4>3
      <4> QED
        BY <4>5, <4>6
    <3> QED
      BY <3>3, <3>4, <3>5, <3>6
  <2>11. ASSUME NEW r \in Requests, NEW n \in Tokens, Mint(r, n) PROVE RowInv'
    BY <2>11, DroppingKeeps DEF Mint
  <2>12. ASSUME NEW r \in Requests, Raise(r) \/ Fail(r) PROVE RowInv'
    BY <2>12, DroppingKeeps DEF Raise, Fail
  <2>13. ASSUME NEW r \in Requests, Commit(r) PROVE RowInv'
    <3> USE <2>13 DEF Commit, TypeOK, RowInv, End, Release, Goto
    <3>1. LocksExclude' /\ GoneIsHeld'
      BY DEF LocksExclude, GoneIsHeld
    <3>2. RotatingIsUnused'
      <4> SUFFICES ASSUME NEW s \in Requests, NEW u \in Tokens, at'[s] = "rotating", u \in hold'[s]
                   PROVE  row'[u] = "unused"
        BY DEF RotatingIsUnused
      <4>1. s # r /\ at[s] = "rotating" /\ u \in hold[s]
        OBVIOUS
      <4>2. u \notin gone[r] /\ row[u] = "unused"
        BY <4>1 DEF LocksExclude, GoneIsHeld, RotatingIsUnused
      <4> QED
        BY <4>2 DEF Erase
    <3>3. OneLiveToken' /\ RotatedOnce'
      BY ErasingKeeps
    <3> QED
      BY <3>1, <3>2, <3>3
  <2>14. ASSUME NEW r \in Requests, NEW n \in Tokens, Create(r, n) PROVE RowInv'
    <3> USE <2>14 DEF Create, TypeOK, RowInv
    <3>1. \A t \in Tokens : FamilyOf[t] = FamilyOf[n] => row[t] = "none"
      BY DEF Unborn, RowsOf
    <3>2. LocksExclude' /\ GoneIsHeld'
      BY DEF LocksExclude, GoneIsHeld, Release
    <3>3. RotatingIsUnused'
      <4> SUFFICES ASSUME NEW s \in Requests, NEW u \in Tokens, at'[s] = "rotating", u \in hold'[s]
                   PROVE  row'[u] = "unused"
        BY DEF RotatingIsUnused
      <4>1. s # r /\ at[s] = "rotating" /\ u \in hold[s]
        BY DEF Goto, Release
      <4>2. u \notin gone[r] /\ row[u] = "unused"
        BY <4>1 DEF LocksExclude, GoneIsHeld, RotatingIsUnused
      <4> QED
        BY <4>2
    <3>4. OneLiveToken'
      BY <3>1 DEF OneLiveToken
    <3>5. RotatedOnce'
      <4> SUFFICES ASSUME NEW p \in parent', NEW q \in parent'
                   PROVE  (p[1] = q[1] => p = q) /\ row'[p[1]] = "used"
        BY DEF RotatedOnce
      <4>1. p \in parent /\ q \in parent /\ p[1] \notin gone[r] /\ p[1] \in Tokens
        BY DEF Orphan
      <4>2. row[p[1]] = "used" /\ (p[1] = q[1] => p = q)
        BY <4>1 DEF RotatedOnce
      <4>3. p[1] # n
        BY <3>1, <4>2
      <4> QED
        BY <4>1, <4>2, <4>3
    <3> QED
      BY <3>2, <3>3, <3>4, <3>5
  <2>15. CASE Tick
    BY <2>15, OtherwiseKeeps DEF Tick, work
  <2>16. CASE Cleanup
    <3>1. PICK D \in SUBSET Tokens :
            /\ \A t \in D, s \in Requests : t \notin hold[s]
            /\ Erase(D, "cleaned") /\ Orphan(D)
      BY <2>16 DEF Cleanup
    <3>2. OneLiveToken' /\ RotatedOnce'
      BY <3>1, ErasingKeeps
    <3>3. RotatingIsUnused'
      BY <2>16, <3>1 DEF Cleanup, RowInv, RotatingIsUnused, Erase, work, TypeOK
    <3>4. LocksExclude' /\ GoneIsHeld'
      BY <2>16 DEF Cleanup, RowInv, LocksExclude, GoneIsHeld, work
    <3> QED
      BY <3>2, <3>3, <3>4 DEF RowInv
  <2>17. CASE UNCHANGED vars
    BY <2>17, OtherwiseKeeps DEF vars, work
  <2> QED
    BY <2>1, <2>2, <2>3, <2>4, <2>5, <2>6, <2>7, <2>8, <2>9, <2>10, <2>11, <2>12, <2>13,
       <2>14, <2>15, <2>16, <2>17 DEF Next, Arrive, Step, Victim
<1> QED
  BY <1>1, <1>2, TypeCorrect, PTL DEF Spec

\* At most one refresh token of a family can be exchanged, for any number of
\* concurrent requests: FOR UPDATE is enough.
THEOREM OneLive == Spec => []OneLiveToken
<1>1. RowInv => OneLiveToken
  BY DEF RowInv
<1> QED
  BY <1>1, TableInvariant, PTL

\* No refresh token is ever exchanged for two others.
THEOREM NoFork == Spec => []RotatedOnce
<1>1. RowInv => RotatedOnce
  BY DEF RowInv
<1> QED
  BY <1>1, TableInvariant, PTL

-----------------------------------------------------------------------------
(***************************************************************************)
(* No revocation bypasses Redis.  The strengthening follows a revocation   *)
(* from its DELETE to its COMMIT: which of the rows it has deleted belong  *)
(* to families it has put on the denylist.                                 *)
(***************************************************************************)
DeletedOf(r, F) == \A t \in gone[r] : FamilyOf[t] \in F

Pending(r) ==
    /\ denied[r] \subseteq fams[r]
    /\ \A f \in denied[r] : revokedUntil[f] > 0
    /\ at[r] = "bump" => op[r] \in {"refresh", "logout-all"}
    /\ at[r] = "create" => op[r] = "login"
    /\ at[r] = "commit" /\ op[r] = "logout-all" => epoch > 0
    /\ op[r] # "logout-all" =>
         /\ at[r] \in {"delete", "deleting"} =>
              op[r] # "none" /\ fams[r] \ denied[r] # {} /\ DeletedOf(r, denied[r])
         /\ at[r] = "deleting" => \A t \in visit[r] : FamilyOf[t] = Current(r)
         /\ at[r] = "deny" => op[r] # "none" /\ DeletedOf(r, denied[r] \cup {Current(r)})
         /\ at[r] \in {"commit", "create"} => DeletedOf(r, denied[r])

DenyInv == now >= 1 /\ (\A r \in Requests : Pending(r)) /\ RevocationReachesRedis

\* A request has nothing to do with what another one does, but for the keys, which
\* only gain times.
LEMMA OthersPending ==
    ASSUME NEW s \in Requests, Pending(s),
           at'[s] = at[s], op'[s] = op[s], gone'[s] = gone[s], visit'[s] = visit[s],
           fams'[s] = fams[s], denied'[s] = denied[s],
           \A f \in denied[s] : revokedUntil'[f] = revokedUntil[f] \/ revokedUntil'[f] > 0,
           epoch' = epoch \/ epoch' > 0
    PROVE  Pending(s)'
<1>1. Current(s)' = Current(s)
  BY DEF Current
<1> QED
  BY <1>1 DEF Pending, DeletedOf

\* A request that is over, or that has committed its rotation or its login, has
\* nothing to answer for.
LEMMA ReleasedPending ==
    ASSUME TypeOK, NEW r \in Requests, Release(r), at'[r] \in {"idle", "mint"}
    PROVE  Pending(r)'
BY DEF Pending, Release, TypeOK

\* The first statement of a request.
LEMMA BeginPending ==
    ASSUME TypeOK, DenyInv, NEW r \in Requests, NEW endpoint \in Ops, NEW L, NEW F, NEW place,
           Begin(r, endpoint, L, F, place), endpoint # "none",
           \/ place = "rotating"
           \/ place = "delete" /\ (endpoint = "logout-all" \/ F # {})
           \/ place = "create" /\ endpoint = "login"
    PROVE  DenyInv'
<1> USE DEF DenyInv
<1>1. denied[r] = {} /\ gone[r] = {}
  BY DEF Pending, Begin, TypeOK, RequestsOK
<1>2. Pending(r)'
  BY <1>1 DEF Pending, DeletedOf, Begin, Goto, TypeOK
<1>3. ASSUME NEW s \in Requests \ {r} PROVE Pending(s)'
  BY <1>3, OthersPending DEF Begin, Goto, redis, TypeOK
<1>4. RevocationReachesRedis' /\ now' >= 1
  BY DEF RevocationReachesRedis, Begin, table, redis
<1> QED
  BY <1>2, <1>3, <1>4

\* The end of a request, when it changes neither table nor keys.
LEMMA EndPending ==
    ASSUME TypeOK, DenyInv, NEW r \in Requests, End(r), UNCHANGED <<now, row, redis>>
    PROVE  DenyInv'
<1> USE DEF DenyInv
<1>1. Pending(r)'
  BY ReleasedPending DEF End, Goto, TypeOK
<1>2. ASSUME NEW s \in Requests \ {r} PROVE Pending(s)'
  BY <1>2, OthersPending DEF End, Release, Goto, redis, TypeOK
<1> QED
  BY <1>1, <1>2 DEF RevocationReachesRedis, redis

\* No step revokes a row behind the back of the access JWTs.
LEMMA DenyStep == TypeOK /\ DenyInv /\ [Next]_vars => DenyInv'
<1> SUFFICES ASSUME TypeOK, DenyInv, [Next]_vars PROVE DenyInv'
  OBVIOUS
<1> USE FamilyOfType DEF DenyInv
<1>1. ASSUME NEW r \in Requests, NEW t \in Tokens, LockUnused(r, t) PROVE DenyInv'
  <2>1. Begin(r, "refresh", {t}, {}, "rotating")
    BY <1>1 DEF LockUnused
  <2> QED
    BY <2>1, BeginPending DEF Ops
<1>2. ASSUME NEW r \in Requests, NEW t \in Tokens, LockUsed(r, t) PROVE DenyInv'
  <2>1. Begin(r, "refresh", {t}, {FamilyOf[t]}, "delete")
    BY <1>2 DEF LockUsed
  <2> QED
    BY <2>1, BeginPending DEF Ops
<1>3. ASSUME NEW r \in Requests, NEW t \in Tokens, Logout(r, t) PROVE DenyInv'
  <2>1. Begin(r, "logout", {}, {FamilyOf[t]}, "delete")
    BY <1>3 DEF Logout
  <2> QED
    BY <2>1, BeginPending DEF Ops
<1>4. ASSUME NEW r \in Requests, NEW a \in access, LogoutAll(r, a) PROVE DenyInv'
  <2>1. Begin(r, "logout-all", {}, {FamilyOf[t] : t \in {s \in Tokens : Present(s)}}, "delete")
    BY <1>4 DEF LogoutAll
  <2> QED
    BY <2>1, BeginPending DEF Ops
<1>5. ASSUME NEW r \in Requests, NEW E \in SUBSET Tokens, Login(r, E) PROVE DenyInv'
  <2> DEFINE F == {FamilyOf[t] : t \in E}
             place == IF E = {} THEN "create" ELSE "delete"
  <2>1. Begin(r, "login", {}, F, place)
    BY <1>5 DEF Login
  <2>2. (place = "delete" /\ F # {}) \/ place = "create"
    OBVIOUS
  <2> HIDE DEF F, place
  <2> QED
    BY <2>1, <2>2, BeginPending DEF Ops
<1>6. ASSUME NEW r \in Requests, StartDelete(r) PROVE DenyInv'
  <2> USE <1>6 DEF StartDelete, TypeOK
  <2>1. Current(r)' = Current(r)
    BY DEF Current
  <2>2. op[r] # "logout-all" => \A t \in visit'[r] : FamilyOf[t] = Current(r)
    BY DEF Targets, Named
  <2>3. Pending(r)'
    BY <2>1, <2>2 DEF Pending, DeletedOf, Goto, redis
  <2>4. ASSUME NEW s \in Requests \ {r} PROVE Pending(s)'
    BY <2>4, OthersPending DEF Goto, redis
  <2> QED
    BY <2>3, <2>4 DEF RevocationReachesRedis, table, redis
<1>7. ASSUME NEW r \in Requests, Delete(r) PROVE DenyInv'
  <2> USE <1>7 DEF Delete, TypeOK
  <2>1. Current(r)' = Current(r)
    BY DEF Current
  <2>2. op[r] # "logout-all" => fams[r] # {} /\ DeletedOf(r, denied[r] \cup {Current(r)})'
    BY <2>1 DEF Pending, DeletedOf
  <2>3. Pending(r)'
    BY <2>1, <2>2 DEF Pending, DeletedOf, Goto, redis
  <2>4. ASSUME NEW s \in Requests \ {r} PROVE Pending(s)'
    BY <2>4, OthersPending DEF Goto, redis
  <2> QED
    BY <2>3, <2>4 DEF RevocationReachesRedis, table, redis
<1>8. ASSUME NEW r \in Requests, NEW f \in Families, Deny(r, f) PROVE DenyInv'
  <2> USE <1>8 DEF Deny, TypeOK
  <2> DEFINE F == denied[r] \cup {f}
  <2>1. now + AccessTTL > 0
    BY TimesType
  <2>2. revokedUntil' = [revokedUntil EXCEPT ![f] = now + AccessTTL]
    BY DEF RevokeSid
  <2>3. F \subseteq fams[r] /\ denied'[r] = F /\ at'[r] = AfterDeny(r, F)
    BY DEF Pending, Goto
  <2>4. \A g \in F : revokedUntil'[g] > 0
    BY <2>1, <2>2, <2>3 DEF Pending
  <2>5. op[r] # "logout-all" => DeletedOf(r, F)'
    BY DEF Pending, DeletedOf
  <2>6. op[r] # "logout-all" => op[r] # "none"
    BY DEF Pending
  <2>7. /\ AfterDeny(r, F) \in {"create", "delete", "deny", "commit", "bump"}
        /\ AfterDeny(r, F) = "create" => op[r] = "login"
        /\ AfterDeny(r, F) = "delete" => fams[r] \ F # {} /\ op[r] = "login"
        /\ AfterDeny(r, F) = "commit" => op[r] = "logout"
        /\ AfterDeny(r, F) = "bump" => op[r] \notin {"login", "logout"}
    BY <2>3 DEF AfterDeny
  <2>8. Pending(r)'
    <3> HIDE DEF F
    <3> QED
      BY <2>3, <2>4, <2>5, <2>6, <2>7 DEF Pending, DeletedOf, Ops
  <2>9. ASSUME NEW s \in Requests \ {r} PROVE Pending(s)'
    <3>1. \A g \in denied[s] : revokedUntil'[g] = revokedUntil[g] \/ revokedUntil'[g] > 0
      BY <2>1, <2>2
    <3> QED
      BY <2>9, <3>1, OthersPending DEF Goto
  <2>10. RevocationReachesRedis'
    BY <2>1, <2>2 DEF RevocationReachesRedis, table
  <2> QED
    BY <2>8, <2>9, <2>10
<1>9. ASSUME NEW r \in Requests, Bump(r) PROVE DenyInv'
  <2> USE <1>9 DEF Bump, TypeOK, work
  <2>1. Pending(r)'
    BY DEF Pending, DeletedOf, Goto
  <2>2. ASSUME NEW s \in Requests \ {r} PROVE Pending(s)'
    BY <2>2, OthersPending DEF Goto
  <2> QED
    BY <2>1, <2>2 DEF RevocationReachesRedis, table
<1>10. ASSUME NEW r \in Requests, NEW t \in Tokens, NEW n \in Tokens, Rotate(r, t, n) PROVE DenyInv'
  <2> USE <1>10 DEF Rotate, TypeOK
  <2>1. Pending(r)'
    BY ReleasedPending DEF Goto
  <2>2. ASSUME NEW s \in Requests \ {r} PROVE Pending(s)'
    BY <2>2, OthersPending DEF Release, Goto, redis
  <2>3. RevocationReachesRedis'
    BY DEF RevocationReachesRedis, Rotated, redis
  <2> QED
    BY <2>1, <2>2, <2>3
<1>11. ASSUME NEW r \in Requests, NEW n \in Tokens, Mint(r, n) PROVE DenyInv'
  BY <1>11, EndPending DEF Mint, table
<1>12. ASSUME NEW r \in Requests, Raise(r) \/ Fail(r) PROVE DenyInv'
  BY <1>12, EndPending DEF Raise, Fail, table
<1>13. ASSUME NEW r \in Requests, Commit(r) PROVE DenyInv'
  <2> USE <1>13 DEF Commit, TypeOK
  <2>1. Pending(r)'
    BY ReleasedPending DEF End, Goto
  <2>2. ASSUME NEW s \in Requests \ {r} PROVE Pending(s)'
    BY <2>2, OthersPending DEF End, Release, Goto, redis
  <2>3. \A t \in gone[r] : revokedUntil[FamilyOf[t]] > 0 \/ epoch > 0
    BY DEF Pending, DeletedOf
  <2>4. RevocationReachesRedis'
    BY <2>3 DEF RevocationReachesRedis, Erase, redis
  <2> QED
    BY <2>1, <2>2, <2>4
<1>14. ASSUME NEW r \in Requests, NEW n \in Tokens, Create(r, n) PROVE DenyInv'
  <2> USE <1>14 DEF Create, TypeOK
  <2>1. Pending(r)'
    BY ReleasedPending DEF Goto
  <2>2. ASSUME NEW s \in Requests \ {r} PROVE Pending(s)'
    BY <2>2, OthersPending DEF Release, Goto, redis
  <2>3. \A t \in gone[r] : revokedUntil[FamilyOf[t]] > 0
    BY DEF Pending, DeletedOf
  <2>4. RevocationReachesRedis'
    BY <2>3 DEF RevocationReachesRedis, redis
  <2> QED
    BY <2>1, <2>2, <2>4
<1>15. CASE Tick
  <2>1. ASSUME NEW s \in Requests PROVE Pending(s)'
    BY <1>15, <2>1, OthersPending DEF Tick, work, redis
  <2> QED
    BY <1>15, <2>1 DEF Tick, RevocationReachesRedis, table, redis, TypeOK
<1>16. CASE Cleanup
  <2>1. ASSUME NEW s \in Requests PROVE Pending(s)'
    BY <1>16, <2>1, OthersPending DEF Cleanup, work, redis
  <2> QED
    BY <1>16, <2>1 DEF Cleanup, Erase, RevocationReachesRedis, redis
<1>17. CASE UNCHANGED vars
  <2>1. ASSUME NEW s \in Requests PROVE Pending(s)'
    BY <1>17, <2>1, OthersPending DEF vars, work, redis
  <2> QED
    BY <1>17, <2>1 DEF vars, RevocationReachesRedis, table, redis
<1> QED
  BY <1>1, <1>2, <1>3, <1>4, <1>5, <1>6, <1>7, <1>8, <1>9, <1>10, <1>11, <1>12, <1>13,
     <1>14, <1>15, <1>16, <1>17 DEF Next, Arrive, Step, Victim

\* What each request has behind it, at every place.
LEMMA RevocationFollowed == Spec => []DenyInv
<1>1. Init => DenyInv
  BY DEF Init, DenyInv, Pending, DeletedOf, RevocationReachesRedis
<1> QED
  BY <1>1, DenyStep, TypeCorrect, PTL DEF Spec

\* A committed revocation has always put the sid on the denylist or raised the epoch
\* before, whatever logins, refreshes and revocations overlap it.
THEOREM Denied == Spec => []RevocationReachesRedis
<1>1. DenyInv => RevocationReachesRedis
  BY DEF DenyInv
<1> QED
  BY <1>1, RevocationFollowed, PTL

-----------------------------------------------------------------------------
(***************************************************************************)
(* Why requests end, apart from fairness.  Every step of a request takes   *)
(* it nearer to its end, and no step of another takes it further away; and *)
(* while a request is under way, it or one it waits for can go on, or it   *)
(* waits in a circle, which the deadlock detector breaks.                  *)
(***************************************************************************)
StepsFrom(place) ==
    CASE place = "idle"                         -> 0
      [] place \in {"mint", "commit", "raise"}  -> 1
      [] place \in {"rotating", "create", "bump"} -> 2
      [] place = "deny"                         -> 3
      [] place = "deleting"                     -> 4
      [] place = "delete"                       -> 5

\* More than the steps r has left: each family still to deny may take it back to "delete".
Left(r) == 4 * Cardinality(fams[r] \ denied[r]) + StepsFrom(at[r])

LEMMA StepsType == \A place \in Places : StepsFrom(place) \in 0..5
BY DEF Places, StepsFrom

LEMMA LeftIs ==
    ASSUME IsFiniteSet(Families), NEW F \in SUBSET Families, NEW D, NEW place \in Places
    PROVE  /\ IsFiniteSet(F \ D)
           /\ Cardinality(F \ D) \in Nat
           /\ 4 * Cardinality(F \ D) + StepsFrom(place) \in Nat
<1>1. IsFiniteSet(F \ D) /\ Cardinality(F \ D) \in Nat
  BY FS_Subset, FS_CardinalityType
<1> QED
  BY <1>1, StepsType

\* A request that ends, or whose transaction is over, has no family left.
LEMMA LeftWithout ==
    ASSUME NEW r \in Requests, fams'[r] = {}, at'[r] \in Places
    PROVE  Left(r)' = StepsFrom(at'[r])
<1>1. (fams[r] \ denied[r])' = {}
  OBVIOUS
<1>2. Cardinality(fams[r] \ denied[r])' = 0
  BY <1>1, FS_EmptySet, Zenon
<1>3. StepsFrom(at'[r]) \in Nat
  BY StepsType
<1> QED
  BY <1>2, <1>3 DEF Left

LEMMA StepCounts ==
    ASSUME TypeOK, TypeOK', IsFiniteSet(Families), NEW r \in Requests, Step(r)
    PROVE  Left(r)' < Left(r)
<1> DEFINE C == Cardinality(fams[r] \ denied[r])
<1>0. IsFiniteSet(fams[r] \ denied[r]) /\ C \in Nat /\ Left(r) \in Nat
  BY LeftIs DEF Left, TypeOK
<1>1. CASE Raise(r) \/ Commit(r) \/ Victim(r) \/ \E n \in Tokens : Mint(r, n)
  <2>1. End(r) /\ at[r] \in Places \ {"idle"}
    BY <1>1 DEF Raise, Commit, Victim, Fail, Mint, TypeOK, Places
  <2>2. fams'[r] = {} /\ at'[r] = "idle"
    BY <2>1 DEF End, Release, Goto, TypeOK
  <2>3. StepsFrom(at[r]) \in 1..5
    BY <2>1 DEF StepsFrom, Places
  <2>4. Left(r)' = 0
    BY <2>2, LeftWithout DEF StepsFrom, Places
  <2> QED
    BY <1>0, <2>3, <2>4 DEF Left
<1>2. CASE \E n \in Tokens : Create(r, n) \/ \E t \in Tokens : Rotate(r, t, n)
  <2>1. fams'[r] = {} /\ at'[r] = "mint" /\ at[r] \in {"rotating", "create"}
    BY <1>2 DEF Create, Rotate, Release, Goto, TypeOK
  <2>2. Left(r)' = 1
    BY <2>1, LeftWithout DEF StepsFrom, Places
  <2>3. StepsFrom(at[r]) = 2
    BY <2>1 DEF StepsFrom
  <2> QED
    BY <1>0, <2>2, <2>3 DEF Left
<1>3. CASE StartDelete(r) \/ Delete(r) \/ Bump(r)
  <2>1. fams' = fams /\ denied' = denied
    BY <1>3 DEF StartDelete, Delete, Bump, work
  <2>2. StepsFrom(at'[r]) < StepsFrom(at[r])
    BY <1>3 DEF StartDelete, Delete, Bump, Goto, StepsFrom, TypeOK
  <2>3. at'[r] \in Places /\ at[r] \in Places
    BY <1>3 DEF StartDelete, Delete, Bump, Goto, TypeOK, Places
  <2>4. Left(r)' = 4 * C + StepsFrom(at'[r])
    BY <2>1 DEF Left
  <2> QED
    BY <1>0, <2>2, <2>3, <2>4, StepsType DEF Left
<1>4. CASE \E f \in Families : Deny(r, f)
  <2>1. PICK f \in Families : Deny(r, f)
    BY <1>4
  <2>2. at[r] = "deny" /\ f \in fams[r] \ denied[r]
    BY <2>1 DEF Deny
  <2>3. (fams[r] \ denied[r])' = (fams[r] \ denied[r]) \ {f}
    BY <2>1 DEF Deny, TypeOK
  <2>4. Cardinality(fams[r] \ denied[r])' = C - 1
    <3>1. Cardinality((fams[r] \ denied[r]) \ {f}) = C - 1
      BY <1>0, <2>2, FS_RemoveElement
    <3> QED
      BY <2>3, <3>1, Zenon
  <2>5. at'[r] \in {"create", "delete", "deny", "commit", "bump"}
    BY <2>1 DEF Deny, Goto, AfterDeny, TypeOK
  <2>6. StepsFrom(at'[r]) \in 0..5 /\ StepsFrom(at[r]) = 3
    BY <2>2, <2>5 DEF StepsFrom
  <2>7. Left(r)' = 4 * (C - 1) + StepsFrom(at'[r])
    BY <2>4 DEF Left
  <2> QED
    BY <1>0, <2>6, <2>7 DEF Left
<1> QED
  BY <1>1, <1>2, <1>3, <1>4 DEF Step

\* What r has left is not touched by the steps of others, nor by a request that arrives.
LEMMA OthersLeave ==
    ASSUME TypeOK, TypeOK', IsFiniteSet(Families), [Next]_vars, NEW r \in Requests, at[r] # "idle"
    PROVE  Left(r)' <= Left(r)
<1>0. Left(r) \in Nat /\ Left(r)' \in Nat
  BY LeftIs DEF Left, TypeOK
<1>1. ASSUME at'[r] = at[r], fams'[r] = fams[r], denied'[r] = denied[r] PROVE Left(r)' <= Left(r)
  <2>1. Left(r)' = Left(r)
    BY <1>1 DEF Left
  <2> QED
    BY <1>0, <2>1
<1>2. ASSUME NEW s \in Requests, Arrive(s) PROVE Left(r)' <= Left(r)
  <2>1. at[s] = "idle" /\ denied' = denied
    BY <1>2 DEF Arrive, LockUnused, LockUsed, Logout, LogoutAll, Login, Begin
  <2>2. \E place, F : at' = [at EXCEPT ![s] = place] /\ fams' = [fams EXCEPT ![s] = F]
    BY <1>2, Zenon DEF Arrive, LockUnused, LockUsed, Logout, LogoutAll, Login, Begin, Goto
  <2> QED
    BY <1>1, <2>1, <2>2 DEF TypeOK
<1>3. ASSUME NEW s \in Requests, Step(s) PROVE Left(r)' <= Left(r)
  <2>1. CASE s = r
    <3>1. Left(r)' < Left(r)
      BY <1>3, <2>1, StepCounts
    <3> QED
      BY <1>0, <3>1
  <2>2. CASE s # r
    <3>1. ASSUME NEW t \in Tokens, NEW n \in Tokens, Rotate(s, t, n) \/ Mint(s, n) \/ Create(s, n)
          PROVE  Left(r)' <= Left(r)
      BY <1>1, <2>2, <3>1 DEF Rotate, Mint, Create, End, Release, Goto, TypeOK
    <3>2. CASE Raise(s) \/ Commit(s) \/ Victim(s)
      BY <1>1, <2>2, <3>2 DEF Raise, Commit, Victim, Fail, End, Release, Goto, TypeOK
    <3>3. CASE StartDelete(s) \/ Delete(s) \/ Bump(s) \/ \E f \in Families : Deny(s, f)
      BY <1>1, <2>2, <3>3 DEF StartDelete, Delete, Bump, Deny, Goto, TypeOK, work
    <3> QED
      BY <1>3, <3>1, <3>2, <3>3 DEF Step
  <2> QED
    BY <2>1, <2>2
<1>4. ASSUME NEW s \in Requests, Fail(s) PROVE Left(r)' <= Left(r)
  <2>1. CASE s = r
    <3>1. fams'[r] = {} /\ at'[r] = "idle"
      BY <1>4, <2>1 DEF Fail, End, Release, Goto, TypeOK
    <3>2. Left(r)' = 0
      BY <3>1, LeftWithout DEF StepsFrom, Places
    <3> QED
      BY <1>0, <3>2
  <2>2. CASE s # r
    BY <1>1, <1>4, <2>2 DEF Fail, End, Release, Goto, TypeOK
  <2> QED
    BY <2>1, <2>2
<1>5. CASE Tick \/ Cleanup \/ UNCHANGED vars
  BY <1>1, <1>5 DEF Tick, Cleanup, vars, work
<1> QED
  BY <1>2, <1>3, <1>4, <1>5 DEF Next

\* A request has finitely many steps left, each of its steps leaves it fewer, and nothing
\* that happens beside it, failures and time included, gives it more.
RunsDown ==
    [][\A r \in Requests :
        /\ Left(r) \in Nat
        /\ Step(r) => Left(r)' < Left(r)
        /\ at[r] # "idle" => Left(r)' <= Left(r)]_vars

THEOREM RequestsRunDown ==
    ASSUME IsFiniteSet(Families)
    PROVE  Spec => RunsDown
<1>1. TypeOK /\ TypeOK' /\ [Next]_vars =>
        [\A r \in Requests :
            /\ Left(r) \in Nat
            /\ Step(r) => Left(r)' < Left(r)
            /\ at[r] # "idle" => Left(r)' <= Left(r)]_vars
  <2>1. TypeOK => \A r \in Requests : Left(r) \in Nat
    BY LeftIs DEF Left, TypeOK
  <2> QED
    BY <2>1, StepCounts, OthersLeave
<1> QED
  BY <1>1, TypeCorrect, PTL DEF Spec, RunsDown

\* Nothing but a lock that another request has keeps r from its next step: the rotation
\* has an id left, a revocation has a family to name, an answer has a row.  (A login takes a
\* fresh uuid: how many an instance has is a bound.)
Ready(r) ==
    /\ at[r] # "idle"
    /\ at[r] = "rotating" =>
           \E t \in hold[r], n \in Tokens : row[n] = "none" /\ FamilyOf[n] = FamilyOf[t]
    /\ at[r] = "deleting" => \A t \in Needs(r) : ~Locked(r, t)
    /\ at[r] = "deny" =>
           \E f \in fams[r] \ denied[r] : op[r] = "logout-all" \/ f = Current(r)
    /\ at[r] = "mint" => \E n \in Tokens : n \in fresh[r]

InCircle(r) ==
    \E C \in SUBSET Requests : r \in C /\ \A s \in C : \E u \in C \ {s} : Waits(s, u)

\* Whenever requests are under way, one of them can go on or all of them wait in circles,
\* of which the detector breaks one.
NobodyStuck ==
    \A r \in Requests : at[r] # "idle" => InCircle(r) \/ \E s \in Requests : Ready(s)

\* The families and the ids that the next step takes.
Supplied(r) ==
    /\ at[r] = "rotating" => \A t \in hold[r] : TokenLeft(FamilyOf[t])
    /\ at[r] \in {"delete", "deleting"} /\ op[r] = "logout-all" => denied[r] = {}
    /\ at[r] = "deny" => fams[r] \ denied[r] # {}

LEMMA SuppliedStays ==
    ASSUME NEW r \in Requests, Supplied(r),
           at'[r] = at[r], op'[r] = op[r], hold'[r] = hold[r], fams'[r] = fams[r],
           denied'[r] = denied[r],
           at[r] = "rotating" => \A t \in hold[r] : \A n \in RowsOf(FamilyOf[t]) :
                                    row[n] = "none" => row'[n] = "none"
    PROVE  Supplied(r)'
BY DEF Supplied, TokenLeft, RowsOf

\* Nobody else inserts a row in the family of a token that is being rotated.
LEMMA IdKept ==
    ASSUME TypeOK, RowInv, NEW r \in Requests, NEW s \in Requests, r # s, at[r] = "rotating",
           NEW t \in hold[r], NEW n \in RowsOf(FamilyOf[t]), row[n] = "none",
           \A x \in gone[s] : row[x] # "none",
           \/ \E x, m \in Tokens : Rotate(s, x, m)
           \/ \E m \in Tokens : Create(s, m)
    PROVE  row'[n] = "none"
<1>1. t \in Tokens /\ n \in Tokens /\ FamilyOf[n] = FamilyOf[t] /\ row[t] = "unused"
  BY DEF TypeOK, RowInv, RotatingIsUnused, RowsOf
<1>2. ASSUME NEW x \in Tokens, NEW m \in Tokens, Rotate(s, x, m) PROVE row'[n] = "none"
  <2>1. x \in hold[s] /\ row[x] = "unused" /\ FamilyOf[m] = FamilyOf[x]
    BY <1>2 DEF Rotate, RowInv, RotatingIsUnused
  <2>2. x # t
    BY <2>1 DEF RowInv, LocksExclude
  <2>3. FamilyOf[x] # FamilyOf[t]
    BY <1>1, <2>1, <2>2 DEF RowInv, OneLiveToken
  <2> QED
    BY <1>1, <1>2, <2>1, <2>3 DEF Rotate, Rotated, TypeOK
<1>3. ASSUME NEW m \in Tokens, Create(s, m) PROVE row'[n] = "none"
  <2>1. FamilyOf[m] # FamilyOf[t]
    BY <1>1, <1>3 DEF Create, Unborn, RowsOf
  <2>2. n \notin gone[s]
    OBVIOUS
  <2> QED
    BY <1>1, <1>3, <2>1, <2>2 DEF Create
<1> QED
  BY <1>2, <1>3

\* What a transaction has deleted was there.
GoneExisted == \A r \in Requests : \A t \in gone[r] : row[t] # "none"

SupplyInv == GoneExisted /\ \A r \in Requests : Supplied(r)

\* A step of s that inserts nothing and, of the requests, changes s alone.
LEMMA OthersSupplied ==
    ASSUME TypeOK, SupplyInv, NEW s \in Requests,
           \A r \in Requests \ {s} :
               /\ at'[r] = at[r] /\ op'[r] = op[r] /\ hold'[r] = hold[r] /\ gone'[r] = gone[r]
               /\ fams'[r] = fams[r] /\ denied'[r] = denied[r],
           \A n \in Tokens : row'[n] = "none" <=> row[n] = "none",
           \A t \in gone'[s] : t \in Tokens /\ row[t] # "none",
           Supplied(s)'
    PROVE  SupplyInv'
<1>1. GoneExisted'
  BY DEF SupplyInv, GoneExisted, TypeOK
<1>2. ASSUME NEW r \in Requests \ {s} PROVE Supplied(r)'
  BY <1>2, SuppliedStays DEF SupplyInv, RowsOf
<1> QED
  BY <1>1, <1>2 DEF SupplyInv

LEMMA SupplyNext ==
    ASSUME TypeOK, RowInv, DenyInv, SupplyInv, [Next]_vars
    PROVE  SupplyInv'
<1> USE FamilyOfType DEF TypeOK, table, redis, browsers, work
<1>1. ASSUME NEW r \in Requests, Arrive(r) PROVE SupplyInv'
  <2>1. at[r] = "idle" /\ UNCHANGED <<row, gone, denied>> /\ denied[r] = {}
    BY <1>1 DEF Arrive, LockUnused, LockUsed, Logout, LogoutAll, Login, Begin, RequestsOK, DenyInv,
                Pending
  <2> DEFINE Started(place, endpoint, L, F) ==
                 /\ at' = [at EXCEPT ![r] = place] /\ op' = [op EXCEPT ![r] = endpoint]
                 /\ hold' = [hold EXCEPT ![r] = L] /\ fams' = [fams EXCEPT ![r] = F]
                 /\ place \in {"rotating", "delete", "create"}
                 /\ place = "rotating" => \A t \in L : TokenLeft(FamilyOf[t])
  <2>2. \E place, endpoint, L, F : Started(place, endpoint, L, F)
    <3>1. ASSUME NEW t \in Tokens, LockUnused(r, t) PROVE Started("rotating", "refresh", {t}, {})
      BY <3>1 DEF LockUnused, Begin, Goto
    <3>2. ASSUME NEW t \in Tokens, LockUsed(r, t) PROVE Started("delete", "refresh", {t}, {FamilyOf[t]})
      BY <3>2 DEF LockUsed, Begin, Goto
    <3>3. ASSUME NEW t \in Tokens, Logout(r, t) PROVE Started("delete", "logout", {}, {FamilyOf[t]})
      BY <3>3 DEF Logout, Begin, Goto
    <3>4. ASSUME NEW a \in access, LogoutAll(r, a)
          PROVE  Started("delete", "logout-all", {},
                         {FamilyOf[t] : t \in {s \in Tokens : Present(s)}})
      BY <3>4 DEF LogoutAll, Begin, Goto
    <3>5. ASSUME NEW E \in SUBSET Tokens, Login(r, E)
          PROVE  Started(IF E = {} THEN "create" ELSE "delete", "login", {}, {FamilyOf[t] : t \in E})
      BY <3>5 DEF Login, Begin, Goto
    <3> HIDE DEF Started
    <3> QED
      BY <1>1, <3>1, <3>2, <3>3, <3>4, <3>5, Zenon DEF Arrive
  <2>3. Supplied(r)'
    BY <2>1, <2>2 DEF Supplied, TokenLeft, RowsOf
  <2> QED
    BY <2>1, <2>2, <2>3, OthersSupplied DEF SupplyInv, GoneExisted
<1>2. ASSUME NEW r \in Requests, Raise(r) \/ Fail(r) \/ \E n \in Tokens : Mint(r, n)
      PROVE  SupplyInv'
  <2>1. End(r) /\ row' = row
    BY <1>2 DEF Raise, Fail, Mint
  <2>2. at'[r] = "idle" /\ gone'[r] = {}
    BY <2>1 DEF End, Release, Goto
  <2>3. Supplied(r)'
    BY <2>2 DEF Supplied
  <2> QED
    BY <2>1, <2>2, <2>3, OthersSupplied DEF End, Release, Goto
<1>3. ASSUME NEW r \in Requests, Commit(r) PROVE SupplyInv'
  <2>1. at'[r] = "idle" /\ gone'[r] = {}
    BY <1>3 DEF Commit, End, Release, Goto
  <2>2. \A n \in Tokens : row'[n] = "none" <=> row[n] = "none"
    BY <1>3 DEF Commit, Erase, SupplyInv, GoneExisted
  <2>3. Supplied(r)'
    BY <2>1 DEF Supplied
  <2> QED
    BY <1>3, <2>1, <2>2, <2>3, OthersSupplied DEF Commit, End, Release, Goto
<1>4. ASSUME NEW r \in Requests, StartDelete(r) \/ Bump(r) PROVE SupplyInv'
  <2>1. Supplied(r)'
    BY <1>4 DEF StartDelete, Bump, Goto, Supplied, SupplyInv
  <2> QED
    BY <1>4, <2>1, OthersSupplied DEF StartDelete, Bump, Goto, SupplyInv, GoneExisted
<1>5. ASSUME NEW r \in Requests, Delete(r) PROVE SupplyInv'
  <2>1. op[r] # "logout-all" => fams[r] \ denied[r] # {}
    BY <1>5 DEF Delete, DenyInv, Pending
  <2>2. Supplied(r)'
    BY <1>5, <2>1 DEF Delete, Goto, Supplied, SupplyInv
  <2>3. \A t \in gone'[r] : t \in Tokens /\ row[t] # "none"
    BY <1>5 DEF Delete, Present, SupplyInv, GoneExisted
  <2> QED
    BY <1>5, <2>2, <2>3, OthersSupplied DEF Delete, Goto
<1>6. ASSUME NEW r \in Requests, NEW f \in Families, Deny(r, f) PROVE SupplyInv'
  <2>1. denied[r] \cup {f} \subseteq fams[r]
    BY <1>6 DEF Deny, DenyInv, Pending
  <2>2. Supplied(r)'
    BY <1>6, <2>1 DEF Deny, Goto, AfterDeny, Supplied
  <2> QED
    BY <1>6, <2>2, OthersSupplied DEF Deny, Goto, SupplyInv, GoneExisted
<1>7. ASSUME NEW r \in Requests,
             \/ \E t, n \in Tokens : Rotate(r, t, n)
             \/ \E n \in Tokens : Create(r, n)
      PROVE  SupplyInv'
  <2>1. /\ at'[r] = "mint" /\ gone'[r] = {}
        /\ \A s \in Requests \ {r} :
               /\ at'[s] = at[s] /\ op'[s] = op[s] /\ hold'[s] = hold[s] /\ gone'[s] = gone[s]
               /\ fams'[s] = fams[s] /\ denied'[s] = denied[s]
    BY <1>7 DEF Rotate, Create, Release, Goto
  <2>2. \A n \in Tokens : row[n] # "none" => row'[n] # "none"
    BY <1>7 DEF Rotate, Rotated, Create
  <2>3. GoneExisted'
    BY <2>1, <2>2 DEF SupplyInv, GoneExisted
  <2>4. ASSUME NEW s \in Requests \ {r} PROVE Supplied(s)'
    <3>1. at[s] = "rotating" => \A t \in hold[s] : \A n \in RowsOf(FamilyOf[t]) :
                                   row[n] = "none" => row'[n] = "none"
      BY <1>7, IdKept DEF SupplyInv, GoneExisted
    <3> QED
      BY <2>1, <3>1, SuppliedStays DEF SupplyInv
  <2>5. Supplied(r)'
    BY <2>1 DEF Supplied
  <2> QED
    BY <2>3, <2>4, <2>5 DEF SupplyInv
<1>8. ASSUME Tick \/ Cleanup \/ UNCHANGED vars PROVE SupplyInv'
  <2>1. UNCHANGED <<at, op, hold, gone, fams, denied>>
    BY <1>8 DEF Tick, Cleanup, vars
  <2>2. \A n \in Tokens : row'[n] = "none" <=> row[n] = "none"
    BY <1>8 DEF Tick, Cleanup, Erase, Present, vars
  <2>3. ASSUME NEW r \in Requests PROVE Supplied(r)'
    BY <2>1, <2>2, SuppliedStays DEF SupplyInv, RowsOf
  <2> QED
    BY <2>1, <2>2, <2>3 DEF SupplyInv, GoneExisted
<1> QED
  BY <1>1, <1>2, <1>3, <1>4, <1>5, <1>6, <1>7, <1>8 DEF Next, Step, Victim

LEMMA SupplyHolds == Spec => []SupplyInv
<1>1. Init => SupplyInv
  BY DEF Init, SupplyInv, GoneExisted, Supplied
<1> QED
  BY <1>1, SupplyNext, TypeCorrect, TableInvariant, RevocationFollowed, PTL DEF Spec

\* Unless it waits for a lock, a request can go on.
LEMMA ReadyOrWaiting ==
    ASSUME TypeOK, DenyInv, SupplyInv, NEW r \in Requests, at[r] # "idle", ~Ready(r)
    PROVE  at[r] = "deleting" /\ \E t \in Needs(r) : Locked(r, t)
<1> USE DEF TypeOK, RequestsOK
<1>1. at[r] = "rotating" =>
          \E t \in hold[r], n \in Tokens : row[n] = "none" /\ FamilyOf[n] = FamilyOf[t]
  <2> SUFFICES ASSUME at[r] = "rotating"
               PROVE  \E t \in hold[r], n \in Tokens : row[n] = "none" /\ FamilyOf[n] = FamilyOf[t]
    OBVIOUS
  <2>1. PICK t \in Tokens : hold[r] = {t}
    OBVIOUS
  <2>2. TokenLeft(FamilyOf[t])
    BY <2>1 DEF SupplyInv, Supplied
  <2> QED
    BY <2>1, <2>2 DEF TokenLeft, RowsOf
<1>2. at[r] = "deny" =>
          \E f \in fams[r] \ denied[r] : op[r] = "logout-all" \/ f = Current(r)
  <2> SUFFICES ASSUME at[r] = "deny"
               PROVE  \E f \in fams[r] \ denied[r] : op[r] = "logout-all" \/ f = Current(r)
    OBVIOUS
  <2>1. PICK f : f \in fams[r] \ denied[r]
    BY DEF SupplyInv, Supplied
  <2>2. Current(r) \in fams[r] \ denied[r]
    BY <2>1, Zenon DEF Current
  <2> QED
    BY <2>2
<1>3. at[r] = "mint" => \E n \in Tokens : n \in fresh[r]
  OBVIOUS
<1> QED
  BY <1>1, <1>2, <1>3 DEF Ready

\* However many requests overlap, they never wait for one that is gone or has nothing to
\* do: if none of them can go on, each waits for a lock of another, and that is a circle.
THEOREM WaitsResolve == Spec => []NobodyStuck
<1>1. TypeOK /\ DenyInv /\ SupplyInv => NobodyStuck
  <2> SUFFICES ASSUME TypeOK, DenyInv, SupplyInv, NEW r \in Requests, at[r] # "idle",
                      \A s \in Requests : ~Ready(s)
               PROVE  InCircle(r)
    BY DEF NobodyStuck
  <2> DEFINE C == {s \in Requests : at[s] # "idle"}
  <2>1. ASSUME NEW s \in C PROVE \E u \in C \ {s} : Waits(s, u)
    <3>1. at[s] = "deleting" /\ \E t \in Needs(s) : Locked(s, t)
      BY ReadyOrWaiting
    <3>2. PICK t \in Needs(s), u \in Requests \ {s} : t \in hold[u]
      BY <3>1 DEF Locked
    <3>3. u \in C
      BY <3>2 DEF TypeOK, RequestsOK
    <3> QED
      BY <3>1, <3>2, <3>3 DEF Waits
  <2> QED
    BY <2>1 DEF InCircle
<1> QED
  BY <1>1, TypeCorrect, RevocationFollowed, SupplyHolds, PTL

=============================================================================
