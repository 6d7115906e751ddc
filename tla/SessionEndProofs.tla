--------------------------- MODULE SessionEndProofs ---------------------------
(***************************************************************************)
(* What the end of a session means for a user whose requests come one      *)
(* after the other, for any number of families and tokens, any TTLs, any   *)
(* failures, and with time passing and the cleanup script running beside   *)
(* the requests: no row and no JWT of an ended family is left, and the     *)
(* limit holds.  Requests that overlap break this: the logout of one       *)
(* browser misses the row that a refresh is inserting, and two logins      *)
(* count the same sessions.                                                *)
(***************************************************************************)
EXTENDS AuthSessionsProofs, FiniteSetTheorems

\* There is at most one request at a time.
OneAtATime == \A r, s \in Requests : r = s

-----------------------------------------------------------------------------
(***************************************************************************)
(* The strengthening follows the families of a revocation: which of their  *)
(* rows it has seen, deleted, and denied.                                  *)
(***************************************************************************)
\* A family that a login has used up; no other login takes it.
Born(f) == \E t \in Tokens : FamilyOf[t] = f /\ row[t] # "none"

\* The transaction has deleted what there is of the families F.
Covers(r, F) == \A t \in Tokens : Present(t) /\ FamilyOf[t] \in F => t \in gone[r]

\* The same of a DELETE that is waiting for its locks.
Sees(r, F) == \A t \in Tokens : Present(t) /\ FamilyOf[t] \in F => t \in visit[r]

\* The denylist outlasts the lifetime of every JWT of the family.
Outlasts(f) == \A a \in access : a.family = f => a.iat + AccessTTL <= revokedUntil[f]

Ending(r) ==
    /\ \A f \in fams[r] : Born(f)
    /\ \A f \in denied[r] : Outlasts(f)
    /\ op[r] \in {"refresh", "logout"} => \A f, g \in fams[r] : f = g
    /\ at[r] = "mint" => \A n \in fresh[r] : FamilyOf[n] \notin ended
    /\ at[r] \in {"commit", "create"} => fams[r] \subseteq denied[r] /\ Covers(r, fams[r])
    /\ at[r] = "bump" => fams[r] \subseteq denied[r]
    /\ op[r] = "logout-all" =>
         /\ at[r] = "deleting" => Sees(r, Families)
         /\ at[r] \in {"deny", "bump"} => Covers(r, Families)
    /\ op[r] # "logout-all" =>
         /\ at[r] \in {"delete", "deleting", "deny"} => Covers(r, denied[r])
         /\ at[r] = "deleting" => Sees(r, {Current(r)})
         /\ at[r] = "deny" => Covers(r, {Current(r)})

EndInv ==
    /\ \A a \in access : a.iat <= now
    /\ EndedFamiliesHaveNoRows
    /\ \A f \in ended : Born(f) /\ Outlasts(f)
    /\ \A r \in Requests : Ending(r)

\* The rows that count, and the row a rotation has locked, which may expire before
\* the rotation commits.
Counted == {t \in Tokens : Live(t) \/ \E r \in Requests : at[r] = "rotating" /\ t \in hold[r]}

\* What will be left when a login has evicted its families.
Staying(r) == {t \in Tokens : Live(t) /\ FamilyOf[t] \notin fams[r]}

Admitting(r) == op[r] = "login" /\ at[r] # "mint"

LimitInv ==
    /\ IsFiniteSet({t \in Tokens : row[t] # "none"})
    /\ GoneExisted
    /\ Cardinality(Counted) <= SessionLimit
    /\ \A r \in Requests : Admitting(r) => Cardinality(Staying(r)) <= SessionLimit - 1

-----------------------------------------------------------------------------
(***************************************************************************)
(* The steps.                                                              *)
(***************************************************************************)
\* A request begins with families that have rows, and with nothing done for them.
LEMMA BeginEnding ==
    ASSUME OneAtATime, TypeOK, DenyInv, EndInv, NEW r \in Requests, NEW endpoint, NEW L,
           NEW F \in SUBSET Families, NEW place,
           Begin(r, endpoint, L, F, place), \A f \in F : Born(f),
           endpoint \in {"refresh", "logout"} => \A f, g \in F : f = g,
           place \in {"rotating", "delete"} \/ (place = "create" /\ F = {})
    PROVE  EndInv'
<1> USE DEF TypeOK, Begin, Goto, table, redis, browsers
<1>1. denied[r] = {} /\ gone[r] = {}
  BY DEF DenyInv, Pending, RequestsOK
<1>2. fams'[r] = F /\ denied'[r] = {} /\ at'[r] = place
  BY <1>1
<1>3. \A f \in Families : (Born(f)' <=> Born(f)) /\ (Outlasts(f)' <=> Outlasts(f))
  BY DEF Born, Outlasts
<1>4. Ending(r)'
  BY <1>2, <1>3 DEF Ending, Covers
<1>5. \A s \in Requests : s = r
  BY DEF OneAtATime
<1> QED
  BY <1>3, <1>4, <1>5 DEF EndInv, EndedFamiliesHaveNoRows, Present

\* A request that ends, or that has committed, has no families left.
LEMMA ReleasedEnding ==
    ASSUME TypeOK, NEW r \in Requests, Release(r), at'[r] \in {"idle", "mint"},
           at'[r] = "mint" => \A n \in fresh'[r] : FamilyOf[n] \notin ended'
    PROVE  Ending(r)'
BY DEF TypeOK, Release, Ending

\* It changes nothing else when it fails.
LEMMA EndEnding ==
    ASSUME OneAtATime, TypeOK, EndInv, NEW r \in Requests, End(r),
           UNCHANGED <<now, table, redis, browsers, ended>>
    PROVE  EndInv'
<1>1. Ending(r)'
  BY ReleasedEnding DEF End, Goto, TypeOK
<1>2. \A s \in Requests : s = r
  BY DEF OneAtATime
<1>3. \A f \in Families : (Born(f)' <=> Born(f)) /\ (Outlasts(f)' <=> Outlasts(f))
  BY DEF Born, Outlasts, table, redis, browsers
<1> QED
  BY <1>1, <1>2, <1>3 DEF EndInv, EndedFamiliesHaveNoRows, Present, table, redis, browsers, TypeOK

\* What a commit makes visible: the families it revoked have no row left, and new rows
\* are of other families.
LEMMA CommittedEnding ==
    ASSUME OneAtATime, TypeOK, DenyInv, EndInv, NEW r \in Requests,
           at[r] \in {"commit", "create"}, at'[r] \in {"idle", "mint"},
           NEW N \in SUBSET Tokens, \A n \in N : FamilyOf[n] \notin ended \cup fams[r],
           row' \in [Tokens -> RowStates],
           \A t \in Tokens \ N : row'[t] = IF t \in gone[r] THEN "revoked" ELSE row[t],
           \A n \in N : row'[n] # "none",
           ended' = ended \cup fams[r], Release(r),
           at'[r] = "mint" => fresh'[r] = N,
           UNCHANGED <<now, redis, browsers>>
    PROVE  EndInv'
<1> USE FamilyOfType DEF TypeOK, EndInv
<1>1. /\ fams[r] \subseteq denied[r]
      /\ \A t \in Tokens : Present(t) /\ FamilyOf[t] \in fams[r] => t \in gone[r]
      /\ \A f \in fams[r] : Born(f) /\ Outlasts(f)
  BY DEF Ending, Covers
<1>2. \A f \in Families : Born(f) => Born(f)'
  BY DEF Born
<1>3. \A f \in Families : Outlasts(f)' <=> Outlasts(f)
  BY DEF Outlasts, redis, browsers
<1>4. ASSUME NEW t \in Tokens, FamilyOf[t] \in ended', Present(t)' PROVE FALSE
  <2>1. t \notin N
    BY <1>4
  <2>2. Present(t) /\ t \notin gone[r]
    BY <1>4, <2>1 DEF Present
  <2> QED
    BY <1>1, <1>4, <2>2 DEF EndedFamiliesHaveNoRows
<1>5. Ending(r)'
  BY <1>1, ReleasedEnding
<1>6. \A s \in Requests : s = r
  BY DEF OneAtATime
<1> QED
  BY <1>1, <1>2, <1>3, <1>4, <1>5, <1>6 DEF EndedFamiliesHaveNoRows, browsers

\* One step of the one request, of the clock or of the cleanup.
LEMMA EndNext ==
    ASSUME OneAtATime, TypeOK, RowInv, DenyInv, EndInv, [Next]_vars
    PROVE  EndInv'
<1> USE FamilyOfType
<1>1. ASSUME NEW r \in Requests, NEW t \in Tokens, LockUnused(r, t) PROVE EndInv'
  BY <1>1, BeginEnding DEF LockUnused
<1>2. ASSUME NEW r \in Requests, NEW t \in Tokens, LockUsed(r, t) PROVE EndInv'
  <2>1. Begin(r, "refresh", {t}, {FamilyOf[t]}, "delete") /\ Born(FamilyOf[t])
    BY <1>2 DEF LockUsed, Born
  <2> QED
    BY <2>1, BeginEnding
<1>3. ASSUME NEW r \in Requests, NEW t \in Tokens, Logout(r, t) PROVE EndInv'
  <2>1. Begin(r, "logout", {}, {FamilyOf[t]}, "delete") /\ Born(FamilyOf[t])
    BY <1>3 DEF Logout, Born, Present
  <2> QED
    BY <2>1, BeginEnding
<1>4. ASSUME NEW r \in Requests, NEW a \in access, LogoutAll(r, a) PROVE EndInv'
  <2> DEFINE F == {FamilyOf[t] : t \in {s \in Tokens : Present(s)}}
  <2>1. Begin(r, "logout-all", {}, F, "delete")
    BY <1>4 DEF LogoutAll
  <2>2. F \in SUBSET Families /\ \A f \in F : Born(f)
    BY DEF Born, Present
  <2> HIDE DEF F
  <2> QED
    BY <2>1, <2>2, BeginEnding
<1>5. ASSUME NEW r \in Requests, NEW E \in SUBSET Tokens, Login(r, E) PROVE EndInv'
  <2> DEFINE F == {FamilyOf[t] : t \in E}
             place == IF E = {} THEN "create" ELSE "delete"
  <2>1. Begin(r, "login", {}, F, place) /\ \A t \in E : Live(t)
    BY <1>5 DEF Login
  <2>2. F \in SUBSET Families /\ \A f \in F : Born(f)
    BY <2>1 DEF Born, Live
  <2>3. place = "delete" \/ (place = "create" /\ F = {})
    OBVIOUS
  <2> HIDE DEF F, place
  <2> QED
    BY <2>1, <2>2, <2>3, BeginEnding
<1> USE DEF TypeOK, Goto, table, redis, browsers
<1>6. ASSUME NEW r \in Requests, StartDelete(r) PROVE EndInv'
  <2> USE <1>6 DEF StartDelete
  <2>1. Current(r)' = Current(r)
    BY DEF Current
  <2>2. Sees(r, IF op[r] = "logout-all" THEN Families ELSE {Current(r)})'
    BY <2>1 DEF Sees, Targets, Named, Present
  <2>3. \A f \in Families : (Born(f)' <=> Born(f)) /\ (Outlasts(f)' <=> Outlasts(f))
    BY DEF Born, Outlasts
  <2>4. at'[r] = "deleting" /\ op' = op
    OBVIOUS
  <2>5. op[r] # "logout-all" => Covers(r, denied[r])'
    BY DEF EndInv, Ending, Covers, Present
  <2>6. Ending(r)'
    BY <2>1, <2>2, <2>3, <2>4, <2>5 DEF EndInv, Ending
  <2>7. \A s \in Requests : s = r
    BY DEF OneAtATime
  <2> QED
    BY <2>3, <2>6, <2>7 DEF EndInv, EndedFamiliesHaveNoRows, Present
<1>7. ASSUME NEW r \in Requests, Delete(r) PROVE EndInv'
  <2> USE <1>7 DEF Delete
  <2>1. Current(r)' = Current(r)
    BY DEF Current
  <2>2. at'[r] = (IF fams[r] = {} THEN "bump" ELSE "deny") /\ op' = op
    OBVIOUS
  <2>3. \A f \in Families : (Born(f)' <=> Born(f)) /\ (Outlasts(f)' <=> Outlasts(f))
    BY DEF Born, Outlasts
  <2>4. ASSUME NEW F, Sees(r, F) PROVE Covers(r, F)'
    BY <2>4 DEF Sees, Covers, Present
  <2>5. op[r] # "logout-all" => Covers(r, denied[r])' /\ Covers(r, {Current(r)})'
    <3> SUFFICES ASSUME op[r] # "logout-all"
                 PROVE  Covers(r, denied[r])' /\ Covers(r, {Current(r)})'
      OBVIOUS
    <3>1. Covers(r, denied[r]) /\ Sees(r, {Current(r)})
      BY DEF EndInv, Ending
    <3>2. \A t \in Tokens : (Present(t)' <=> Present(t)) /\ (t \in gone[r] => t \in gone'[r])
             /\ (t \in visit[r] /\ Present(t) => t \in gone'[r])
      BY DEF Present
    <3> QED
      BY <2>1, <3>1, <3>2 DEF Covers, Sees
  <2>6. op[r] = "logout-all" => Covers(r, Families)'
    BY <2>4 DEF EndInv, Ending
  <2>7. Ending(r)'
    BY <2>1, <2>2, <2>3, <2>5, <2>6 DEF EndInv, Ending
  <2>8. \A s \in Requests : s = r
    BY DEF OneAtATime
  <2> QED
    BY <2>3, <2>7, <2>8 DEF EndInv, EndedFamiliesHaveNoRows, Present
<1>8. ASSUME NEW r \in Requests, NEW f \in Families, Deny(r, f) PROVE EndInv'
  <2> USE <1>8 DEF Deny
  <2> DEFINE D == denied[r] \cup {f}
  <2>1. denied'[r] = D /\ at'[r] = AfterDeny(r, D) /\ op' = op /\ D \subseteq fams[r]
    BY DEF DenyInv, Pending
  <2>2. revokedUntil' = [revokedUntil EXCEPT ![f] = now + AccessTTL]
    BY DEF RevokeSid
  <2>3. Outlasts(f)'
    <3> SUFFICES ASSUME NEW a \in access PROVE a.iat + AccessTTL <= now + AccessTTL
      BY <2>2 DEF Outlasts
    <3>1. a.iat \in Nat /\ now \in Nat /\ a.iat <= now
      BY DEF EndInv
    <3> QED
      BY <3>1, TimesType
  <2>4. \A g \in Families : (Born(g)' <=> Born(g)) /\ (Outlasts(g) => Outlasts(g)')
    BY <2>2, <2>3 DEF Born, Outlasts
  <2>5. op[r] # "logout-all" => Covers(r, denied[r])'
    <3> SUFFICES ASSUME op[r] # "logout-all" PROVE Covers(r, denied[r])'
      OBVIOUS
    <3>0. Ending(r) /\ f = Current(r) /\ at[r] = "deny"
      BY DEF EndInv
    <3>1. Covers(r, denied[r]) /\ Covers(r, {f}) /\ denied'[r] = denied[r] \cup {f}
      <4>1. denied'[r] = denied[r] \cup {f}
        BY <2>1
      <4>2. Covers(r, denied[r]) /\ Covers(r, {Current(r)})
        BY ONLY <3>0, op[r] # "logout-all" DEF Ending
      <4> QED
        BY ONLY <3>0, <4>1, <4>2
    <3>2. \A t \in Tokens : (Present(t)' <=> Present(t)) /\ gone' = gone
      BY DEF Present
    <3> QED
      BY <3>1, <3>2 DEF Covers
  <2>6. op[r] = "logout-all" => Covers(r, Families)' /\ Covers(r, fams[r])'
    BY DEF EndInv, Ending, Covers, Present
  <2>7. op[r] \in {"refresh", "logout"} => D = fams[r]
    BY <2>1 DEF EndInv, Ending
  <2>8. \/ at'[r] = "create" /\ op[r] = "login" /\ D = fams[r]
        \/ at'[r] = "delete" /\ op[r] = "login"
        \/ at'[r] = "deny" /\ op[r] = "logout-all"
        \/ at'[r] = "commit" /\ op[r] = "logout" /\ D = fams[r]
        \/ at'[r] = "bump" /\ D = fams[r]
    <3>1. op[r] \in {"login", "logout", "refresh", "logout-all"}
      BY DEF DenyInv, Pending, Ops
    <3> HIDE DEF D
    <3> QED
      BY <2>1, <2>7, <3>1 DEF AfterDeny
  <2>9. Ending(r)'
    <3>1. (\A g \in fams'[r] : Born(g)') /\ \A g \in denied'[r] : Outlasts(g)'
      BY <2>1, <2>3, <2>4 DEF EndInv, Ending
    <3>2. op'[r] \in {"refresh", "logout"} => \A g, h \in fams'[r] : g = h
      BY <2>1 DEF EndInv, Ending
    <3>3. at'[r] # "deny" => (op[r] # "logout-all" /\ D = fams[r] => Covers(r, fams[r])')
      BY <2>1, <2>5
    <3>4. op'[r] = op[r] /\ fams'[r] = fams[r] /\ denied'[r] = D
      BY <2>1
    <3> HIDE DEF D
    <3> QED
      BY <2>5, <2>6, <2>8, <3>1, <3>2, <3>3, <3>4 DEF Ending
  <2>10. \A s \in Requests : s = r
    BY DEF OneAtATime
  <2> QED
    BY <2>4, <2>9, <2>10 DEF EndInv, EndedFamiliesHaveNoRows, Present
<1>9. ASSUME NEW r \in Requests, Bump(r) PROVE EndInv'
  <2> USE <1>9 DEF Bump, work
  <2>1. \A f \in Families : (Born(f)' <=> Born(f)) /\ (Outlasts(f)' <=> Outlasts(f))
    BY DEF Born, Outlasts
  <2>2. at'[r] \in {"raise", "commit"} /\ op' = op /\ (at'[r] = "commit" => op[r] = "logout-all")
    BY DEF DenyInv, Pending
  <2>3. at'[r] = "commit" => Covers(r, fams[r])'
    BY <2>2 DEF EndInv, Ending, Covers, Present
  <2>4. Ending(r)'
    BY <2>1, <2>2, <2>3 DEF EndInv, Ending
  <2>5. \A s \in Requests : s = r
    BY DEF OneAtATime
  <2> QED
    BY <2>1, <2>4, <2>5 DEF EndInv, EndedFamiliesHaveNoRows, Present
<1>10. ASSUME NEW r \in Requests, NEW t \in Tokens, NEW n \in Tokens, Rotate(r, t, n) PROVE EndInv'
  <2> USE <1>10 DEF Rotate
  <2>1. row[t] = "unused" /\ FamilyOf[t] \notin ended /\ FamilyOf[n] \notin ended
    BY DEF RowInv, RotatingIsUnused, EndInv, EndedFamiliesHaveNoRows, Present
  <2>2. \A f \in Families : (Born(f) => Born(f)') /\ (Outlasts(f)' <=> Outlasts(f))
    BY DEF Born, Outlasts, Rotated
  <2>3. \A k \in Tokens : Present(k)' => Present(k) \/ k = n
    BY <2>1 DEF Present, Rotated
  <2>4. Ending(r)'
    <3>1. at'[r] = "mint" /\ fresh'[r] = {n} /\ ended' = ended /\ Release(r)
      OBVIOUS
    <3> QED
      BY <2>1, <3>1, ReleasedEnding
  <2>5. \A s \in Requests : s = r
    BY DEF OneAtATime
  <2> QED
    BY <2>1, <2>2, <2>3, <2>4, <2>5 DEF EndInv, EndedFamiliesHaveNoRows
<1>11. ASSUME NEW r \in Requests, NEW n \in Tokens, Mint(r, n) PROVE EndInv'
  <2> USE <1>11 DEF Mint, End
  <2>1. FamilyOf[n] \notin ended
    BY DEF EndInv, Ending
  <2>2. access' \subseteq access \cup {[family |-> FamilyOf[n], iat |-> now]}
    OBVIOUS
  <2>3. \A f \in Families : (Born(f)' <=> Born(f)) /\ (f # FamilyOf[n] /\ Outlasts(f) => Outlasts(f)')
    BY <2>2 DEF Born, Outlasts
  <2>4. Ending(r)'
    BY ReleasedEnding
  <2>5. \A s \in Requests : s = r
    BY DEF OneAtATime
  <2>6. \A a \in access' : a.iat <= now'
    BY <2>2 DEF EndInv
  <2> QED
    BY <2>1, <2>3, <2>4, <2>5, <2>6 DEF EndInv, EndedFamiliesHaveNoRows, Present
<1>12. ASSUME NEW r \in Requests, Raise(r) \/ Fail(r) PROVE EndInv'
  BY <1>12, EndEnding DEF Raise, Fail
<1>13. ASSUME NEW r \in Requests, Commit(r) PROVE EndInv'
  <2>1. row' \in [Tokens -> RowStates]
    BY <1>13 DEF Commit, Erase, RowStates
  <2>2. {} \in SUBSET Tokens /\ \A n \in {} : FamilyOf[n] \notin ended \cup fams[r] /\ row'[n] # "none"
    OBVIOUS
  <2>3. /\ at[r] \in {"commit", "create"} /\ at'[r] = "idle"
        /\ ended' = ended \cup fams[r] /\ Release(r)
        /\ UNCHANGED <<now, redis, browsers>>
    BY <1>13 DEF Commit, End
  <2>4. \A t \in Tokens \ {} : row'[t] = IF t \in gone[r] THEN "revoked" ELSE row[t]
    BY <1>13 DEF Commit, Erase
  <2>5. at'[r] \in {"idle", "mint"} /\ (at'[r] = "mint" => fresh'[r] = {})
    BY <2>3
  <2> HIDE DEF TypeOK, Goto, table, redis, browsers
  <2> QED
    BY <2>1, <2>2, <2>3, <2>4, <2>5, CommittedEnding
<1>14. ASSUME NEW r \in Requests, NEW n \in Tokens, Create(r, n) PROVE EndInv'
  <2>1. row' \in [Tokens -> RowStates]
    BY <1>14 DEF Create, RowStates
  <2>2. ~Born(FamilyOf[n])
    BY <1>14 DEF Create, Unborn, RowsOf, Born
  <2>3. FamilyOf[n] \notin ended \cup fams[r]
    BY <2>2 DEF EndInv, Ending
  <2>4. {n} \in SUBSET Tokens
    OBVIOUS
  <2>5. /\ at[r] \in {"commit", "create"} /\ at'[r] \in {"idle", "mint"}
        /\ ended' = ended \cup fams[r] /\ Release(r) /\ fresh'[r] = {n}
        /\ UNCHANGED <<now, redis, browsers>>
    BY <1>14 DEF Create
  <2>6. /\ \A t \in Tokens \ {n} : row'[t] = IF t \in gone[r] THEN "revoked" ELSE row[t]
        /\ row'[n] # "none"
    BY <1>14 DEF Create
  <2>7. /\ \A k \in {n} : FamilyOf[k] \notin ended \cup fams[r] /\ row'[k] # "none"
        /\ at'[r] = "mint" => fresh'[r] = {n}
    BY <2>3, <2>5, <2>6
  <2> HIDE DEF TypeOK, Goto, table, redis, browsers
  <2> QED
    BY <2>1, <2>4, <2>5, <2>6, <2>7, CommittedEnding
<1>15. CASE Tick
  <2>1. now \in Nat /\ now' = now + 1 /\ access' \subseteq access
    BY <1>15 DEF Tick
  <2>2. \A a \in access' : a.iat <= now'
    BY <2>1 DEF EndInv
  <2>3. \A f \in Families : (Born(f)' <=> Born(f)) /\ (Outlasts(f) => Outlasts(f)')
    BY <1>15, <2>1 DEF Tick, Born, Outlasts
  <2>4. ASSUME NEW r \in Requests PROVE Ending(r)'
    <3>1. Current(r)' = Current(r) /\ \A F : (Covers(r, F)' <=> Covers(r, F)) /\ (Sees(r, F)' <=> Sees(r, F))
      BY <1>15 DEF Tick, work, Current, Covers, Sees, Present
    <3> QED
      BY <1>15, <2>3, <3>1 DEF Tick, work, EndInv, Ending
  <2> QED
    BY <1>15, <2>2, <2>3, <2>4 DEF Tick, EndInv, EndedFamiliesHaveNoRows, Present
<1>16. CASE Cleanup
  <2>1. row' \in [Tokens -> RowStates] /\ \A t \in Tokens : row'[t] = row[t] \/ (row'[t] = "cleaned" /\ Present(t))
    BY <1>16 DEF Cleanup, Erase, RowStates
  <2>2. \A t \in Tokens : Present(t)' => Present(t)
    BY <2>1 DEF Present
  <2>3. \A f \in Families : (Born(f) => Born(f)') /\ (Outlasts(f)' <=> Outlasts(f))
    BY <1>16, <2>1 DEF Cleanup, Born, Outlasts, Present
  <2>4. ASSUME NEW r \in Requests PROVE Ending(r)'
    <3>1. Current(r)' = Current(r) /\ \A F : (Covers(r, F) => Covers(r, F)') /\ (Sees(r, F) => Sees(r, F)')
      BY <1>16, <2>2 DEF Cleanup, work, Current, Covers, Sees
    <3> QED
      BY <1>16, <2>3, <3>1 DEF Cleanup, work, EndInv, Ending
  <2> QED
    BY <1>16, <2>2, <2>3, <2>4 DEF Cleanup, EndInv, EndedFamiliesHaveNoRows
<1>17. CASE UNCHANGED vars
  <2>1. \A f \in Families : (Born(f)' <=> Born(f)) /\ (Outlasts(f)' <=> Outlasts(f))
    BY <1>17 DEF vars, Born, Outlasts
  <2>2. ASSUME NEW r \in Requests PROVE Ending(r)'
    <3>1. Current(r)' = Current(r) /\ \A F : (Covers(r, F)' <=> Covers(r, F)) /\ (Sees(r, F)' <=> Sees(r, F))
      BY <1>17 DEF vars, work, Current, Covers, Sees, Present
    <3> QED
      BY <1>17, <2>1, <3>1 DEF vars, work, EndInv, Ending
  <2> QED
    BY <1>17, <2>1, <2>2 DEF vars, EndInv, EndedFamiliesHaveNoRows, Present
<1> QED
  BY <1>1, <1>2, <1>3, <1>4, <1>5, <1>6, <1>7, <1>8, <1>9, <1>10, <1>11, <1>12, <1>13, <1>14,
     <1>15, <1>16, <1>17 DEF Next, Arrive, Step, Victim

LEMMA EndHolds ==
    ASSUME OneAtATime
    PROVE  Spec => []EndInv
<1>1. Init => EndInv
  BY DEF Init, EndInv, EndedFamiliesHaveNoRows, Ending
<1> QED
  BY <1>1, EndNext, TypeCorrect, TableInvariant, RevocationFollowed, PTL DEF Spec

\* "POST /logout: family deleted": when a logout, a logout-all or an eviction has been
\* committed, no row of its families is left and none is ever inserted again
\* (revoke_family, revoke_all_for_user, rotate).
THEOREM EndedGone ==
    ASSUME OneAtATime
    PROVE  Spec => []EndedFamiliesHaveNoRows
<1>1. EndInv => EndedFamiliesHaveNoRows
  BY DEF EndInv
<1> QED
  BY <1>1, EndHolds, PTL

\* The access JWTs of an ended family are refused as long as their `exp` claim alone
\* would let them in (revoke_sid's TTL, get_current_user).
THEOREM EndedDenied ==
    ASSUME OneAtATime
    PROVE  Spec => []EndedFamiliesAreDenied
<1>1. TypeOK /\ EndInv => EndedFamiliesAreDenied
  <2> SUFFICES ASSUME TypeOK, EndInv, NEW a \in access, a.family \in ended, Accepts(a)
               PROVE  now >= a.iat + AccessTTL
    BY DEF EndedFamiliesAreDenied
  <2>1. a.iat + AccessTTL <= revokedUntil[a.family]
    BY DEF EndInv, Outlasts
  <2>2. revokedUntil[a.family] <= now
    BY DEF Accepts
  <2>3. a.iat \in Nat /\ now \in Nat /\ revokedUntil[a.family] \in Nat
    BY DEF TypeOK
  <2> QED
    BY <2>1, <2>2, <2>3, TimesType
<1> QED
  BY <1>1, TypeCorrect, EndHolds, PTL

-----------------------------------------------------------------------------
(***************************************************************************)
(* The session limit.                                                      *)
(***************************************************************************)
LEMMA Smaller ==
    ASSUME NEW S, NEW T, IsFiniteSet(S), T \subseteq S
    PROVE  /\ IsFiniteSet(T)
           /\ Cardinality(T) \in Nat /\ Cardinality(S) \in Nat
           /\ Cardinality(T) <= Cardinality(S)
BY FS_Subset, FS_CardinalityType

LEMMA CountedFinite ==
    ASSUME TypeOK, RowInv, LimitInv
    PROVE  IsFiniteSet(Counted)
<1>1. Counted \subseteq {t \in Tokens : row[t] # "none"}
  BY DEF RowInv, RotatingIsUnused, Counted, Live
<1> QED
  BY <1>1, Smaller DEF LimitInv

\* No row is added, none becomes live, and every login has what it had.
NoneAdded ==
    /\ \A t \in Tokens : row'[t] # "none" => row[t] # "none"
    /\ \A t \in Tokens : Live(t)' => Live(t)
    /\ GoneExisted'
    /\ \A r \in Requests : at'[r] = "rotating" => hold'[r] \subseteq Counted
    /\ \A r \in Requests : Admitting(r)' => Admitting(r) /\ fams'[r] = fams[r]

LEMMA Fewer ==
    ASSUME TypeOK, RowInv, LimitInv, NoneAdded
    PROVE  LimitInv'
<1> USE DEF NoneAdded
<1>1. Counted' \subseteq Counted
  BY DEF Counted
<1>2. IsFiniteSet(Counted)
  BY CountedFinite
<1>3. Cardinality(Counted') <= SessionLimit
  BY <1>1, <1>2, Smaller, LimitType DEF LimitInv
<1>4. IsFiniteSet({t \in Tokens : row'[t] # "none"})
  <2>1. {t \in Tokens : row'[t] # "none"} \subseteq {t \in Tokens : row[t] # "none"}
    OBVIOUS
  <2> QED
    BY <2>1, Smaller DEF LimitInv
<1>5. ASSUME NEW r \in Requests, Admitting(r)' PROVE Cardinality(Staying(r)') <= SessionLimit - 1
  <2>1. Staying(r)' \subseteq Staying(r) /\ Staying(r) \subseteq Counted
    BY <1>5 DEF Staying, Counted
  <2>2. Cardinality(Staying(r)) <= SessionLimit - 1
    BY <1>5 DEF LimitInv
  <2>3. IsFiniteSet(Staying(r))
    BY <1>2, <2>1, Smaller
  <2>4. /\ Cardinality(Staying(r)') \in Nat /\ Cardinality(Staying(r)) \in Nat
        /\ Cardinality(Staying(r)') <= Cardinality(Staying(r))
    BY <2>1, <2>3, Smaller
  <2> QED
    BY <2>2, <2>4, LimitType
<1> QED
  BY <1>3, <1>4, <1>5 DEF LimitInv

\* A login leaves room for its own session: it evicts all but SessionLimit - 1.
LEMMA LoginAdmits ==
    ASSUME OneAtATime, TypeOK, RowInv, LimitInv, NEW r \in Requests, NEW E \in SUBSET Tokens,
           Login(r, E)
    PROVE  LimitInv'
<1> DEFINE active == {t \in Tokens : Live(t)}
           N == Cardinality(active)
<1> USE DEF Login, Begin, Goto, table, redis, browsers, TypeOK
<1>1. IsFiniteSet(Counted) /\ active \subseteq Counted
  BY CountedFinite DEF Counted
<1>2. IsFiniteSet(active) /\ N \in Nat
  BY <1>1, Smaller
<1>3. Cardinality(active \ E) = N - Cardinality(E)
  <2>1. active \cap E = E
    OBVIOUS
  <2> QED
    BY <1>2, <2>1, FS_Difference
<1>4. Cardinality(active \ E) <= SessionLimit - 1
  <2>1. Cardinality(E) = Excess(N)
    OBVIOUS
  <2> HIDE DEF active, N
  <2> QED
    BY <1>2, <1>3, <2>1, LimitType DEF Excess
<1>5. \A s \in Requests : s = r
  BY DEF OneAtATime
<1>6. \A t \in Tokens : Live(t)' <=> Live(t)
  BY DEF Live, Expired
<1>7. at'[r] # "rotating" /\ fams'[r] = {FamilyOf[t] : t \in E} /\ row' = row
  OBVIOUS
<1>8. Counted' = active
  BY <1>5, <1>6, <1>7 DEF Counted
<1>9. Cardinality(Counted') <= SessionLimit
  BY <1>1, <1>8, Smaller, LimitType DEF LimitInv
<1>10. Cardinality(Staying(r)') <= SessionLimit - 1
  <2>1. Staying(r)' \subseteq active \ E
    BY <1>6, <1>7 DEF Staying
  <2>2. IsFiniteSet(active \ E)
    BY <1>2, Smaller
  <2>3. /\ Cardinality(Staying(r)') <= Cardinality(active \ E)
        /\ Cardinality(Staying(r)') \in Nat /\ Cardinality(active \ E) \in Nat
    BY <2>1, <2>2, Smaller
  <2> HIDE DEF active
  <2> QED
    BY <1>4, <2>3, LimitType
<1> QED
  BY <1>5, <1>7, <1>9, <1>10 DEF LimitInv, GoneExisted

\* A commit inserts one row n beside those of Others, for which there is room.
LEMMA Inserting ==
    ASSUME OneAtATime, TypeOK, RowInv, LimitInv, NEW r \in Requests,
           at'[r] = "mint", gone'[r] = {},
           NEW n \in Tokens, NEW Others \in SUBSET Counted,
           Cardinality(Others) <= SessionLimit - 1,
           \A t \in Tokens \ {n} : row'[t] # "none" => row[t] # "none",
           \A t \in Tokens \ {n} : Live(t)' => t \in Others
    PROVE  LimitInv'
<1>1. \A s \in Requests : s = r
  BY DEF OneAtATime
<1>2. Counted' \subseteq Others \cup {n}
  BY <1>1 DEF Counted
<1>3. IsFiniteSet(Others)
  BY CountedFinite, Smaller
<1>4. /\ IsFiniteSet(Others \cup {n}) /\ Cardinality(Others) \in Nat
      /\ Cardinality(Others \cup {n}) <= Cardinality(Others) + 1
  <2>1. Cardinality(Others) \in Nat
    BY <1>3, Smaller
  <2>2. /\ IsFiniteSet(Others \cup {n})
        /\ Cardinality(Others \cup {n}) =
             IF n \in Others THEN Cardinality(Others) ELSE Cardinality(Others) + 1
    BY <1>3, FS_AddElement
  <2> QED
    BY <2>1, <2>2
<1>5. /\ Cardinality(Counted') \in Nat /\ Cardinality(Others \cup {n}) \in Nat
      /\ Cardinality(Counted') <= Cardinality(Others \cup {n})
  BY <1>2, <1>4, Smaller
<1>6. Cardinality(Counted') <= SessionLimit
  BY <1>4, <1>5, LimitType
<1>7. IsFiniteSet({t \in Tokens : row'[t] # "none"})
  <2>1. {t \in Tokens : row'[t] # "none"} \subseteq {t \in Tokens : row[t] # "none"} \cup {n}
    OBVIOUS
  <2>2. IsFiniteSet({t \in Tokens : row[t] # "none"} \cup {n})
    BY FS_AddElement DEF LimitInv
  <2> QED
    BY <2>1, <2>2, Smaller
<1> QED
  BY <1>1, <1>6, <1>7 DEF LimitInv, GoneExisted, Admitting

LEMMA LimitNext ==
    ASSUME OneAtATime, TypeOK, RowInv, DenyInv, EndInv, LimitInv, [Next]_vars
    PROVE  LimitInv'
<1>1. ASSUME NEW r \in Requests, NEW E \in SUBSET Tokens, Login(r, E) PROVE LimitInv'
  BY <1>1, LoginAdmits
<1>2. ASSUME NEW r \in Requests, NEW t \in Tokens, NEW n \in Tokens, Rotate(r, t, n) PROVE LimitInv'
  <2> USE <1>2 DEF Rotate, Rotated, TypeOK, Goto, redis, browsers
  <2>1. t \in Counted /\ t # n
    BY DEF Counted, RowInv, RotatingIsUnused
  <2>2. Cardinality(Counted \ {t}) <= SessionLimit - 1
    <3>1. IsFiniteSet(Counted)
      BY CountedFinite
    <3>2. Cardinality(Counted \ {t}) = Cardinality(Counted) - 1 /\ Cardinality(Counted) \in Nat
      BY <2>1, <3>1, FS_RemoveElement, FS_CardinalityType
    <3> QED
      BY <3>2, LimitType DEF LimitInv
  <2>3. ASSUME NEW k \in Tokens \ {n}, Live(k)' PROVE k \in Counted \ {t}
    BY <2>1, <2>3 DEF Live, Expired, Counted
  <2>4. \A k \in Tokens \ {n} : row'[k] # "none" => row[k] # "none"
    BY DEF RowInv, RotatingIsUnused
  <2>5. Counted \ {t} \in SUBSET Counted
    OBVIOUS
  <2>6. at'[r] = "mint" /\ gone'[r] = {}
    BY DEF Release
  <2> QED
    BY <2>2, <2>3, <2>4, <2>5, <2>6, Inserting
<1>3. ASSUME NEW r \in Requests, NEW n \in Tokens, Create(r, n) PROVE LimitInv'
  <2> USE <1>3 DEF Create, TypeOK, Goto, redis, browsers
  <2>1. Covers(r, fams[r])
    BY DEF EndInv, Ending
  <2>2. op[r] = "login"
    BY DEF DenyInv, Pending
  <2>3. Cardinality(Staying(r)) <= SessionLimit - 1
    BY <2>2 DEF LimitInv, Admitting
  <2>4. ASSUME NEW k \in Tokens \ {n}, Live(k)' PROVE k \in Staying(r)
    BY <2>1, <2>4 DEF Live, Expired, Staying, Covers, Present
  <2>5. Staying(r) \in SUBSET Counted
    BY DEF Staying, Counted
  <2>6. \A k \in Tokens \ {n} : row'[k] # "none" => row[k] # "none"
    BY DEF LimitInv, GoneExisted
  <2>7. at'[r] = "mint" /\ gone'[r] = {}
    BY DEF Release
  <2> QED
    BY <2>3, <2>4, <2>5, <2>6, <2>7, Inserting
<1>4. GoneExisted /\ \A r \in Requests : at[r] = "rotating" => hold[r] \subseteq Counted
  BY DEF LimitInv, Counted, TypeOK
<1>5. ASSUME NEW r \in Requests, NEW t \in Tokens, LockUnused(r, t) PROVE LimitInv'
  <2>1. NoneAdded
    BY <1>4, <1>5 DEF NoneAdded, TypeOK, Goto, table, redis, browsers, Live, Expired,
       Admitting, GoneExisted, LockUnused, Begin, Counted
  <2> QED
    BY <2>1, Fewer
<1>6. ASSUME NEW r \in Requests, NEW t \in Tokens, LockUsed(r, t) PROVE LimitInv'
  <2>1. NoneAdded
    BY <1>4, <1>6 DEF NoneAdded, TypeOK, Goto, table, redis, browsers, Live, Expired,
       Admitting, GoneExisted, LockUsed, Begin
  <2> QED
    BY <2>1, Fewer
<1>7. ASSUME NEW r \in Requests, NEW t \in Tokens, Logout(r, t) PROVE LimitInv'
  <2>1. NoneAdded
    BY <1>4, <1>7 DEF NoneAdded, TypeOK, Goto, table, redis, browsers, Live, Expired,
       Admitting, GoneExisted, Logout, Begin
  <2> QED
    BY <2>1, Fewer
<1>8. ASSUME NEW r \in Requests, NEW a \in access, LogoutAll(r, a) PROVE LimitInv'
  <2>1. NoneAdded
    BY <1>4, <1>8 DEF NoneAdded, TypeOK, Goto, table, redis, browsers, Live, Expired,
       Admitting, GoneExisted, LogoutAll, Begin
  <2> QED
    BY <2>1, Fewer
<1>9. ASSUME NEW r \in Requests, StartDelete(r) PROVE LimitInv'
  <2>1. NoneAdded
    BY <1>4, <1>9 DEF NoneAdded, TypeOK, Goto, table, redis, browsers, Live, Expired,
       Admitting, GoneExisted, StartDelete
  <2> QED
    BY <2>1, Fewer
<1>10. ASSUME NEW r \in Requests, Delete(r) PROVE LimitInv'
  <2>1. NoneAdded
    BY <1>4, <1>10 DEF NoneAdded, TypeOK, Goto, table, redis, browsers, Live, Expired,
       Admitting, GoneExisted, Delete, Present
  <2> QED
    BY <2>1, Fewer
<1>11. ASSUME NEW r \in Requests, NEW f \in Families, Deny(r, f) PROVE LimitInv'
  <2>1. NoneAdded
    BY <1>4, <1>11 DEF NoneAdded, TypeOK, Goto, table, redis, browsers, Live, Expired,
       Admitting, GoneExisted, Deny, AfterDeny
  <2> QED
    BY <2>1, Fewer
<1>12. ASSUME NEW r \in Requests, Bump(r) PROVE LimitInv'
  <2>1. NoneAdded
    BY <1>4, <1>12 DEF NoneAdded, TypeOK, Goto, table, redis, browsers, Live, Expired,
       Admitting, GoneExisted, Bump, work
  <2> QED
    BY <2>1, Fewer
<1>13. ASSUME NEW r \in Requests, NEW n \in Tokens, Mint(r, n) PROVE LimitInv'
  <2>1. NoneAdded
    BY <1>4, <1>13 DEF NoneAdded, TypeOK, Goto, table, redis, browsers, Live, Expired,
       Admitting, GoneExisted, Mint, End, Release
  <2> QED
    BY <2>1, Fewer
<1>14. ASSUME NEW r \in Requests, Raise(r) \/ Fail(r) PROVE LimitInv'
  <2>1. NoneAdded
    BY <1>4, <1>14 DEF NoneAdded, TypeOK, Goto, table, redis, browsers, Live, Expired,
       Admitting, GoneExisted, Raise, Fail, End, Release
  <2> QED
    BY <2>1, Fewer
<1>15. ASSUME NEW r \in Requests, Commit(r) PROVE LimitInv'
  <2>1. NoneAdded
    BY <1>4, <1>15 DEF NoneAdded, TypeOK, Goto, table, redis, browsers, Live, Expired,
       Admitting, GoneExisted, Commit, Erase, End, Release
  <2> QED
    BY <2>1, Fewer
<1>16. CASE Tick
  <2>1. ASSUME NEW t \in Tokens, Live(t)' PROVE Live(t)
    <3>1. now' = now + 1 /\ row' = row /\ born' = born
      BY <1>16 DEF Tick, table
    <3>2. now \in Nat /\ born[t] \in Nat
      BY DEF TypeOK
    <3> QED
      BY <2>1, <3>1, <3>2, TimesType DEF Live, Expired
  <2>2. NoneAdded
    BY <1>4, <1>16, <2>1 DEF NoneAdded, Admitting, GoneExisted, Tick, table, work
  <2> QED
    BY <2>2, Fewer
<1>17. CASE Cleanup
  <2>1. NoneAdded
    BY <1>4, <1>17 DEF NoneAdded, TypeOK, Goto, table, redis, browsers, Live, Expired,
       Admitting, GoneExisted, Cleanup, Erase, Present, work
  <2> QED
    BY <2>1, Fewer
<1>18. CASE UNCHANGED vars
  <2>1. NoneAdded
    BY <1>4, <1>18 DEF NoneAdded, TypeOK, Goto, table, redis, browsers, Live, Expired,
       Admitting, GoneExisted, vars, work
  <2> QED
    BY <2>1, Fewer
<1> QED
  BY <1>1, <1>2, <1>3, <1>5, <1>6, <1>7, <1>8, <1>9, <1>10,
     <1>11, <1>12, <1>13, <1>14, <1>15, <1>16, <1>17, <1>18 DEF Next, Arrive, Step, Victim

\* "Max 5 sessions per user": the committed rows that are neither used nor expired are
\* at most SessionLimit (enforce_limit, rotate, create_session).
THEOREM LimitHolds ==
    ASSUME OneAtATime
    PROVE  Spec => []WithinSessionLimit
<1>1. Init => LimitInv
  <2> SUFFICES ASSUME Init PROVE LimitInv
    OBVIOUS
  <2>1. {t \in Tokens : row[t] # "none"} = {} /\ Counted = {}
    BY DEF Init, Counted, Live
  <2>2. IsFiniteSet({}) /\ Cardinality({}) = 0
    BY FS_EmptySet
  <2>3. \A r \in Requests : ~Admitting(r) /\ gone[r] = {}
    BY DEF Init, Admitting
  <2>4. IsFiniteSet({t \in Tokens : row[t] # "none"})
    BY <2>1, <2>2, Zenon
  <2>5. Cardinality(Counted) <= SessionLimit
    <3>1. Cardinality(Counted) = 0
      BY <2>1, <2>2, Zenon
    <3> QED
      BY <3>1, LimitType
  <2> QED
    BY <2>3, <2>4, <2>5, Zenon DEF LimitInv, GoneExisted
<1>2. TypeOK /\ RowInv /\ LimitInv => WithinSessionLimit
  <2> SUFFICES ASSUME TypeOK, RowInv, LimitInv PROVE WithinSessionLimit
    OBVIOUS
  <2>1. {t \in Tokens : Live(t)} \subseteq Counted
    BY DEF Counted
  <2>2. /\ Cardinality(Counted) \in Nat /\ Cardinality({t \in Tokens : Live(t)}) \in Nat
        /\ Cardinality({t \in Tokens : Live(t)}) <= Cardinality(Counted)
    BY <2>1, CountedFinite, Smaller
  <2> QED
    BY <2>2, LimitType DEF LimitInv, WithinSessionLimit
<1> QED
  BY <1>1, <1>2, LimitNext, TypeCorrect, TableInvariant, RevocationFollowed, EndHolds, PTL DEF Spec
=============================================================================
