-------------------------- MODULE FullReviewProofs --------------------------
(***************************************************************************)
(* Theorems about FullReview, for any tools, findings, searches, hits and  *)
(* bounds: the clone, the results of the parallel calls, what the sorts of *)
(* Layer 4 return and that the sources are the best of all that was found, *)
(* and that every step of a review leaves fewer to make.                   *)
(***************************************************************************)
EXTENDS FullReview, NumberProofs, SequenceTheorems

-----------------------------------------------------------------------------
(***************************************************************************)
(* The clone.                                                              *)
(***************************************************************************)
\* The temporary directory exists only between cloning and the end.
CloneInv == stage \in {"start", "ended", "closed"} => tmp = FALSE

\* However a run of full_review_stream ends, the directory it cloned into is gone.
THEOREM CloneGone == Spec => []CloneIsRemoved
<1>1. Init => CloneInv
  BY DEF Init, CloneInv
<1>2. CloneInv /\ [Next]_vars => CloneInv'
  <2> SUFFICES ASSUME CloneInv, [Next]_vars PROVE CloneInv'
    OBVIOUS
  <2> USE DEF CloneInv
  <2>1. CASE Start
    BY <2>1 DEF Start
  <2>2. CASE Clone
    BY <2>2 DEF Clone
  <2>3. CASE StepRaises
    BY <2>3 DEF StepRaises, Raise, Leave
  <2>4. CASE Analyze
    BY <2>4 DEF Analyze
  <2>5. CASE RunLayer3
    BY <2>5 DEF RunLayer3
  <2>6. CASE ShowReview
    BY <2>6 DEF ShowReview, Leave
  <2>7. CASE RunLayer4
    BY <2>7 DEF RunLayer4
  <2>8. CASE ShowSuggestion
    BY <2>8 DEF ShowSuggestion, Leave
  <2>9. CASE Close
    BY <2>9 DEF Close, Leave
  <2>10. CASE UNCHANGED vars
    BY <2>10 DEF vars
  <2> QED
    BY <2>1, <2>2, <2>3, <2>4, <2>5, <2>6, <2>7, <2>8, <2>9, <2>10 DEF Next, Progress
<1>3. CloneInv => CloneIsRemoved
  BY DEF CloneInv, CloneIsRemoved, Over
<1> QED
  BY <1>1, <1>2, <1>3, PTL DEF Spec

-----------------------------------------------------------------------------
(***************************************************************************)
(* Severity.                                                               *)
(***************************************************************************)
\* A set of naturals has a least element.
LEMMA LeastNatural ==
    ASSUME NEW T \in SUBSET Nat, T # {}
    PROVE  \E s \in T : \A t \in T : s <= t
<1>1. PICK s \in T : \A t \in T : ~(<<t, s>> \in OpToRel(<, Nat))
  BY WFMin, NatLessThanWellFounded, Zenon
<1>2. \A t \in T : ~(t < s)
  BY <1>1, Zenon DEF OpToRel
<1>3. \A t \in T : s <= t
  BY <1>2
<1> QED
  BY <1>3

\* SeverityOf is the lowest of the severities that the tools gave the id.
LEMMA SeverityExists ==
    ASSUME found \subseteq Findings, NEW id \in Known
    PROVE  [id |-> id, severity |-> SeverityOf(id)] \in found
<1> DEFINE T == {f.severity : f \in {g \in found : g.id = id}}
<1>1. T \in SUBSET Nat /\ T # {}
  BY FindingsType DEF Known, Findings
<1>2. PICK s \in T : \A t \in T : s <= t
  <2> HIDE DEF T
  <2> QED
    BY <1>1, LeastNatural
<1>3. s \in Severities /\ [id |-> id, severity |-> s] \in found
  BY <1>2 DEF Findings
<1>4. \A f \in found : f.id = id => s <= f.severity
  BY <1>2
<1> QED
  BY <1>3, <1>4 DEF SeverityOf

SeverityInv == found \subseteq Findings /\ SeverityIsTheTools

\* The explanations of a review have severities that the tools gave, whatever the
\* model answers.
THEOREM SeverityStays == Spec => []SeverityIsTheTools
<1>1. Init => SeverityInv
  BY DEF Init, ReviewInit, SeverityInv, SeverityIsTheTools, Unread
<1>2. SeverityInv /\ [Next]_vars => SeverityInv'
  <2> SUFFICES ASSUME SeverityInv, [Next]_vars PROVE SeverityInv'
    OBVIOUS
  <2> USE DEF SeverityInv, SeverityIsTheTools
  <2>1. CASE UNCHANGED reviewVars
    BY <2>1 DEF reviewVars
  <2>2. CASE ForgetReview
    BY <2>2 DEF ForgetReview, Unread
  <2>3. CASE RunTool
    BY <2>3 DEF RunTool
  <2>4. CASE UNCHANGED <<found, layer3>>
    BY <2>4
  <2>5. CASE Merge(jd)
    <3>1. Explained(answer.claims) \subseteq found
      BY SeverityExists DEF Explained
    <3>2. layer3'.shown = Explained(answer.claims) /\ found' = found
      BY <2>5 DEF Merge
    <3> QED
      BY <3>1, <3>2
  <2> QED
    BY <2>1, <2>2, <2>3, <2>4, <2>5
       DEF Next, Progress, vars, Start, Clone, StepRaises, Raise, Leave, Analyze, RunLayer3,
           StartCalls, ReviewStep, Reply, ReplyInvalid, ReplyRaises, ShowReview, RunLayer4,
           ShowSuggestion, Close, reviewVars
<1> QED
  BY <1>1, <1>2, PTL DEF Spec, SeverityInv

-----------------------------------------------------------------------------
(***************************************************************************)
(* Results of parallel calls.                                              *)
(***************************************************************************)
\* Once the calls are made, call B is one of them iff there is a job description,
\* and results are put together when every call has ended.
CallsInv ==
    /\ call \in [Calls -> CallStates]
    /\ call # Unmade => (call["B"] = "none" <=> ~jd)
    /\ layer3 # Unread => call # Unmade /\ Answered

ResultsInv == CallsInv /\ ResultsAreTheirs

LEMMA ResultsHold == Spec => []ResultsInv
<1> USE DEF ResultsInv, CallsInv, ResultsAreTheirs
<1>1. Init => ResultsInv
  BY DEF Init, ReviewInit, Unmade, Calls, CallStates
<1>2. ResultsInv /\ [Next]_vars => ResultsInv'
  <2> SUFFICES ASSUME ResultsInv, [Next]_vars PROVE ResultsInv'
    OBVIOUS
  <2>1. CASE UNCHANGED <<call, layer3, jd>>
    BY <2>1 DEF Answered
  <2>2. CASE ForgetReview
    BY <2>2 DEF ForgetReview, Unmade, Calls, CallStates
  <2>3. CASE StartCalls(jd) /\ UNCHANGED jd
    <3>1. layer3 = Unread /\ layer3' = Unread
      BY <2>3 DEF StartCalls
    <3>2. call' \in [Calls -> CallStates] /\ (call'["B"] = "none" <=> ~jd)
      BY <2>3 DEF StartCalls, Calls, CallStates, Waiting
    <3> QED
      BY <2>3, <3>1, <3>2
  <2>4. ASSUME NEW c \in Calls, Reply(c) \/ ReplyInvalid(c) \/ ReplyRaises(c), UNCHANGED jd
        PROVE  ResultsInv'
    <3>1. call[c] \in Waiting /\ layer3 = Unread /\ layer3' = Unread
      BY <2>4 DEF Reply, ReplyInvalid, ReplyRaises, Answered
    <3>2. PICK s \in CallStates \ {"none"} : call' = [call EXCEPT ![c] = s]
      BY <2>4, Zenon DEF Reply, ReplyInvalid, ReplyRaises, CallStates, Waiting
    <3>3. call # Unmade
      BY <3>1 DEF Unmade, Waiting
    <3> QED
      BY <2>4, <3>1, <3>2, <3>3 DEF Calls, Waiting
  <2>5. CASE Merge(jd) /\ UNCHANGED jd
    <3>1. call # Unmade /\ Answered /\ UNCHANGED call
      BY <2>5 DEF Merge
    <3>2. Answered' /\ call' # Unmade
      BY <3>1 DEF Answered
    <3>3. layer3'.a = [of |-> "A", failed |-> call["A"] # "json"]
      BY <2>5 DEF Merge, Results, Tasks, IndexOf
    <3>4. layer3'.b = IF jd THEN [of |-> "B", failed |-> call["B"] # "json"] ELSE Blank
      BY <2>5 DEF Merge, Results, Tasks, IndexOf
    <3>5. layer3'.c = [of |-> "C", failed |-> call["C"] # "json"]
      BY <2>5 DEF Merge, Results, Tasks, IndexOf
    <3> QED
      BY <2>5, <3>1, <3>2, <3>3, <3>4, <3>5
  <2> QED
    BY <2>1, <2>2, <2>3, <2>4, <2>5
       DEF Next, Progress, vars, Start, Clone, StepRaises, Raise, Leave, Analyze, RunTool,
           RunLayer3, ReviewStep, ShowReview, RunLayer4, ShowSuggestion, Close, reviewVars
<1> QED
  BY <1>1, <1>2, PTL DEF Spec

\* A result never stands for another call, in whatever order the calls end.
THEOREM ResultsStay == Spec => []ResultsAreTheirs
<1>1. ResultsInv => ResultsAreTheirs
  BY DEF ResultsInv
<1> QED
  BY <1>1, ResultsHold, PTL

-----------------------------------------------------------------------------
(***************************************************************************)
(* Citations.                                                              *)
(***************************************************************************)
\* A suggestion cites sources that were fetched and no others.
THEOREM CitationsStay == Spec => []CitesOnlySources
<1> USE DEF CitesOnlySources
<1>1. Init => CitesOnlySources
  BY DEF Init, SuggestInit
<1>2. CitesOnlySources /\ [Next]_vars => CitesOnlySources'
  <2> SUFFICES ASSUME CitesOnlySources, [Next]_vars PROVE CitesOnlySources'
    OBVIOUS
  <2>1. \A failed, cited :
           LET s == Suggested(failed, cited)
           IN /\ s.sources = sources
              /\ \A cite \in s.inspired : cite.ids # {} /\ cite.ids \subseteq DOMAIN sources
    BY DEF Suggested, Inspired
  <2>2. CASE UNCHANGED suggestVars
    BY <2>2 DEF suggestVars
  <2>3. CASE place' # "returned"
    BY <2>3
  <2>4. CASE Ask
    BY <2>1, <2>4 DEF Ask
  <2>5. CASE AskInvalid
    BY <2>1, <2>5 DEF AskInvalid
  <2>6. CASE UNCHANGED <<place, sources, suggestion>>
    BY <2>6
  <2> QED
    BY <2>2, <2>3, <2>4, <2>5, <2>6
       DEF Next, Progress, vars, Start, Clone, StepRaises, Analyze, RunLayer3, ShowReview,
           RunLayer4, ShowSuggestion, Close, Forget, StartSuggest, SuggestStep, Unconfigured,
           Derive, DeriveInvalid, DeriveRaises, Search, SearchFails, Rank, AskRaises
<1> QED
  BY <1>1, <1>2, PTL DEF Spec

-----------------------------------------------------------------------------
(***************************************************************************)
(* Sorting: the positions that a sort gives.                               *)
(***************************************************************************)
\* pos lists P, and each element after those that are before it.
Lists(pos, P, B) ==
    /\ pos \in [1..Cardinality(P) -> P]
    /\ \A m, n \in 1..Cardinality(P) : m < n <=> pos[m] \in B[pos[n]]
    /\ \A i \in P : \E n \in 1..Cardinality(P) : pos[n] = i

LEMMA ByRank ==
    ASSUME NEW P, IsFiniteSet(P), NEW B, Orders(B, P),
           NEW pos \in [1..Cardinality(P) -> P],
           \A n \in 1..Cardinality(P) : Cardinality(B[pos[n]]) = n - 1
    PROVE  Lists(pos, P, B)
<1>1. Cardinality(P) \in Nat
  BY FS_CardinalityType
<1>2. ASSUME NEW m \in 1..Cardinality(P), NEW n \in 1..Cardinality(P)
      PROVE  m < n <=> pos[m] \in B[pos[n]]
  <2>1. pos[m] \in P /\ pos[n] \in P
    OBVIOUS
  <2>2. Cardinality(B[pos[m]]) < Cardinality(B[pos[n]]) <=> pos[m] \in B[pos[n]]
    BY <2>1, RankOrders
  <2> QED
    BY <1>1, <2>2
<1>3. ASSUME NEW i \in P PROVE \E n \in 1..Cardinality(P) : pos[n] = i
  <2>1. Cardinality(B[i]) \in 0..Cardinality(P) - 1
    BY RankOrders
  <2> DEFINE n == Cardinality(B[i]) + 1
  <2>2. n \in 1..Cardinality(P) /\ n - 1 = Cardinality(B[i])
    BY <1>1, <2>1
  <2>3. Cardinality(B[pos[n]]) = Cardinality(B[i]) /\ pos[n] \in P
    BY <2>2
  <2>4. pos[n] = i
    BY <2>3, RankOrders
  <2> QED
    BY <2>2, <2>4
<1> QED
  BY <1>2, <1>3 DEF Lists

-----------------------------------------------------------------------------
(***************************************************************************)
(* What FirstSeen and Ranked return, by the positions they take.           *)
(***************************************************************************)
Firsts(hits) == {i \in DOMAIN hits : \A j \in 1..i - 1 : hits[j].url # hits[i].url}

Earlier(P) == [i \in P |-> {j \in P : j < i}]

LEMMA EarlierOrders ==
    ASSUME NEW P \in SUBSET Nat
    PROVE  Orders(Earlier(P), P)
<1>1. Earlier(P) \in [P -> SUBSET P]
  BY DEF Earlier
<1>2. \A i, j \in P : j \in Earlier(P)[i] <=> j < i
  BY DEF Earlier
<1>3. ASSUME NEW i \in P, NEW j \in P, j \in Earlier(P)[i]
      PROVE  Earlier(P)[j] \subseteq Earlier(P)[i]
  <2>1. \A k \in Earlier(P)[j] : k \in P /\ k < j /\ j < i
    BY <1>2, <1>3 DEF Earlier
  <2>2. \A k \in Earlier(P)[j] : k < i
    BY <2>1
  <2> QED
    BY <1>2, <2>1, <2>2
<1>4. \A i \in P : i \in Nat
  OBVIOUS
<1>5. \A i, j \in P : ~(i < i) /\ (i = j \/ i < j \/ j < i)
  BY <1>4
<1> QED
  BY <1>1, <1>2, <1>3, <1>5, Zenon DEF Orders

\* The positions that sort() puts before i.
Better(hits) == [i \in Relevant(hits) |-> {j \in Relevant(hits) : Ahead(hits, j, i)}]

LEMMA BetterOrders ==
    ASSUME NEW hits \in Seq(Hits)
    PROVE  Orders(Better(hits), Relevant(hits))
<1>1. \A i \in Relevant(hits) : i \in Nat /\ Relevance(hits[i]) \in Nat
  <2>1. \A i \in DOMAIN hits : i \in Nat /\ hits[i] \in Hits
    OBVIOUS
  <2> QED
    BY <2>1, SuggestBounds DEF Relevant, Relevance, Hits
<1> HIDE DEF Relevance
<1> QED
  BY <1>1 DEF Orders, Better, Ahead

LEMMA PositionsOf ==
    ASSUME NEW hits \in Seq(Hits)
    PROVE  /\ DOMAIN hits = 1..Len(hits) /\ Len(hits) \in Nat
           /\ \A i \in DOMAIN hits : hits[i] \in Hits
           /\ \A P \in SUBSET DOMAIN hits : IsFiniteSet(P) /\ Cardinality(P) \in Nat
<1>1. DOMAIN hits = 1..Len(hits) /\ Len(hits) \in Nat /\ \A i \in DOMAIN hits : hits[i] \in Hits
  OBVIOUS
<1>2. IsFiniteSet(1..Len(hits))
  BY <1>1, FS_Interval
<1>3. ASSUME NEW P \in SUBSET DOMAIN hits PROVE IsFiniteSet(P) /\ Cardinality(P) \in Nat
  BY <1>1, <1>2, FS_Subset, FS_CardinalityType
<1> QED
  BY <1>1, <1>3

LEMMA FirstSeenLists ==
    ASSUME NEW hits \in Seq(Hits)
    PROVE  \E pos :
              /\ Lists(pos, Firsts(hits), Earlier(Firsts(hits)))
              /\ FirstSeen(hits) \in Seq(Hits)
              /\ Len(FirstSeen(hits)) = Cardinality(Firsts(hits))
              /\ \A n \in 1..Len(FirstSeen(hits)) : FirstSeen(hits)[n] = hits[pos[n]]
<1> DEFINE P == Firsts(hits)
           B == Earlier(P)
           N == Cardinality(P)
           pos == [n \in 1..N |->
                     CHOOSE i \in P : Cardinality({j \in P : j < i}) = n - 1]
<1>1. P \subseteq DOMAIN hits /\ P \subseteq Nat /\ IsFiniteSet(P) /\ N \in Nat
  BY PositionsOf DEF Firsts
<1>2. Orders(B, P)
  BY <1>1, EarlierOrders
<1>3. ASSUME NEW n \in 1..N
      PROVE  pos[n] \in P /\ Cardinality(B[pos[n]]) = n - 1
  <2>1. \E i \in P : Cardinality(B[i]) = n - 1
    BY <1>1, <1>2, RankTaken
  <2>2. \A i \in P : B[i] = {j \in P : j < i}
    BY DEF Earlier
  <2>3. \E i \in P : Cardinality({j \in P : j < i}) = n - 1
    BY <2>1, <2>2
  <2> HIDE DEF P, B
  <2>4. pos[n] = CHOOSE i \in P : Cardinality({j \in P : j < i}) = n - 1
    OBVIOUS
  <2> HIDE DEF pos
  <2>5. pos[n] \in P /\ Cardinality({j \in P : j < pos[n]}) = n - 1
    BY <2>3, <2>4
  <2> QED
    BY <2>2, <2>5
<1>4. FirstSeen(hits) = [n \in 1..N |-> hits[pos[n]]]
  BY DEF FirstSeen, Listed, Firsts
<1> HIDE DEF P, B, pos
<1>5. Lists(pos, P, B)
  <2>1. pos \in [1..N -> P]
    BY <1>3 DEF pos
  <2>2. \A n \in 1..N : Cardinality(B[pos[n]]) = n - 1
    BY <1>3
  <2> QED
    BY <1>1, <1>2, <2>1, <2>2, ByRank
<1>6. \A n \in 1..N : hits[pos[n]] \in Hits
  BY <1>1, <1>3, PositionsOf
<1>7. FirstSeen(hits) \in Seq(Hits) /\ Len(FirstSeen(hits)) = N
  BY <1>1, <1>4, <1>6
<1> QED
  BY <1>4, <1>5, <1>7 DEF P, B

LEMMA RankedLists ==
    ASSUME NEW hits \in Seq(Hits)
    PROVE  \E pos :
              /\ Lists(pos, Relevant(hits), Better(hits))
              /\ Ranked(hits) \in Seq(Hits)
              /\ Len(Ranked(hits)) = IF Cardinality(Relevant(hits)) < MaxSources
                                     THEN Cardinality(Relevant(hits)) ELSE MaxSources
              /\ \A n \in 1..Len(Ranked(hits)) : Ranked(hits)[n] = hits[pos[n]]
<1> DEFINE P == Relevant(hits)
           B == Better(hits)
           pos == [n \in 1..Cardinality(P) |->
                     CHOOSE i \in P : Cardinality({j \in P : Ahead(hits, j, i)}) = n - 1]
           sorted == [n \in 1..Cardinality(P) |-> hits[pos[n]]]
           N == Cardinality(P)
           M == IF N < MaxSources THEN N ELSE MaxSources
<1>1. P \subseteq DOMAIN hits /\ IsFiniteSet(P) /\ N \in Nat
  BY PositionsOf DEF Relevant
<1>2. Orders(B, P)
  BY BetterOrders
<1>3. ASSUME NEW n \in 1..N
      PROVE  pos[n] \in P /\ Cardinality(B[pos[n]]) = n - 1
  <2>1. \E i \in P : Cardinality(B[i]) = n - 1
    BY <1>1, <1>2, RankTaken
  <2>2. \A i \in P : B[i] = {j \in P : Ahead(hits, j, i)}
    BY DEF Better
  <2>3. \E i \in P : Cardinality({j \in P : Ahead(hits, j, i)}) = n - 1
    BY <2>1, <2>2
  <2> HIDE DEF P, B
  <2>4. pos[n] = CHOOSE i \in P : Cardinality({j \in P : Ahead(hits, j, i)}) = n - 1
    OBVIOUS
  <2> HIDE DEF pos
  <2>5. pos[n] \in P /\ Cardinality({j \in P : Ahead(hits, j, pos[n])}) = n - 1
    BY <2>3, <2>4
  <2> QED
    BY <2>2, <2>5
<1>4. Ranked(hits) = SubSeq(sorted, 1, IF Len(sorted) < MaxSources THEN Len(sorted) ELSE MaxSources)
  <2> DEFINE listed == [n \in 1..N |->
                 hits[CHOOSE i \in P : Cardinality({j \in P : Ahead(hits, j, i)}) = n - 1]]
  <2>1. sorted = listed
    OBVIOUS
  <2>2. Ranked(hits) = SubSeq(listed, 1, IF Len(listed) < MaxSources THEN Len(listed) ELSE MaxSources)
    BY DEF Ranked, Listed
  <2> HIDE DEF sorted, listed
  <2> QED
    BY <2>1, <2>2
<1> HIDE DEF P, B, pos
<1>5. Lists(pos, P, B)
  <2>1. pos \in [1..N -> P]
    BY <1>3 DEF pos
  <2>2. \A n \in 1..N : Cardinality(B[pos[n]]) = n - 1
    BY <1>3
  <2> QED
    BY <1>1, <1>2, <2>1, <2>2, ByRank
<1>6. sorted \in Seq(Hits) /\ Len(sorted) = N /\ \A n \in 1..N : sorted[n] = hits[pos[n]]
  <2>1. \A n \in 1..N : hits[pos[n]] \in Hits
    BY <1>1, <1>3, PositionsOf
  <2> QED
    BY <1>1, <2>1
<1> HIDE DEF sorted
<1>7. M \in Nat /\ M <= N
  BY <1>1, SuggestBounds
<1>8. Ranked(hits) = SubSeq(sorted, 1, M)
  BY <1>4, <1>6
<1> HIDE DEF M
<1>9. /\ Ranked(hits) \in Seq(Hits) /\ Len(Ranked(hits)) = M
      /\ \A n \in 1..M : Ranked(hits)[n] = sorted[n]
  <2>1. \A i \in 1..M : sorted[i] \in Hits
    BY <1>1, <1>6, <1>7, ElementOfSeq
  <2>2. /\ SubSeq(sorted, 1, M) \in Seq(Hits)
        /\ Len(SubSeq(sorted, 1, M)) = IF 1 <= M THEN M - 1 + 1 ELSE 0
        /\ \A i \in 1..M - 1 + 1 : SubSeq(sorted, 1, M)[i] = sorted[1 + i - 1]
    BY <1>7, <2>1, SubSeqProperties
  <2> QED
    BY <1>7, <1>8, <2>2
<1>10. \A n \in 1..M : Ranked(hits)[n] = hits[pos[n]]
  BY <1>1, <1>6, <1>7, <1>9
<1> QED
  BY <1>5, <1>9, <1>10 DEF P, B, M

-----------------------------------------------------------------------------
(***************************************************************************)
(* The candidates c are the hits of r that stand for their URLs, in the    *)
(* order in which they came; at says where each of them is.                *)
(***************************************************************************)
StandsIn(r, i) == \A j \in 1..i - 1 : r[j].url # r[i].url

Represents(at, c, r) ==
    /\ at \in [DOMAIN c -> DOMAIN r]
    /\ \A m, n \in DOMAIN c : m < n => at[m] < at[n]
    /\ \A n \in DOMAIN c : c[n] = r[at[n]] /\ StandsIn(r, at[n])
    /\ \A i \in DOMAIN r : StandsIn(r, i) => \E n \in DOMAIN c : at[n] = i

\* Some candidate has the URL of each hit.
LEMMA EachUrl ==
    ASSUME NEW c \in Seq(Hits), NEW r \in Seq(Hits), NEW at, Represents(at, c, r),
           NEW i \in DOMAIN r
    PROVE  \E n \in DOMAIN c : c[n].url = r[i].url
<1> DEFINE same == {j \in DOMAIN r : r[j].url = r[i].url}
<1>1. same \subseteq Nat /\ i \in same
  BY PositionsOf
<1>2. PICK s \in same : \A t \in same : s <= t
  BY <1>1, LeastNatural
<1>3. \A j \in 1..s - 1 : j \in DOMAIN r /\ j \notin same
  BY <1>1, <1>2, PositionsOf
<1>4. StandsIn(r, s) /\ s \in DOMAIN r
  BY <1>3 DEF StandsIn
<1> QED
  BY <1>4 DEF Represents

\* It stays so when hits are added and their duplicates removed.
LEMMA MoreHits ==
    ASSUME NEW c \in Seq(Hits), NEW r \in Seq(Hits), NEW hits \in Seq(Hits),
           NEW at, Represents(at, c, r)
    PROVE  \E more : Represents(more, FirstSeen(c \o hits), r \o hits)
<1> DEFINE c2 == c \o hits
           r2 == r \o hits
           K == Len(c)
           R == Len(r)
           H == Len(hits)
           shift == [n \in 1..K + H |-> IF n <= K THEN at[n] ELSE R + (n - K)]
<1>1. /\ K \in Nat /\ R \in Nat /\ H \in Nat
      /\ DOMAIN c = 1..K /\ DOMAIN r = 1..R
  BY PositionsOf
<1>2. /\ c2 \in Seq(Hits) /\ r2 \in Seq(Hits)
      /\ DOMAIN c2 = 1..K + H /\ DOMAIN r2 = 1..R + H
  <2>1. c2 \in Seq(Hits) /\ Len(c2) = K + H /\ r2 \in Seq(Hits) /\ Len(r2) = R + H
    BY ConcatProperties
  <2> QED
    BY <2>1, PositionsOf
<1>3. /\ \A n \in 1..K : c2[n] = c[n]
      /\ \A n \in 1..R : r2[n] = r[n]
      /\ \A n \in K + 1..K + H : c2[n] = hits[n - K]
      /\ \A n \in R + 1..R + H : r2[n] = hits[n - R]
  <2>1. /\ \A i \in 1..K + H : c2[i] = IF i <= K THEN c[i] ELSE hits[i - K]
        /\ \A i \in 1..R + H : r2[i] = IF i <= R THEN r[i] ELSE hits[i - R]
    BY ConcatProperties
  <2> QED
    BY <1>1, <2>1
<1>4. \A n \in 1..K : at[n] \in 1..R /\ c[n] = r[at[n]] /\ StandsIn(r, at[n])
  BY <1>1 DEF Represents
<1> HIDE DEF c2, r2, K, R, H
<1>5. shift \in [1..K + H -> 1..R + H]
  BY <1>1, <1>4
<1>6. ASSUME NEW m \in 1..K + H, NEW n \in 1..K + H, m < n PROVE shift[m] < shift[n]
  <2>1. CASE n <= K
    BY <1>1, <1>6, <2>1 DEF Represents
  <2>2. CASE ~(n <= K)
    BY <1>1, <1>4, <1>6, <2>2
  <2> QED
    BY <2>1, <2>2
<1>7. ASSUME NEW n \in 1..K + H PROVE c2[n] = r2[shift[n]]
  <2>1. CASE n <= K
    BY <1>1, <1>3, <1>4, <2>1
  <2>2. CASE ~(n <= K)
    <3>1. n \in K + 1..K + H /\ shift[n] = R + (n - K) /\ R + (n - K) \in R + 1..R + H
      BY <1>1, <2>2
    <3>2. r2[R + (n - K)] = hits[R + (n - K) - R] /\ R + (n - K) - R = n - K
      BY <1>1, <1>3, <3>1
    <3> QED
      BY <1>3, <3>1, <3>2
  <2> QED
    BY <2>1, <2>2
<1> HIDE DEF shift
<1>8. ASSUME NEW n \in 1..K + H, StandsIn(r2, shift[n]) PROVE n \in Firsts(c2)
  <2> SUFFICES ASSUME NEW j \in 1..n - 1 PROVE c2[j].url # c2[n].url
    BY <1>2 DEF Firsts
  <2>1. j \in 1..K + H /\ j < n
    BY <1>1
  <2>2. shift[j] \in 1..shift[n] - 1
    BY <1>1, <1>5, <1>6, <2>1
  <2> QED
    BY <1>7, <1>8, <2>1, <2>2 DEF StandsIn
<1>9. ASSUME NEW n \in 1..K + H, n \in Firsts(c2), NEW j \in 1..shift[n] - 1
      PROVE  r2[j].url # r2[shift[n]].url
  <2>1. j \in 1..R + H /\ j < shift[n]
    BY <1>1, <1>5
  <2>2. ASSUME NEW m \in 1..K + H, m < n PROVE c2[m].url # c2[n].url
    BY <1>1, <1>9, <2>2 DEF Firsts
  <2>3. CASE n <= K
    <3>1. shift[n] = at[n]
      BY <2>3 DEF shift
    <3>2. n \in 1..K /\ j \in 1..at[n] - 1 /\ j \in 1..R /\ at[n] \in 1..R
      BY <1>1, <1>4, <2>1, <2>3, <3>1
    <3>3. r[j].url # r[at[n]].url
      BY <1>4, <3>2 DEF StandsIn
    <3> QED
      BY <1>3, <3>1, <3>2, <3>3
  <2>4. CASE ~(n <= K) /\ j <= R
    <3>1. j \in 1..R /\ j \in DOMAIN r
      BY <1>1, <2>1, <2>4
    <3>2. PICK m \in DOMAIN c : c[m].url = r[j].url
      BY <3>1, EachUrl
    <3>3. m \in 1..K /\ m \in 1..K + H /\ m < n
      BY <1>1, <2>4
    <3> QED
      BY <1>3, <1>7, <2>2, <3>1, <3>2, <3>3
  <2>5. CASE ~(n <= K) /\ ~(j <= R)
    <3> DEFINE m == K + (j - R)
    <3>1. shift[n] = R + (n - K)
      BY <2>5 DEF shift
    <3>2. m \in 1..K + H /\ m < n /\ ~(m <= K) /\ R + (m - K) = j
      BY <1>1, <2>1, <2>5, <3>1
    <3>3. shift[m] = j
      BY <3>2 DEF shift
    <3> HIDE DEF m
    <3> QED
      BY <1>7, <2>2, <3>2, <3>3
  <2> QED
    BY <2>3, <2>4, <2>5
<1>10. ASSUME NEW i \in 1..R + H, StandsIn(r2, i) PROVE \E n \in 1..K + H : shift[n] = i
  <2>1. CASE i <= R
    <3>1. i \in 1..R
      BY <1>1, <2>1
    <3>2. StandsIn(r, i)
      <4> SUFFICES ASSUME NEW j \in 1..i - 1 PROVE r[j].url # r[i].url
        BY DEF StandsIn
      <4>1. j \in 1..R
        BY <1>1, <3>1
      <4> QED
        BY <1>3, <1>10, <3>1, <4>1 DEF StandsIn
    <3>3. PICK n \in 1..K : at[n] = i
      BY <1>1, <3>1, <3>2 DEF Represents
    <3>4. n \in 1..K + H /\ n <= K
      BY <1>1
    <3> QED
      BY <3>3, <3>4 DEF shift
  <2>2. CASE ~(i <= R)
    <3> DEFINE n == K + (i - R)
    <3>1. n \in 1..K + H /\ ~(n <= K) /\ R + (n - K) = i
      BY <1>1, <2>2
    <3> QED
      BY <3>1 DEF shift
  <2> QED
    BY <2>1, <2>2
<1>11. PICK pos :
          /\ Lists(pos, Firsts(c2), Earlier(Firsts(c2)))
          /\ FirstSeen(c2) \in Seq(Hits)
          /\ Len(FirstSeen(c2)) = Cardinality(Firsts(c2))
          /\ \A n \in 1..Len(FirstSeen(c2)) : FirstSeen(c2)[n] = c2[pos[n]]
  BY <1>2, FirstSeenLists
<1> DEFINE N == Cardinality(Firsts(c2))
           more == [n \in 1..N |-> shift[pos[n]]]
<1>12. /\ DOMAIN FirstSeen(c2) = 1..N /\ N \in Nat
       /\ \A n \in 1..N : pos[n] \in Firsts(c2) /\ pos[n] \in 1..K + H
  BY <1>2, <1>11, PositionsOf DEF Lists, Firsts
<1> HIDE DEF N
<1>13. more \in [1..N -> 1..R + H]
  BY <1>5, <1>12
<1>14. ASSUME NEW m \in 1..N, NEW n \in 1..N, m < n PROVE more[m] < more[n]
  <2>1. pos[m] < pos[n]
    <3>1. pos[m] \in Earlier(Firsts(c2))[pos[n]]
      BY <1>11, <1>14 DEF Lists, N
    <3> QED
      BY <1>12, <3>1 DEF Earlier
  <2> QED
    BY <1>6, <1>12, <2>1
<1>15. ASSUME NEW n \in 1..N PROVE FirstSeen(c2)[n] = r2[more[n]] /\ StandsIn(r2, more[n])
  <2>1. FirstSeen(c2)[n] = c2[pos[n]]
    BY <1>11 DEF N
  <2>2. StandsIn(r2, shift[pos[n]])
    BY <1>9, <1>12 DEF StandsIn
  <2> QED
    BY <1>7, <1>12, <2>1, <2>2
<1>16. ASSUME NEW i \in 1..R + H, StandsIn(r2, i) PROVE \E n \in 1..N : more[n] = i
  <2>1. PICK k \in 1..K + H : shift[k] = i
    BY <1>10, <1>16
  <2>2. k \in Firsts(c2)
    BY <1>8, <1>16, <2>1
  <2>3. PICK n \in 1..N : pos[n] = k
    BY <1>11, <2>2 DEF Lists, N
  <2> QED
    BY <2>1, <2>3
<1> HIDE DEF more
<1>17. Represents(more, FirstSeen(c2), r2)
  BY <1>2, <1>12, <1>13, <1>14, <1>15, <1>16 DEF Represents
<1> QED
  BY <1>17 DEF c2, r2

-----------------------------------------------------------------------------
(***************************************************************************)
(* The best of the hits r.                                                 *)
(***************************************************************************)
Best(s, r) ==
    \E at \in [DOMAIN s -> DOMAIN r] :
        /\ \A n \in DOMAIN s :
              /\ s[n] = r[at[n]] /\ StandsIn(r, at[n])
              /\ at[n] \in Relevant(r)
              /\ n > 1 => Ahead(r, at[n - 1], at[n])
        /\ \A i \in DOMAIN r :
              StandsIn(r, i) /\ i \in Relevant(r) =>
                  \/ \E n \in DOMAIN s : at[n] = i
                  \/ /\ Len(s) = MaxSources
                     /\ \A n \in DOMAIN s : Ahead(r, at[n], i)

LEMMA RankedIsBest ==
    ASSUME NEW c \in Seq(Hits), NEW r \in Seq(Hits), NEW at, Represents(at, c, r)
    PROVE  Best(Ranked(c), r)
<1> DEFINE P == Relevant(c)
           N == Cardinality(P)
           s == Ranked(c)
           M == Len(s)
<1>1. PICK pos :
        /\ Lists(pos, P, Better(c))
        /\ s \in Seq(Hits)
        /\ M = IF N < MaxSources THEN N ELSE MaxSources
        /\ \A n \in 1..M : s[n] = c[pos[n]]
  BY RankedLists
<1>2. /\ N \in Nat /\ M \in Nat /\ M <= N /\ DOMAIN s = 1..M
      /\ M < N => M = MaxSources
      /\ DOMAIN c \subseteq Nat /\ DOMAIN r \subseteq Nat /\ P \subseteq DOMAIN c
  <2>1. P \subseteq DOMAIN c
    BY DEF Relevant
  <2>2. N \in Nat /\ DOMAIN c \subseteq Nat /\ DOMAIN r \subseteq Nat /\ M \in Nat /\ DOMAIN s = 1..M
    BY <1>1, <2>1, PositionsOf
  <2> HIDE DEF N, s, P
  <2> QED
    BY <1>1, <2>1, <2>2, SuggestBounds
<1>3. \A n \in 1..N : pos[n] \in P
  BY <1>1 DEF Lists
<1>4. ASSUME NEW i \in DOMAIN c PROVE Relevance(c[i]) = Relevance(r[at[i]]) /\ at[i] \in DOMAIN r
  BY DEF Represents
<1>5. ASSUME NEW i \in DOMAIN c PROVE i \in P <=> at[i] \in Relevant(r)
  BY <1>4 DEF Relevant
<1>6. ASSUME NEW j \in DOMAIN c, NEW i \in DOMAIN c, Ahead(c, j, i) PROVE Ahead(r, at[j], at[i])
  <2>1. j < i => at[j] < at[i]
    BY DEF Represents
  <2> QED
    BY <1>4, <1>6, <2>1 DEF Ahead
<1>7. ASSUME NEW m \in 1..N, NEW n \in 1..N, m < n PROVE Ahead(r, at[pos[m]], at[pos[n]])
  <2>1. pos[m] \in Better(c)[pos[n]]
    BY <1>1, <1>7 DEF Lists
  <2>2. Ahead(c, pos[m], pos[n])
    BY <1>3, <2>1 DEF Better
  <2> QED
    BY <1>2, <1>3, <1>6, <2>2
<1> DEFINE whence == [n \in DOMAIN s |-> at[pos[n]]]
<1> HIDE DEF P, N, s, M
<1>8. \A n \in DOMAIN s : /\ n \in 1..N /\ n \in 1..M /\ pos[n] \in DOMAIN c
                          /\ whence[n] = at[pos[n]] /\ whence[n] \in DOMAIN r
  BY <1>2, <1>3, <1>4
<1>9. whence \in [DOMAIN s -> DOMAIN r]
  BY <1>8
<1> HIDE DEF whence
<1>10. ASSUME NEW n \in DOMAIN s
       PROVE  /\ s[n] = r[whence[n]] /\ StandsIn(r, whence[n])
              /\ whence[n] \in Relevant(r)
              /\ n > 1 => Ahead(r, whence[n - 1], whence[n])
  <2>1. s[n] = c[pos[n]] /\ c[pos[n]] = r[at[pos[n]]] /\ StandsIn(r, at[pos[n]])
    BY <1>1, <1>8 DEF Represents
  <2>2. at[pos[n]] \in Relevant(r)
    BY <1>3, <1>5, <1>8
  <2>3. ASSUME n > 1 PROVE Ahead(r, whence[n - 1], whence[n])
    <3>1. n - 1 \in DOMAIN s /\ n - 1 < n
      BY <1>2, <2>3
    <3> QED
      BY <1>7, <1>8, <3>1
  <2> QED
    BY <1>8, <2>1, <2>2, <2>3
<1>11. ASSUME NEW i \in DOMAIN r, StandsIn(r, i), i \in Relevant(r),
              ~\E n \in DOMAIN s : whence[n] = i
       PROVE  M = MaxSources /\ \A n \in DOMAIN s : Ahead(r, whence[n], i)
  <2>1. PICK k \in DOMAIN c : at[k] = i
    BY <1>11 DEF Represents
  <2>2. k \in P
    BY <1>5, <1>11, <2>1
  <2>3. PICK m \in 1..N : pos[m] = k
    BY <1>1, <2>2 DEF Lists, N
  <2>4. m \notin DOMAIN s
    BY <1>8, <1>11, <2>1, <2>3
  <2>5. M < m /\ M < N
    BY <1>2, <2>4
  <2>6. \A n \in DOMAIN s : n < m
    BY <1>2, <2>5
  <2> QED
    BY <1>2, <1>7, <1>8, <2>1, <2>3, <2>5, <2>6
<1>12. Best(s, r)
  BY <1>9, <1>10, <1>11 DEF Best, M
<1> QED
  BY <1>12 DEF s

-----------------------------------------------------------------------------
(***************************************************************************)
(* Layer 4, step by step.                                                  *)
(***************************************************************************)
SourcesInv ==
    /\ SuggestTypeOK
    /\ place \in {"off", "derive", "rederive"} =>
         candidates = <<>> /\ returned = <<>> /\ sources = <<>>
    /\ \E at : Represents(at, candidates, returned)
    /\ place \in {"ask", "reask", "returned"} => Best(sources, returned)

LEMMA NothingFound == Represents(<<>>, <<>>, <<>>)
<1>1. DOMAIN <<>> = {} /\ <<>> \in [{} -> {}]
  OBVIOUS
<1> QED
  BY <1>1 DEF Represents

\* A step that finds nothing and ranks nothing.
LEMMA NothingRanked ==
    ASSUME SourcesInv, SuggestTypeOK', UNCHANGED <<candidates, returned, sources>>,
           place' \in {"off", "derive", "rederive"} => place \in {"off", "derive", "rederive"},
           place' \in {"ask", "reask", "returned"} =>
               /\ place \in {"off", "derive", "rederive", "ask", "reask", "returned"}
               /\ place \in {"ask", "reask", "returned"} => terms' = terms
    PROVE  SourcesInv'
<1>1. CASE place' \in {"ask", "reask", "returned"} /\ place \in {"ask", "reask", "returned"}
  <2>1. terms' = terms
    BY <1>1
  <2> QED
    BY <1>1, <2>1 DEF SourcesInv, Best, StandsIn, Relevant, Relevance, Ahead, Represents
<1>2. CASE place' \in {"ask", "reask", "returned"} /\ place \in {"off", "derive", "rederive"}
  <2>1. sources' = <<>> /\ returned' = <<>>
    BY <1>2 DEF SourcesInv
  <2>2. Best(sources, returned)'
    <3>1. DOMAIN <<>> = {} /\ <<>> \in [{} -> {}]
      OBVIOUS
    <3> QED
      BY <2>1, <3>1 DEF Best
  <2> QED
    BY <1>2, <2>2 DEF SourcesInv, Represents, StandsIn
<1>3. CASE place' \notin {"ask", "reask", "returned"}
  BY <1>3 DEF SourcesInv, Represents, StandsIn
<1> QED
  BY <1>1, <1>2, <1>3

LEMMA SuggestKeeps == SourcesInv /\ SuggestStep => SourcesInv'
<1> SUFFICES ASSUME SourcesInv, SuggestStep PROVE SourcesInv'
  OBVIOUS
<1> USE DEF SuggestTypeOK, Places
<1>1. SuggestTypeOK
  BY DEF SourcesInv
<1>2. CASE Unconfigured
  BY <1>1, <1>2, NothingRanked DEF Unconfigured
<1>3. CASE Derive
  <2>1. PICK q \in 0..MaxQueries, subs \in 0..MaxSubs :
            left' = q * ((IF subs = 0 THEN 1 ELSE subs) + 1)
    BY <1>3 DEF Derive
  <2>2. q \in Nat /\ subs \in Nat
    BY SuggestBounds
  <2>3. left' \in Nat
    <3> DEFINE each == (IF subs = 0 THEN 1 ELSE subs) + 1
    <3>1. each \in Nat
      BY <2>2
    <3> HIDE DEF each
    <3>2. \A m, n \in Nat : m * n \in Nat
      BY SMT
    <3>3. left' = q * each
      BY <2>1 DEF each
    <3> QED
      BY <2>2, <3>1, <3>2, <3>3
  <2>4. SuggestTypeOK'
    BY <1>1, <1>3, <2>3 DEF Derive
  <2> QED
    BY <1>1, <1>3, <2>4, NothingRanked DEF Derive
<1>4. CASE DeriveInvalid
  BY <1>1, <1>4, NothingRanked DEF DeriveInvalid
<1>5. CASE DeriveRaises
  BY <1>1, <1>5, NothingRanked DEF DeriveRaises
<1>6. CASE Search
  <2>1. PICK hits \in Seq(Hits) :
            returned' = returned \o hits /\ candidates' = FirstSeen(candidates \o hits)
    BY <1>6, SuggestBounds DEF Search
  <2>2. hits \in Seq(Hits)
    OBVIOUS
  <2>3. \E more : Represents(more, candidates', returned')
    BY <1>1, <2>1, <2>2, MoreHits DEF SourcesInv
  <2>4. candidates' \in Seq(Hits) /\ returned' \in Seq(Hits)
    <3>1. candidates \o hits \in Seq(Hits) /\ returned \o hits \in Seq(Hits)
      BY <1>1, <2>2, ConcatProperties
    <3> QED
      BY <2>1, <3>1, FirstSeenLists
  <2>5. /\ place' = "search" /\ left \in Nat /\ left > 0 /\ left' = left - 1
        /\ UNCHANGED <<terms, sources, suggestion>>
    BY <1>1, <1>6 DEF Search
  <2>6. SuggestTypeOK'
    BY <1>1, <2>4, <2>5
  <2>7. (\E at : Represents(at, candidates, returned))'
    BY <2>3 DEF Represents, StandsIn
  <2> QED
    BY <2>5, <2>6, <2>7 DEF SourcesInv
<1>7. CASE SearchFails
  BY <1>1, <1>7, NothingRanked DEF SearchFails
<1>8. CASE Rank
  <2>1. /\ sources' = Ranked(candidates) /\ place' = "ask"
        /\ UNCHANGED <<left, terms, candidates, returned, suggestion>>
    BY <1>8 DEF Rank
  <2>2. candidates \in Seq(Hits) /\ returned \in Seq(Hits)
    BY <1>1
  <2>3. Best(Ranked(candidates), returned)
    BY <2>2, RankedIsBest DEF SourcesInv
  <2>4. sources' \in Seq(Hits)
    BY <2>1, <2>2, RankedLists
  <2>5. Best(sources, returned)'
    BY <2>1, <2>3 DEF Best, StandsIn, Relevant, Relevance, Ahead
  <2>6. SuggestTypeOK'
    BY <1>1, <2>1, <2>4
  <2>7. (\E at : Represents(at, candidates, returned))'
    <3>1. \E at : Represents(at, candidates, returned)
      BY DEF SourcesInv
    <3> QED
      BY <2>1, <3>1 DEF Represents, StandsIn
  <2> HIDE DEF SuggestTypeOK
  <2> QED
    BY <2>1, <2>5, <2>6, <2>7 DEF SourcesInv
<1>9. CASE Ask
  <2>1. PICK cited \in [Features -> SUBSET Ids] : suggestion' = Suggested(FALSE, cited)
    BY <1>9 DEF Ask
  <2>2. Inspired(cited) \subseteq [feature : Features, ids : SUBSET Ids]
    BY DEF Inspired
  <2>3. SuggestTypeOK'
    BY <1>1, <1>9, <2>1, <2>2 DEF Ask, Suggested
  <2> QED
    BY <1>9, <2>3, NothingRanked DEF Ask
<1>10. CASE AskInvalid
  <2>1. \/ suggestion' = suggestion
        \/ suggestion' = [error |-> TRUE, sources |-> sources, inspired |-> {}]
    <3>1. Inspired([f \in Features |-> {}]) = {}
      BY DEF Inspired
    <3> QED
      BY <1>10, <3>1 DEF AskInvalid, Suggested
  <2>2. place' \in Places /\ UNCHANGED <<left, terms, candidates, returned, sources>>
    BY <1>10 DEF AskInvalid
  <2>3. /\ suggestion'.error \in BOOLEAN /\ suggestion'.sources \in Seq(Hits)
        /\ suggestion'.inspired \subseteq [feature : Features, ids : SUBSET Ids]
    <3>1. CASE suggestion' = suggestion
      BY <1>1, <3>1
    <3>2. CASE suggestion' = [error |-> TRUE, sources |-> sources, inspired |-> {}]
      <4>1. suggestion'.error = TRUE /\ suggestion'.sources = sources /\ suggestion'.inspired = {}
        BY <3>2
      <4> QED
        BY <1>1, <4>1
    <3> QED
      BY <2>1, <3>1, <3>2
  <2>4. SuggestTypeOK'
    BY <1>1, <2>2, <2>3
  <2> QED
    BY <1>10, <2>4, NothingRanked DEF AskInvalid
<1>11. CASE AskRaises
  BY <1>1, <1>11, NothingRanked DEF AskRaises
<1> QED
  BY <1>2, <1>3, <1>4, <1>5, <1>6, <1>7, <1>8, <1>9, <1>10, <1>11 DEF SuggestStep

-----------------------------------------------------------------------------
(***************************************************************************)
(* Layers 0 to 3.                                                          *)
(***************************************************************************)
LEMMA ReviewTypes ==
    ASSUME ReviewTypeOK, jd \in BOOLEAN, RunTool \/ StartCalls(jd) \/ ReviewStep(jd)
    PROVE  ReviewTypeOK'
<1> USE DEF ReviewTypeOK
<1>1. CASE RunTool
  <2>1. \A outcome \in {"skipped", "error", "ok"} :
            /\ Append(status, outcome) \in Seq({"skipped", "error", "ok"})
            /\ Len(Append(status, outcome)) = Len(status) + 1
    OBVIOUS
  <2>2. Len(status) \in Nat /\ Len(Tools) \in Nat /\ Len(status) # Len(Tools)
    BY <1>1, FindingsType DEF RunTool, Analyzed
  <2>3. status' \in Seq({"skipped", "error", "ok"}) /\ Len(status') <= Len(Tools)
    <3>1. PICK outcome \in {"skipped", "error", "ok"} : status' = Append(status, outcome)
      BY <1>1 DEF RunTool
    <3>2. Len(status) + 1 <= Len(Tools)
      BY <2>2
    <3> QED
      BY <2>1, <3>1, <3>2
  <2>4. found' \subseteq Findings
    BY <1>1 DEF RunTool
  <2> QED
    BY <1>1, <2>3, <2>4 DEF RunTool
<1>2. CASE StartCalls(jd)
  BY <1>2 DEF StartCalls, CallStates, Waiting
<1>3. ASSUME NEW c \in Calls, Reply(c) \/ ReplyInvalid(c) \/ ReplyRaises(c) PROVE ReviewTypeOK'
  BY <1>3 DEF Reply, ReplyInvalid, ReplyRaises, CallStates, Waiting
<1>4. CASE Merge(jd)
  <2> DEFINE Result == [of : Calls \cup {"none"}, failed : BOOLEAN]
  <2>1. \A i \in DOMAIN Tasks(jd) : Results(jd)[i] \in Result
    BY DEF Results, Tasks, Calls
  <2>2. /\ IndexOf(jd).a \in DOMAIN Tasks(jd) /\ IndexOf(jd).c \in DOMAIN Tasks(jd)
        /\ jd => IndexOf(jd).b \in DOMAIN Tasks(jd)
    BY DEF IndexOf, Tasks
  <2>3. Blank \in Result
    BY DEF Blank
  <2>4. Explained(answer.claims) \subseteq Findings
    BY SeverityExists DEF Explained
  <2>5. {c.id : c \in answer.claims} \ Known \subseteq FindingIds
    BY DEF Answers, Findings
  <2> QED
    BY <1>4, <2>1, <2>2, <2>3, <2>4, <2>5 DEF Merge
<1> QED
  BY <1>1, <1>2, <1>3, <1>4 DEF ReviewStep

LEMMA Forgotten == ForgetReview => ReviewTypeOK'
<1> SUFFICES ASSUME ForgetReview PROVE ReviewTypeOK'
  OBVIOUS
<1>1. Len(<<>>) = 0 /\ Len(Tools) \in Nat
  BY FindingsType
<1> QED
  BY <1>1 DEF ForgetReview, ReviewTypeOK, Unmade, NoAnswer, Unread, Blank, CallStates, Answers

-----------------------------------------------------------------------------
(***************************************************************************)
(* The whole review.                                                       *)
(***************************************************************************)
LEMMA SuggestForgotten == Forget => SourcesInv'
<1> SUFFICES ASSUME Forget PROVE SourcesInv'
  OBVIOUS
<1>1. candidates' = <<>> /\ returned' = <<>> /\ sources' = <<>> /\ place' = "off"
  BY DEF Forget
<1>2. (\E at : Represents(at, candidates, returned))'
  <2>1. Represents(<<>>, <<>>, <<>>)'
    BY DEF Represents, StandsIn
  <2> QED
    BY <1>1, <2>1
<1>3. SuggestTypeOK'
  <2>1. suggestion' = [error |-> FALSE, sources |-> <<>>, inspired |-> {}]
    BY DEF Forget, Nothing
  <2>2. suggestion'.error = FALSE /\ suggestion'.sources = <<>> /\ suggestion'.inspired = {}
    BY <2>1
  <2>3. <<>> \in Seq(Hits)
    BY EmptySeq
  <2>4. suggestion'.inspired \subseteq [feature : Features, ids : SUBSET Ids]
    BY <2>2
  <2> QED
    BY <2>2, <2>3, <2>4 DEF Forget, SuggestTypeOK, Places
<1> QED
  BY <1>1, <1>2, <1>3 DEF SourcesInv

ReviewInv == TypeOK /\ SourcesInv

LEMMA ReviewStarts == Init => ReviewInv
<1> SUFFICES ASSUME Init PROVE ReviewInv
  OBVIOUS
<1>1. SuggestTypeOK
  <2>1. suggestion = [error |-> FALSE, sources |-> <<>>, inspired |-> {}]
    BY DEF Init, SuggestInit, Nothing
  <2>2. suggestion.error = FALSE /\ suggestion.sources = <<>> /\ suggestion.inspired = {}
    BY <2>1
  <2>3. <<>> \in Seq(Hits)
    BY EmptySeq
  <2>4. suggestion.inspired \subseteq [feature : Features, ids : SUBSET Ids]
    BY <2>2
  <2> QED
    BY <2>2, <2>3, <2>4 DEF Init, SuggestInit, SuggestTypeOK, Places
<1>2. ReviewTypeOK
  <2>1. Len(<<>>) = 0 /\ Len(Tools) \in Nat
    BY FindingsType
  <2> QED
    BY <2>1 DEF Init, ReviewInit, ReviewTypeOK, Unmade, NoAnswer, Unread, Blank, CallStates, Answers
<1>3. SourcesInv
  BY <1>1, NothingFound DEF Init, SuggestInit, SourcesInv
<1> QED
  BY <1>1, <1>2, <1>3, EmptySeq DEF Init, ReviewInv, TypeOK, Stages

LEMMA ReviewNext == ReviewInv /\ [Next]_vars => ReviewInv'
<1> SUFFICES ASSUME ReviewInv, [Next]_vars PROVE ReviewInv'
  OBVIOUS
<1>1. ReviewTypeOK /\ SourcesInv /\ jd \in BOOLEAN /\ page \in Seq(Sections)
  BY DEF ReviewInv, TypeOK
<1>2. UNCHANGED suggestVars => SourcesInv'
  <2> SUFFICES ASSUME UNCHANGED suggestVars PROVE SourcesInv'
    OBVIOUS
  <2>1. SuggestTypeOK'
    BY <1>1 DEF suggestVars, SourcesInv, SuggestTypeOK
  <2> QED
    BY <1>1, <2>1, NothingRanked DEF suggestVars, SourcesInv, SuggestTypeOK, Places
<1>3. UNCHANGED reviewVars => ReviewTypeOK'
  BY <1>1 DEF reviewVars, ReviewTypeOK
<1>4. SourcesInv'
  <2>1. CASE RunLayer4
    <3>1. CASE StartSuggest
      <4>1. SuggestTypeOK'
        BY <1>1, <3>1 DEF StartSuggest, SourcesInv, SuggestTypeOK, Places
      <4> QED
        BY <1>1, <3>1, <4>1, NothingRanked DEF StartSuggest
    <3> QED
      BY <1>1, <2>1, <3>1, SuggestKeeps DEF RunLayer4
  <2>2. CASE ShowSuggestion
    BY <2>2, SuggestForgotten DEF ShowSuggestion
  <2>3. CASE ~RunLayer4 /\ ~ShowSuggestion
    BY <1>2, <2>3 DEF Next, Progress, Start, Clone, StepRaises, Analyze, RunLayer3, ShowReview,
       Close, vars
  <2> QED
    BY <2>1, <2>2, <2>3
<1>5. \A section \in {"layer3", "layer4", "layer4 error", "error"} :
          Append(page, section) \in Seq(Sections)
  <2>1. \A section \in Sections : Append(page, section) \in Seq(Sections)
    BY <1>1, AppendProperties
  <2> QED
    BY <2>1 DEF Sections
<1>6. stage \in Stages /\ tmp \in BOOLEAN
  BY DEF ReviewInv, TypeOK
<1> DEFINE Rest == /\ ReviewTypeOK /\ page \in Seq(Sections)
                   /\ stage \in Stages /\ jd \in BOOLEAN /\ tmp \in BOOLEAN
<1>7. ASSUME Start PROVE Rest'
  <2>1. ReviewTypeOK'
    BY <1>1, <1>7, <1>3 DEF Start
  <2>2. stage' \in Stages /\ jd' = jd /\ tmp' \in BOOLEAN /\ page' \in Seq(Sections)
    BY <1>1, <1>5, <1>6, <1>7 DEF Start, Show, Stages
  <2> QED
    BY <1>1, <2>1, <2>2
<1>8. ASSUME Clone PROVE Rest'
  <2>1. ReviewTypeOK'
    BY <1>1, <1>8, <1>3 DEF Clone
  <2>2. stage' \in Stages /\ jd' = jd /\ tmp' \in BOOLEAN /\ page' \in Seq(Sections)
    BY <1>1, <1>5, <1>6, <1>8 DEF Clone, Show, Stages
  <2> QED
    BY <1>1, <2>1, <2>2
<1>9. ASSUME StepRaises PROVE Rest'
  <2>1. ReviewTypeOK'
    BY <1>1, <1>9, Forgotten DEF StepRaises, Raise, Leave
  <2>2. stage' \in Stages /\ jd' = jd /\ tmp' \in BOOLEAN /\ page' \in Seq(Sections)
    BY <1>1, <1>5, <1>6, <1>9 DEF StepRaises, Raise, Leave, Show, Stages
  <2> QED
    BY <1>1, <2>1, <2>2
<1>10. ASSUME Analyze PROVE Rest'
  <2>1. ReviewTypeOK'
    BY <1>1, <1>10, <1>3, ReviewTypes DEF Analyze
  <2>2. stage' \in Stages /\ jd' = jd /\ tmp' \in BOOLEAN /\ page' \in Seq(Sections)
    BY <1>1, <1>5, <1>6, <1>10 DEF Analyze, Show, Stages
  <2> QED
    BY <1>1, <2>1, <2>2
<1>11. ASSUME RunLayer3 PROVE Rest'
  <2>1. ReviewTypeOK'
    BY <1>1, <1>11, ReviewTypes DEF RunLayer3
  <2>2. stage' \in Stages /\ jd' = jd /\ tmp' \in BOOLEAN /\ page' \in Seq(Sections)
    BY <1>1, <1>5, <1>6, <1>11 DEF RunLayer3, Show, Stages
  <2> QED
    BY <1>1, <2>1, <2>2
<1>12. ASSUME ShowReview PROVE Rest'
  <2>1. ReviewTypeOK'
    BY <1>1, <1>12, Forgotten DEF ShowReview, Leave
  <2>2. stage' \in Stages /\ jd' = jd /\ tmp' \in BOOLEAN /\ page' \in Seq(Sections)
    BY <1>1, <1>5, <1>6, <1>12 DEF ShowReview, Leave, Show, Stages
  <2> QED
    BY <1>1, <2>1, <2>2
<1>13. ASSUME RunLayer4 PROVE Rest'
  <2>1. ReviewTypeOK'
    BY <1>1, <1>13, <1>3 DEF RunLayer4
  <2>2. stage' \in Stages /\ jd' = jd /\ tmp' \in BOOLEAN /\ page' \in Seq(Sections)
    BY <1>1, <1>5, <1>6, <1>13 DEF RunLayer4, Show, Stages
  <2> QED
    BY <1>1, <2>1, <2>2
<1>14. ASSUME ShowSuggestion PROVE Rest'
  <2>1. ReviewTypeOK'
    BY <1>1, <1>14, Forgotten DEF ShowSuggestion, Leave
  <2>2. stage' \in Stages /\ jd' = jd /\ tmp' \in BOOLEAN /\ page' \in Seq(Sections)
    BY <1>1, <1>5, <1>6, <1>14 DEF ShowSuggestion, Leave, Show, Stages
  <2> QED
    BY <1>1, <2>1, <2>2
<1>15. ASSUME Close PROVE Rest'
  <2>1. ReviewTypeOK'
    BY <1>1, <1>15, Forgotten DEF Close, Leave
  <2>2. stage' \in Stages /\ jd' = jd /\ tmp' \in BOOLEAN /\ page' \in Seq(Sections)
    BY <1>1, <1>5, <1>6, <1>15 DEF Close, Leave, Show, Stages
  <2> QED
    BY <1>1, <2>1, <2>2
<1>16. ASSUME UNCHANGED vars PROVE Rest'
  <2>1. ReviewTypeOK'
    BY <1>1, <1>16, <1>3 DEF vars
  <2>2. stage' \in Stages /\ jd' = jd /\ tmp' \in BOOLEAN /\ page' \in Seq(Sections)
    BY <1>1, <1>5, <1>6, <1>16 DEF vars, Show, Stages
  <2> QED
    BY <1>1, <2>1, <2>2
<1>17. Rest'
  BY <1>7, <1>8, <1>9, <1>10, <1>11, <1>12, <1>13, <1>14, <1>15, <1>16 DEF Next, Progress
<1> QED
  BY <1>4, <1>17 DEF ReviewInv, TypeOK, SourcesInv

LEMMA ReviewHolds == Spec => []ReviewInv
BY ReviewStarts, ReviewNext, PTL DEF Spec

\* The type invariant of a review: among the rest, what the sorts return are hits, and
\* what is merged of the model's answer are findings.
THEOREM TypeCorrect == Spec => []TypeOK
<1>1. ReviewInv => TypeOK
  BY DEF ReviewInv
<1> QED
  BY <1>1, ReviewHolds, PTL

\* Whatever searches fail and however their hits overlap, the sources are the best of
\* everything the others returned (research_jd's seen_urls, sort and cut).
THEOREM BestSources == Spec => []SourcesAreBest
<1>1. ReviewInv => SourcesAreBest
  <2> SUFFICES ASSUME ReviewInv, place \in {"ask", "reask", "returned"}, Best(sources, returned)
               PROVE  SourcesAreBest
    BY DEF ReviewInv, SourcesInv, SourcesAreBest
  <2> QED
    BY DEF Best, SourcesAreBest, Stands, StandsIn
<1> QED
  BY <1>1, ReviewHolds, PTL

-----------------------------------------------------------------------------
(***************************************************************************)
(* Why reviews end, apart from fairness: every step leaves fewer.          *)
(***************************************************************************)
\* research_jd makes no more searches than this.
MostSearches == MaxQueries * (MaxSubs + 2)

CallLeft(state) == IF state = "first" THEN 2 ELSE IF state = "second" THEN 1 ELSE 0

Layer3Left ==
    IF layer3 # Unread THEN 0
    ELSE IF call = Unmade THEN 8
    ELSE 1 + CallLeft(call["A"]) + CallLeft(call["B"]) + CallLeft(call["C"])

Layer4Left ==
    CASE place \in {"returned", "raised"} -> 0
      [] place = "reask"    -> 1
      [] place = "ask"      -> 2
      [] place = "search"   -> 3 + left
      [] place = "rederive" -> 4 + MostSearches
      [] place = "derive"   -> 5 + MostSearches
      [] place = "off"      -> 6 + MostSearches

\* No fewer than the steps the review has left.
Remaining ==
    CASE stage = "start"              -> MostSearches + Len(Tools) + 19
      [] stage = "clone"              -> MostSearches + Len(Tools) + 18
      [] stage = "analyze"            -> MostSearches + Len(Tools) + 17 - Len(status)
      [] stage = "layer3"             -> MostSearches + 8 + Layer3Left
      [] stage = "layer4"             -> 1 + Layer4Left
      [] stage \in {"ended", "closed"} -> 0

SearchesBounded ==
    /\ left \in 0..MostSearches
    /\ place \in {"off", "derive", "rederive"} => left = 0

LEMMA MostIs ==
    /\ MostSearches \in Nat
    /\ \A queries \in 0..MaxQueries, subs \in 0..MaxSubs :
           queries * ((IF subs = 0 THEN 1 ELSE subs) + 1) \in 0..MostSearches
<1>1. ASSUME NEW a \in Nat, NEW b \in Nat, NEW q \in 0..a, NEW n \in 0..b
      PROVE  a * b \in Nat /\ q * n \in 0..(a * b)
  <2>1. q * n \in Nat /\ a * b \in Nat
    BY SMT
  <2>2. q * n <= q * b /\ q * b <= a * b
    BY SMTT(30)
  <2>3. q * b \in Nat
    BY SMT
  <2> QED
    BY <2>1, <2>2, <2>3
<1>2. MaxQueries \in Nat /\ MaxSubs + 2 \in Nat
  BY SuggestBounds
<1>3. \A subs \in 0..MaxSubs : (IF subs = 0 THEN 1 ELSE subs) + 1 \in 0..MaxSubs + 2
  BY SuggestBounds
<1>4. ASSUME NEW queries \in 0..MaxQueries, NEW subs \in 0..MaxSubs
      PROVE  queries * ((IF subs = 0 THEN 1 ELSE subs) + 1) \in 0..MostSearches
  <2>1. (IF subs = 0 THEN 1 ELSE subs) + 1 \in 0..MaxSubs + 2
    BY <1>3, Zenon
  <2> QED
    BY <1>1, <1>2, <2>1, Zenon DEF MostSearches
<1>5. 0 \in 0..MaxQueries /\ 0 \in 0..MaxSubs + 2
  BY <1>2
<1>6. MostSearches \in Nat
  BY <1>1, <1>2, <1>5, Zenon DEF MostSearches
<1> QED
  BY <1>4, <1>6, Zenon

LEMMA BoundKept == ReviewInv /\ SearchesBounded /\ [Next]_vars => SearchesBounded'
<1> SUFFICES ASSUME ReviewInv, SearchesBounded, [Next]_vars PROVE SearchesBounded'
  OBVIOUS
<1>1. ASSUME UNCHANGED suggestVars PROVE SearchesBounded'
  BY <1>1 DEF suggestVars, SearchesBounded
<1>2. ASSUME Forget PROVE SearchesBounded'
  BY <1>2, MostIs DEF Forget, SearchesBounded
<1>3. ASSUME StartSuggest \/ Unconfigured \/ DeriveInvalid \/ DeriveRaises \/ Rank \/ Ask \/ AskRaises
      PROVE  SearchesBounded'
  BY <1>3 DEF StartSuggest, Unconfigured, DeriveInvalid, DeriveRaises, Rank, Ask, AskRaises, SearchesBounded
<1>4. ASSUME AskInvalid PROVE SearchesBounded'
  <2>1. place' \in {"reask", "returned"} /\ left' = left
    BY <1>4 DEF AskInvalid
  <2> QED
    BY <2>1 DEF SearchesBounded
<1>5. ASSUME Derive PROVE SearchesBounded'
  BY <1>5, MostIs DEF Derive, SearchesBounded
<1>6. ASSUME Search \/ SearchFails PROVE SearchesBounded'
  <2>1. place' = "search" /\ left > 0 /\ left' = left - 1
    BY <1>6 DEF Search, SearchFails
  <2> QED
    BY <2>1, MostIs DEF SearchesBounded
<1>7. UNCHANGED suggestVars \/ Forget \/ StartSuggest \/ SuggestStep
  BY DEF Next, Progress, vars, Start, Clone, StepRaises, Analyze, RunLayer3, ShowReview, RunLayer4,
         ShowSuggestion, Close
<1> QED
  BY <1>1, <1>2, <1>3, <1>4, <1>5, <1>6, <1>7, Zenon DEF SuggestStep

LEMMA Layer4Counts ==
    ASSUME ReviewInv, SearchesBounded, SearchesBounded', StartSuggest \/ SuggestStep
    PROVE  Layer4Left' < Layer4Left
<1> USE MostIs DEF SearchesBounded, Layer4Left
<1>1. CASE StartSuggest
  BY <1>1 DEF StartSuggest
<1>2. CASE Unconfigured
  BY <1>2 DEF Unconfigured
<1>3. CASE Derive
  BY <1>3 DEF Derive
<1>4. CASE DeriveInvalid
  BY <1>4 DEF DeriveInvalid
<1>5. CASE DeriveRaises
  BY <1>5 DEF DeriveRaises
<1>6. CASE Search \/ SearchFails
  BY <1>6 DEF Search, SearchFails
<1>7. CASE Rank
  BY <1>7 DEF Rank
<1>8. CASE Ask
  BY <1>8 DEF Ask
<1>9. CASE AskInvalid
  <2>1. (place = "ask" /\ place' = "reask") \/ (place = "reask" /\ place' = "returned")
    BY <1>9 DEF AskInvalid
  <2> QED
    BY <2>1
<1>10. CASE AskRaises
  BY <1>10 DEF AskRaises
<1> QED
  BY <1>1, <1>2, <1>3, <1>4, <1>5, <1>6, <1>7, <1>8, <1>9, <1>10 DEF SuggestStep

LEMMA Layer3Counts ==
    ASSUME ReviewInv, ResultsInv, jd \in BOOLEAN, StartCalls(jd) \/ ReviewStep(jd)
    PROVE  Layer3Left' < Layer3Left
<1> USE DEF Layer3Left, CallLeft
<1>1. call \in [Calls -> CallStates] /\ (layer3 # Unread => call # Unmade /\ Answered)
  BY DEF ResultsInv, CallsInv
<1>2. CASE StartCalls(jd)
  <2>1. layer3 = Unread /\ layer3' = Unread /\ call = Unmade
    BY <1>1, <1>2 DEF StartCalls
  <2>2. call'["A"] = "first" /\ call' # Unmade
    BY <1>2 DEF StartCalls, Unmade, Calls
  <2> QED
    BY <2>1, <2>2
<1>3. ASSUME NEW c \in Calls, Reply(c) \/ ReplyInvalid(c) \/ ReplyRaises(c)
      PROVE  Layer3Left' < Layer3Left
  <2>1. call[c] \in Waiting /\ layer3 = Unread /\ layer3' = Unread
    BY <1>1, <1>3 DEF Reply, ReplyInvalid, ReplyRaises, Answered
  <2>2. PICK s \in CallStates \ {"none"} : call' = [call EXCEPT ![c] = s] /\ CallLeft(s) < CallLeft(call[c])
    BY <1>3 DEF Reply, ReplyInvalid, ReplyRaises, CallStates, Waiting
  <2>3. call # Unmade /\ call' # Unmade
    BY <1>1, <2>1, <2>2 DEF Unmade, Waiting
  <2>4. \A d \in {"A", "B", "C"} : CallLeft(call[d]) \in 0..2 /\ CallLeft(call'[d]) \in 0..2
    OBVIOUS
  <2>5. \A d \in {"A", "B", "C"} :
            IF d = c THEN CallLeft(call'[d]) < CallLeft(call[d]) ELSE call'[d] = call[d]
    BY <1>1, <2>2 DEF Calls
  <2>6. c \in {"A", "B", "C"}
    BY DEF Calls
  <2> HIDE DEF CallLeft
  <2> QED
    BY <2>1, <2>3, <2>4, <2>5, <2>6
<1>4. CASE Merge(jd)
  <2>1. layer3 = Unread /\ call # Unmade
    BY <1>4 DEF Merge
  <2>2. layer3'.a.of = "A"
    BY <1>4 DEF Merge, Results, Tasks, IndexOf
  <2>3. Unread.a.of = "none"
    BY DEF Unread, Blank
  <2>4. layer3' # Unread
    BY <2>2, <2>3
  <2> QED
    BY <2>1, <2>4
<1> QED
  BY <1>2, <1>3, <1>4 DEF ReviewStep

\* How many steps a review has left, with their bounds.
Counted ==
    /\ Len(status) \in Nat /\ Len(status) <= Len(Tools)
    /\ Layer3Left \in 0..8
    /\ Layer4Left \in 0..MostSearches + 6
    /\ stage \in Stages
    /\ stage = "start"              => Remaining = MostSearches + Len(Tools) + 19
    /\ stage = "clone"              => Remaining = MostSearches + Len(Tools) + 18
    /\ stage = "analyze"            => Remaining = MostSearches + Len(Tools) + 17 - Len(status)
    /\ stage = "layer3"             => Remaining = MostSearches + 8 + Layer3Left
    /\ stage = "layer4"             => Remaining = 1 + Layer4Left
    /\ stage \in {"ended", "closed"} => Remaining = 0

LEMMA ReviewCounted == ReviewInv /\ SearchesBounded => Counted
<1> SUFFICES ASSUME ReviewInv, SearchesBounded PROVE Counted
  OBVIOUS
<1>1. Layer3Left \in 0..8
  BY DEF Layer3Left, CallLeft
<1>2. Layer4Left \in 0..MostSearches + 6
  <2>1. place \in Places /\ left \in 0..MostSearches
    BY DEF ReviewInv, SourcesInv, SuggestTypeOK, SearchesBounded
  <2> QED
    BY <2>1, MostIs DEF Layer4Left, Places
<1>3. Len(status) \in Nat /\ Len(status) <= Len(Tools)
  BY DEF ReviewInv, TypeOK, ReviewTypeOK
<1>4. stage \in Stages
  BY DEF ReviewInv, TypeOK
<1> QED
  BY <1>1, <1>2, <1>3, <1>4 DEF Counted, Remaining, Stages

\* The same of the next state, of which no lemma can be cited.
LEMMA NextCounted ==
    ASSUME Counted'
    PROVE  /\ Layer3Left' \in 0..8 /\ Layer4Left' \in 0..MostSearches + 6
           /\ stage' = "layer3" => Remaining' = MostSearches + 8 + Layer3Left'
           /\ stage' = "layer4" => Remaining' = 1 + Layer4Left'
BY DEF Counted

LEMMA StepCounts ==
    ReviewInv /\ ResultsInv /\ SearchesBounded /\ SearchesBounded' /\ Counted /\ Counted' /\ Next =>
        Remaining \in Nat /\ Remaining' < Remaining
<1> SUFFICES ASSUME ReviewInv, ResultsInv, SearchesBounded, SearchesBounded', Counted, Counted', Next
             PROVE  Remaining \in Nat /\ Remaining' < Remaining
  OBVIOUS
<1>1. MostSearches \in Nat /\ Len(Tools) \in Nat
  BY MostIs, FindingsType
<1>2. Remaining \in Nat
  BY <1>1 DEF Counted, Stages
<1>3. ASSUME stage' \in {"ended", "closed"}, stage \in {"start", "clone", "analyze", "layer3", "layer4"}
      PROVE  Remaining' < Remaining
  BY <1>1, <1>3 DEF Counted
<1>4. ASSUME Start, stage' # "ended" PROVE Remaining' < Remaining
  <2>1. stage = "start" /\ stage' \in {"clone", "analyze", "layer4"}
    BY <1>4 DEF Start
  <2> QED
    BY <1>1, <2>1 DEF Counted
<1>5. ASSUME Clone PROVE Remaining' < Remaining
  <2>1. stage = "clone" /\ stage' = "analyze"
    BY <1>5 DEF Clone
  <2> QED
    BY <1>1, <2>1 DEF Counted
<1>6. ASSUME Analyze PROVE Remaining' < Remaining
  <2>1. CASE Analyzed
    <3>1. stage = "analyze" /\ stage' = "layer3" /\ Len(status) = Len(Tools)
      BY <1>6, <2>1 DEF Analyze, Analyzed
    <3> QED
      BY <1>1, <3>1 DEF Counted
  <2>2. CASE ~Analyzed
    <3>1. stage = "analyze" /\ stage' = "analyze" /\ RunTool
      BY <1>6, <2>2 DEF Analyze
    <3>2. PICK outcome \in {"skipped", "error", "ok"} : status' = Append(status, outcome)
      BY <3>1 DEF RunTool
    <3>3. Len(status') = Len(status) + 1
      BY <3>2 DEF ReviewInv, TypeOK, ReviewTypeOK
    <3> QED
      BY <1>1, <3>1, <3>3 DEF Counted
  <2> QED
    BY <2>1, <2>2
<1>7. ASSUME RunLayer3 PROVE Remaining' < Remaining
  <2>1. stage = "layer3" /\ stage' = "layer3" /\ (StartCalls(jd) \/ ReviewStep(jd))
    BY <1>7 DEF RunLayer3
  <2>2. Layer3Left' < Layer3Left
    BY <2>1, Layer3Counts DEF ReviewInv, TypeOK
  <2>3. Layer3Left \in 0..8 /\ Remaining = MostSearches + 8 + Layer3Left
    BY <2>1 DEF Counted
  <2> QED
    BY <1>1, <2>1, <2>2, <2>3, NextCounted
<1>8. ASSUME ShowReview, stage' # "ended" PROVE Remaining' < Remaining
  <2>1. stage = "layer3" /\ stage' = "layer4"
    BY <1>8 DEF ShowReview, Leave
  <2>2. Layer3Left \in 0..8 /\ Remaining = MostSearches + 8 + Layer3Left
    BY <2>1 DEF Counted
  <2> QED
    BY <1>1, <2>1, <2>2, NextCounted
<1>9. ASSUME RunLayer4 PROVE Remaining' < Remaining
  <2>1. stage = "layer4" /\ stage' = "layer4" /\ (StartSuggest \/ SuggestStep)
    BY <1>9 DEF RunLayer4
  <2>2. Layer4Left' < Layer4Left
    BY <2>1, Layer4Counts
  <2>3. Layer4Left \in 0..MostSearches + 6 /\ Remaining = 1 + Layer4Left
    BY <2>1 DEF Counted
  <2> QED
    BY <1>1, <2>1, <2>2, <2>3, NextCounted
<1>10. ASSUME ((Start \/ ShowReview) /\ stage' = "ended") \/ StepRaises \/ ShowSuggestion \/ Close
       PROVE  Remaining' < Remaining
  <2>1. stage \in {"start", "clone", "analyze", "layer3", "layer4"} /\ stage' \in {"ended", "closed"}
    BY <1>10 DEF Start, ShowReview, StepRaises, ShowSuggestion, Close, Raise, Leave
  <2> QED
    BY <1>3, <2>1
<1> QED
  BY <1>2, <1>4, <1>5, <1>6, <1>7, <1>8, <1>9, <1>10 DEF Next, Progress

\* Whatever the tools, the searches and the model's API do, each step of a review
\* leaves fewer to make: it has no loop that could go on forever.  (That the next one
\* is made is the fairness of FairSpec.)
THEOREM ReviewRunsDown == Spec => [][(Remaining \in Nat) /\ (Remaining' < Remaining)]_vars
<1>1. Init => SearchesBounded
  BY MostIs DEF Init, SuggestInit, SearchesBounded
<1>2. ReviewInv /\ ResultsInv /\ SearchesBounded /\ SearchesBounded' /\ Counted /\ Counted' /\ [Next]_vars
          => [(Remaining \in Nat) /\ (Remaining' < Remaining)]_vars
  BY StepCounts
<1> QED
  BY <1>1, <1>2, BoundKept, ReviewCounted, ReviewHolds, ResultsHold, PTL DEF Spec
=============================================================================
