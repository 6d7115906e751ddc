--------------------------- MODULE JobQueueProofs ---------------------------
EXTENDS JobQueue, FunctionTheorems, SequenceTheorems, TLAPS

\* A disruption stays within the bound.
LEMMA DisruptOK ==
    ASSUME disruptions \in 0..MaxDisruptions, NEW kind, Disrupt(kind)
    PROVE  disruptions' \in 0..MaxDisruptions
BY FaultsType DEF Disrupt

\* A step cannot both be a disruption and leave their count alone.
LEMMA DisruptCounts ==
    ASSUME disruptions \in 0..MaxDisruptions, NEW kind, Disrupt(kind)
    PROVE  disruptions' # disruptions
BY FaultsType DEF Disrupt

\* LPUSH: the list stays a list of ids, and names one id more.
LEMMA PushRange ==
    ASSUME NEW s \in Seq(Jobs), NEW j \in Jobs
    PROVE  /\ Append(s, j) \in Seq(Jobs)
           /\ Range(Append(s, j)) = Range(s) \cup {j}
<1>1. /\ Append(s, j) \in Seq(Jobs)
      /\ Len(Append(s, j)) = Len(s) + 1
      /\ \A i \in 1..Len(s) : Append(s, j)[i] = s[i]
      /\ Append(s, j)[Len(s) + 1] = j
  BY AppendProperties
<1>2. DOMAIN s = 1..Len(s) /\ DOMAIN Append(s, j) = 1..(Len(s) + 1) /\ Len(s) \in Nat
  BY <1>1
<1>3. QED
  BY <1>1, <1>2 DEF Range

\* BRPOP: the list stays a list of ids, and only the popped id may leave it.
LEMMA PopRange ==
    ASSUME NEW s \in Seq(Jobs), s # <<>>
    PROVE  /\ Head(s) \in Jobs
           /\ Tail(s) \in Seq(Jobs)
           /\ Range(s) = Range(Tail(s)) \cup {Head(s)}
<1>1. /\ Head(s) \in Jobs
      /\ Tail(s) \in Seq(Jobs)
      /\ Len(Tail(s)) = Len(s) - 1
      /\ \A i \in 1..Len(Tail(s)) : Tail(s)[i] = s[i + 1]
  BY HeadTailProperties
<1>2. DOMAIN s = 1..Len(s) /\ DOMAIN Tail(s) = 1..(Len(s) - 1) /\ Len(s) \in Nat \ {0} /\ Head(s) = s[1]
  BY <1>1, EmptySeq
<1>3. Range(s) \subseteq Range(Tail(s)) \cup {Head(s)}
  <2> SUFFICES ASSUME NEW i \in 1..Len(s) PROVE s[i] \in Range(Tail(s)) \cup {Head(s)}
    BY <1>2 DEF Range
  <2>1. CASE i = 1
    BY <2>1, <1>2
  <2>2. CASE i # 1
    <3>1. i - 1 \in 1..Len(Tail(s)) /\ (i - 1) + 1 = i
      BY <2>2, <1>1, <1>2
    <3>2. Tail(s)[i - 1] = s[i] /\ i - 1 \in DOMAIN Tail(s)
      BY <3>1, <1>1, <1>2
    <3>3. QED
      BY <3>2 DEF Range
  <2>3. QED
    BY <2>1, <2>2
<1>4. Range(Tail(s)) \cup {Head(s)} \subseteq Range(s)
  <2>1. ASSUME NEW i \in DOMAIN Tail(s) PROVE Tail(s)[i] = s[i + 1] /\ i + 1 \in DOMAIN s
    BY <1>1, <1>2
  <2>2. 1 \in DOMAIN s
    BY <1>2
  <2>3. QED
    BY <2>1, <2>2, <1>2 DEF Range
<1>5. QED
  BY <1>1, <1>3, <1>4

\* TypeOK without what it says of the workers' hands.
ShapeOK ==
    /\ status \in [Jobs -> Active \cup Terminal \cup {"none"}]
    /\ filled \in [Jobs -> SUBSET Columns]
    /\ stale \subseteq Jobs
    /\ queue \in Seq(Jobs)
    /\ web \in [Jobs -> WebStates]
    /\ pc \in [Workers -> WorkerStates]
    /\ held \in [Workers -> SUBSET Jobs]
    /\ stopping \subseteq Workers
    /\ disruptions \in 0..MaxDisruptions

\* Every variable keeps its shape, and the workers' hands hold what their place
\* in main() and process_job allows.
THEOREM TypeCorrect == Spec => []TypeOK
<1> USE DEF TypeOK
<1>1. Init => TypeOK
  BY FaultsType DEF Init, HandsOK, WebStates, WorkerStates
<1>2. TypeOK /\ [Next]_vars => TypeOK'
  <2> SUFFICES ASSUME ShapeOK, HandsOK, [Next]_vars PROVE ShapeOK' /\ HandsOK'
    BY DEF ShapeOK
  <2> USE DEF ShapeOK, rows, workers, WebStates, WorkerStates, Uncommitted, Active, Terminal, Columns, Goto, Continue, LoopHead, Down, Runs, Revivable, Unstarted
  <2>1. ASSUME NEW j \in Jobs, Arrive(j) PROVE ShapeOK' /\ HandsOK'
    <3>1. ShapeOK'
      BY <2>1, DisruptOK, PushRange, PopRange DEF Arrive
    <3>2. HandsOK'
      BY <2>1 DEF Arrive, HandsOK
    <3>3. QED BY <3>1, <3>2
  <2>2. ASSUME NEW j \in Jobs, Insert(j) PROVE ShapeOK' /\ HandsOK'
    <3>1. ShapeOK'
      BY <2>2, DisruptOK, PushRange, PopRange DEF Insert
    <3>2. HandsOK'
      BY <2>2 DEF Insert, HandsOK
    <3>3. QED BY <3>1, <3>2
  <2>3. ASSUME NEW j \in Jobs, InsertConflict(j) PROVE ShapeOK' /\ HandsOK'
    <3>1. ShapeOK'
      BY <2>3, DisruptOK, PushRange, PopRange DEF InsertConflict
    <3>2. HandsOK'
      BY <2>3 DEF InsertConflict, HandsOK
    <3>3. QED BY <3>1, <3>2
  <2>4. ASSUME NEW j \in Jobs, AnswerConflict(j) PROVE ShapeOK' /\ HandsOK'
    <3>1. ShapeOK'
      BY <2>4, DisruptOK, PushRange, PopRange DEF AnswerConflict
    <3>2. HandsOK'
      BY <2>4 DEF AnswerConflict, HandsOK
    <3>3. QED BY <3>1, <3>2
  <2>5. ASSUME NEW j \in Jobs, Push(j) PROVE ShapeOK' /\ HandsOK'
    <3>1. ShapeOK'
      BY <2>5, DisruptOK, PushRange, PopRange DEF Push
    <3>2. HandsOK'
      BY <2>5 DEF Push, HandsOK
    <3>3. QED BY <3>1, <3>2
  <2>6. ASSUME NEW j \in Jobs, PushFails(j) PROVE ShapeOK' /\ HandsOK'
    <3>1. ShapeOK'
      <4>1. queue' \in Seq(Jobs)
        <5>1. Append(queue, j) \in Seq(Jobs)
          BY PushRange
        <5>2. QED
          BY <5>1, <2>6 DEF PushFails
      <4>2. QED
        BY <4>1, <2>6, DisruptOK DEF PushFails
    <3>2. HandsOK'
      BY <2>6 DEF PushFails, HandsOK
    <3>3. QED BY <3>1, <3>2
  <2>7. ASSUME NEW j \in Jobs, Commit(j) PROVE ShapeOK' /\ HandsOK'
    <3>1. ShapeOK'
      BY <2>7, DisruptOK, PushRange, PopRange DEF Commit
    <3>2. HandsOK'
      BY <2>7 DEF Commit, HandsOK
    <3>3. QED BY <3>1, <3>2
  <2>8. ASSUME NEW j \in Jobs, CommitFailure(j) PROVE ShapeOK' /\ HandsOK'
    <3>1. ShapeOK'
      BY <2>8, DisruptOK, PushRange, PopRange DEF CommitFailure
    <3>2. HandsOK'
      BY <2>8 DEF CommitFailure, HandsOK
    <3>3. QED BY <3>1, <3>2
  <2>9. ASSUME NEW j \in Jobs, Lose(j) PROVE ShapeOK' /\ HandsOK'
    <3>1. ShapeOK'
      BY <2>9, DisruptOK, PushRange, PopRange DEF Lose
    <3>2. HandsOK'
      BY <2>9 DEF Lose, HandsOK
    <3>3. QED BY <3>1, <3>2
  <2>10. ASSUME NEW j \in Jobs, Age(j) PROVE ShapeOK' /\ HandsOK'
    <3>1. ShapeOK'
      BY <2>10, DisruptOK, PushRange, PopRange DEF Age
    <3>2. HandsOK'
      BY <2>10 DEF Age, HandsOK
    <3>3. QED BY <3>1, <3>2
  <2>11. ASSUME NEW w \in Workers, Boot(w) PROVE ShapeOK' /\ HandsOK'
    <3>1. ShapeOK'
      BY <2>11, DisruptOK, PushRange, PopRange DEF Boot
    <3>2. HandsOK'
      BY <2>11 DEF Boot, HandsOK
    <3>3. QED BY <3>1, <3>2
  <2>12. ASSUME NEW w \in Workers, Revive(w) PROVE ShapeOK' /\ HandsOK'
    <3>1. ShapeOK'
      BY <2>12, DisruptOK, PushRange, PopRange DEF Revive
    <3>2. HandsOK'
      BY <2>12 DEF Revive, HandsOK
    <3>3. QED BY <3>1, <3>2
  <2>13. ASSUME NEW w \in Workers, SelectQueued(w) PROVE ShapeOK' /\ HandsOK'
    <3>1. ShapeOK'
      BY <2>13, DisruptOK, PushRange, PopRange DEF SelectQueued
    <3>2. HandsOK'
      BY <2>13 DEF SelectQueued, HandsOK
    <3>3. QED BY <3>1, <3>2
  <2>14. ASSUME NEW w \in Workers, EnterLoop(w) PROVE ShapeOK' /\ HandsOK'
    <3>1. ShapeOK'
      BY <2>14, DisruptOK, PushRange, PopRange DEF EnterLoop
    <3>2. HandsOK'
      BY <2>14 DEF EnterLoop, HandsOK
    <3>3. QED BY <3>1, <3>2
  <2>15. ASSUME NEW w \in Workers, Pop(w) PROVE ShapeOK' /\ HandsOK'
    <3>1. ShapeOK'
      BY <2>15, DisruptOK, PushRange, PopRange DEF Pop
    <3>2. HandsOK'
      <4>1. Head(queue) \in Jobs
        BY <2>15, PopRange DEF Pop
      <4>2. held' = [held EXCEPT ![w] = {Head(queue)}] /\ pc' = [pc EXCEPT ![w] = "popped"]
        BY <2>15 DEF Pop
      <4>3. QED
        BY <4>1, <4>2 DEF HandsOK
    <3>3. QED BY <3>1, <3>2
  <2>16. ASSUME NEW w \in Workers, Exit(w) PROVE ShapeOK' /\ HandsOK'
    <3>1. ShapeOK'
      BY <2>16, DisruptOK, PushRange, PopRange DEF Exit
    <3>2. HandsOK'
      BY <2>16 DEF Exit, HandsOK
    <3>3. QED BY <3>1, <3>2
  <2>17. ASSUME NEW w \in Workers, Stop(w) PROVE ShapeOK' /\ HandsOK'
    <3>1. ShapeOK'
      BY <2>17, DisruptOK, PushRange, PopRange DEF Stop
    <3>2. HandsOK'
      BY <2>17 DEF Stop, HandsOK
    <3>3. QED BY <3>1, <3>2
  <2>18. ASSUME NEW w \in Workers, Crash(w) PROVE ShapeOK' /\ HandsOK'
    <3>1. ShapeOK'
      BY <2>18, DisruptOK, PushRange, PopRange DEF Crash
    <3>2. HandsOK'
      BY <2>18 DEF Crash, HandsOK
    <3>3. QED BY <3>1, <3>2
  <2>19. ASSUME NEW w \in Workers, PostgresFails(w) PROVE ShapeOK' /\ HandsOK'
    <3>1. ShapeOK'
      BY <2>19, DisruptOK, PushRange, PopRange DEF PostgresFails
    <3>2. HandsOK'
      <4>1. CASE Down(w)
        BY <2>19, <4>1 DEF PostgresFails, HandsOK
      <4>2. CASE Continue(w)
        BY <2>19, <4>2 DEF PostgresFails, HandsOK
      <4>3. QED
        BY <2>19, <4>1, <4>2 DEF PostgresFails
    <3>3. QED BY <3>1, <3>2
  <2>20. ASSUME NEW w \in Workers, RedisFails(w) PROVE ShapeOK' /\ HandsOK'
    <3>1. ShapeOK'
      BY <2>20, DisruptOK, PushRange, PopRange DEF RedisFails
    <3>2. HandsOK'
      <4>1. CASE Down(w)
        BY <2>20, <4>1 DEF RedisFails, HandsOK
      <4>2. CASE Continue(w)
        BY <2>20, <4>2 DEF RedisFails, HandsOK
      <4>3. QED
        BY <2>20, <4>1, <4>2 DEF RedisFails
    <3>3. QED BY <3>1, <3>2
  <2>21. ASSUME NEW w \in Workers, NEW j \in Jobs, Requeue(w, j) PROVE ShapeOK' /\ HandsOK'
    <3>1. ShapeOK'
      BY <2>21, DisruptOK, PushRange, PopRange DEF Requeue
    <3>2. HandsOK'
      BY <2>21 DEF Requeue, HandsOK
    <3>3. QED BY <3>1, <3>2
  <2>22. ASSUME NEW w \in Workers, NEW j \in Jobs, Claim(w, j) PROVE ShapeOK' /\ HandsOK'
    <3>1. ShapeOK'
      BY <2>22, DisruptOK, PushRange, PopRange DEF Claim
    <3>2. HandsOK'
      BY <2>22 DEF Claim, HandsOK
    <3>3. QED BY <3>1, <3>2
  <2>23. ASSUME NEW w \in Workers, NEW j \in Jobs, Skip(w, j) PROVE ShapeOK' /\ HandsOK'
    <3>1. ShapeOK'
      BY <2>23, DisruptOK, PushRange, PopRange DEF Skip
    <3>2. HandsOK'
      BY <2>23 DEF Skip, HandsOK
    <3>3. QED BY <3>1, <3>2
  <2>24. ASSUME NEW w \in Workers, NEW j \in Jobs, Finish(w, j) PROVE ShapeOK' /\ HandsOK'
    <3>1. ShapeOK'
      <4>1. PICK outcome \in Terminal :
              /\ status' = [status EXCEPT ![j] = outcome]
              /\ filled' = [filled EXCEPT ![j] = @ \cup
                     {"finished_at", IF outcome = "done" THEN "result" ELSE "error"}]
        BY <2>24 DEF Finish
      <4>2. filled' \in [Jobs -> SUBSET Columns]
        BY <4>1
      <4>3. QED
        BY <4>1, <4>2, <2>24 DEF Finish
    <3>2. HandsOK'
      BY <2>24 DEF Finish, HandsOK
    <3>3. QED BY <3>1, <3>2
  <2>25. CASE RedisFlush
    <3>1. ShapeOK'
      BY <2>25, DisruptOK, EmptySeq DEF RedisFlush
    <3>2. HandsOK'
      BY <2>25 DEF RedisFlush, HandsOK
    <3>3. QED BY <3>1, <3>2
  <2>26. CASE UNCHANGED vars
    BY <2>26 DEF vars, HandsOK
  <2>27. QED
    BY <2>1, <2>2, <2>3, <2>4, <2>5, <2>6, <2>7, <2>8, <2>9, <2>10, <2>11, <2>12, <2>13, <2>14, <2>15, <2>16, <2>17, <2>18, <2>19, <2>20, <2>21, <2>22, <2>23, <2>24, <2>25, <2>26 DEF Next, Post, Work
<1>3. QED
  BY <1>1, <1>2, PTL DEF Spec

\* No user ever holds two places: neither waiting on the index, nor the error
\* rows, nor recovery lets a second active job in.
THEOREM OneActive == Spec => []OneActivePerUser
<1>1. Init => OneActivePerUser
  BY DEF Init, OneActivePerUser, TakesSlot, Active, Uncommitted
<1>2. TypeOK /\ OneActivePerUser /\ [Next]_vars => OneActivePerUser'
  <2> SUFFICES ASSUME TypeOK, OneActivePerUser, [Next]_vars PROVE OneActivePerUser'
    OBVIOUS
  <2> USE DEF TypeOK, OneActivePerUser, TakesSlot, Active, Terminal, Uncommitted, rows, workers, Goto, Continue, Down
  <2>1. ASSUME NEW j \in Jobs, Arrive(j) PROVE OneActivePerUser'
    BY <2>1 DEF Arrive
  <2>2. ASSUME NEW j \in Jobs, Insert(j) PROVE OneActivePerUser'
    BY <2>2 DEF Insert, IndexWaits, IndexTaken, Siblings
  <2>3. ASSUME NEW j \in Jobs, InsertConflict(j) PROVE OneActivePerUser'
    BY <2>3 DEF InsertConflict
  <2>4. ASSUME NEW j \in Jobs, AnswerConflict(j) PROVE OneActivePerUser'
    BY <2>4 DEF AnswerConflict
  <2>5. ASSUME NEW j \in Jobs, Push(j) PROVE OneActivePerUser'
    BY <2>5 DEF Push
  <2>6. ASSUME NEW j \in Jobs, PushFails(j) PROVE OneActivePerUser'
    BY <2>6 DEF PushFails
  <2>7. ASSUME NEW j \in Jobs, Commit(j) PROVE OneActivePerUser'
    BY <2>7 DEF Commit
  <2>8. ASSUME NEW j \in Jobs, CommitFailure(j) PROVE OneActivePerUser'
    BY <2>8 DEF CommitFailure
  <2>9. ASSUME NEW j \in Jobs, Lose(j) PROVE OneActivePerUser'
    BY <2>9 DEF Lose
  <2>10. ASSUME NEW j \in Jobs, Age(j) PROVE OneActivePerUser'
    BY <2>10 DEF Age
  <2>11. ASSUME NEW w \in Workers, Boot(w) PROVE OneActivePerUser'
    BY <2>11 DEF Boot
  <2>12. ASSUME NEW w \in Workers, Revive(w) PROVE OneActivePerUser'
    BY <2>12 DEF Revive, Revivable
  <2>13. ASSUME NEW w \in Workers, SelectQueued(w) PROVE OneActivePerUser'
    BY <2>13 DEF SelectQueued
  <2>14. ASSUME NEW w \in Workers, EnterLoop(w) PROVE OneActivePerUser'
    BY <2>14 DEF EnterLoop
  <2>15. ASSUME NEW w \in Workers, Pop(w) PROVE OneActivePerUser'
    BY <2>15 DEF Pop
  <2>16. ASSUME NEW w \in Workers, Exit(w) PROVE OneActivePerUser'
    BY <2>16 DEF Exit
  <2>17. ASSUME NEW w \in Workers, Stop(w) PROVE OneActivePerUser'
    BY <2>17 DEF Stop
  <2>18. ASSUME NEW w \in Workers, Crash(w) PROVE OneActivePerUser'
    BY <2>18 DEF Crash
  <2>19. ASSUME NEW w \in Workers, PostgresFails(w) PROVE OneActivePerUser'
    BY <2>19 DEF PostgresFails
  <2>20. ASSUME NEW w \in Workers, RedisFails(w) PROVE OneActivePerUser'
    BY <2>20 DEF RedisFails
  <2>21. ASSUME NEW w \in Workers, NEW j \in Jobs, Requeue(w, j) PROVE OneActivePerUser'
    BY <2>21 DEF Requeue
  <2>22. ASSUME NEW w \in Workers, NEW j \in Jobs, Claim(w, j) PROVE OneActivePerUser'
    BY <2>22 DEF Claim, Claimable
  <2>23. ASSUME NEW w \in Workers, NEW j \in Jobs, Skip(w, j) PROVE OneActivePerUser'
    BY <2>23 DEF Skip
  <2>24. ASSUME NEW w \in Workers, NEW j \in Jobs, Finish(w, j) PROVE OneActivePerUser'
    BY <2>24 DEF Finish
  <2>25. CASE RedisFlush
    BY <2>25 DEF RedisFlush
  <2>26. CASE UNCHANGED vars
    BY <2>26 DEF vars
  <2>27. QED
    BY <2>1, <2>2, <2>3, <2>4, <2>5, <2>6, <2>7, <2>8, <2>9, <2>10, <2>11, <2>12, <2>13, <2>14, <2>15, <2>16, <2>17, <2>18, <2>19, <2>20, <2>21, <2>22, <2>23, <2>24, <2>25, <2>26 DEF Next, Post, Work
<1>3. QED
  BY <1>1, <1>2, TypeCorrect, PTL DEF Spec

\* A row's id was answered 201, or 503 with an error row; what runs was
\* answered 201.
RowOrigin ==
    \A j \in Jobs :
        /\ status[j] \in {"queued", "running", "done"} => web[j] = "201"
        /\ status[j] = "error" => web[j] \in {"201", "503"}
        /\ \A w \in Workers : Runs(w, j) => web[j] = "201"

\* No transaction that was rolled back or failed is ever acted upon, whatever
\* ids it left in Redis.
THEOREM RowsHaveOrigins == Spec => []RowOrigin
<1>1. Init => RowOrigin
  BY DEF Init, RowOrigin, Runs
<1>2. TypeOK /\ RowOrigin /\ [Next]_vars => RowOrigin'
  <2> SUFFICES ASSUME TypeOK, RowOrigin, [Next]_vars PROVE RowOrigin'
    OBVIOUS
  <2> USE DEF TypeOK, RowOrigin, HandsOK, Runs, Active, Terminal, Uncommitted, rows, workers, Goto, Continue, Down
  <2>1. ASSUME NEW j \in Jobs, Arrive(j) PROVE RowOrigin'
    BY <2>1 DEF Arrive
  <2>2. ASSUME NEW j \in Jobs, Insert(j) PROVE RowOrigin'
    BY <2>2 DEF Insert
  <2>3. ASSUME NEW j \in Jobs, InsertConflict(j) PROVE RowOrigin'
    BY <2>3 DEF InsertConflict
  <2>4. ASSUME NEW j \in Jobs, AnswerConflict(j) PROVE RowOrigin'
    BY <2>4 DEF AnswerConflict
  <2>5. ASSUME NEW j \in Jobs, Push(j) PROVE RowOrigin'
    BY <2>5 DEF Push
  <2>6. ASSUME NEW j \in Jobs, PushFails(j) PROVE RowOrigin'
    BY <2>6 DEF PushFails
  <2>7. ASSUME NEW j \in Jobs, Commit(j) PROVE RowOrigin'
    BY <2>7 DEF Commit
  <2>8. ASSUME NEW j \in Jobs, CommitFailure(j) PROVE RowOrigin'
    BY <2>8 DEF CommitFailure
  <2>9. ASSUME NEW j \in Jobs, Lose(j) PROVE RowOrigin'
    BY <2>9 DEF Lose
  <2>10. ASSUME NEW j \in Jobs, Age(j) PROVE RowOrigin'
    BY <2>10 DEF Age
  <2>11. ASSUME NEW w \in Workers, Boot(w) PROVE RowOrigin'
    BY <2>11 DEF Boot
  <2>12. ASSUME NEW w \in Workers, Revive(w) PROVE RowOrigin'
    BY <2>12 DEF Revive, Revivable
  <2>13. ASSUME NEW w \in Workers, SelectQueued(w) PROVE RowOrigin'
    BY <2>13 DEF SelectQueued
  <2>14. ASSUME NEW w \in Workers, EnterLoop(w) PROVE RowOrigin'
    BY <2>14 DEF EnterLoop, LoopHead
  <2>15. ASSUME NEW w \in Workers, Pop(w) PROVE RowOrigin'
    BY <2>15 DEF Pop
  <2>16. ASSUME NEW w \in Workers, Exit(w) PROVE RowOrigin'
    BY <2>16 DEF Exit, LoopHead
  <2>17. ASSUME NEW w \in Workers, Stop(w) PROVE RowOrigin'
    BY <2>17 DEF Stop
  <2>18. ASSUME NEW w \in Workers, Crash(w) PROVE RowOrigin'
    BY <2>18 DEF Crash
  <2>19. ASSUME NEW w \in Workers, PostgresFails(w) PROVE RowOrigin'
    BY <2>19 DEF PostgresFails, LoopHead
  <2>20. ASSUME NEW w \in Workers, RedisFails(w) PROVE RowOrigin'
    BY <2>20 DEF RedisFails, LoopHead
  <2>21. ASSUME NEW w \in Workers, NEW j \in Jobs, Requeue(w, j) PROVE RowOrigin'
    BY <2>21 DEF Requeue
  <2>22. ASSUME NEW w \in Workers, NEW j \in Jobs, Claim(w, j) PROVE RowOrigin'
    BY <2>22 DEF Claim, Claimable
  <2>23. ASSUME NEW w \in Workers, NEW j \in Jobs, Skip(w, j) PROVE RowOrigin'
    BY <2>23 DEF Skip, LoopHead
  <2>24. ASSUME NEW w \in Workers, NEW j \in Jobs, Finish(w, j) PROVE RowOrigin'
    BY <2>24 DEF Finish, LoopHead
  <2>25. CASE RedisFlush
    BY <2>25 DEF RedisFlush
  <2>26. CASE UNCHANGED vars
    BY <2>26 DEF vars
  <2>27. QED
    BY <2>1, <2>2, <2>3, <2>4, <2>5, <2>6, <2>7, <2>8, <2>9, <2>10, <2>11, <2>12, <2>13, <2>14, <2>15, <2>16, <2>17, <2>18, <2>19, <2>20, <2>21, <2>22, <2>23, <2>24, <2>25, <2>26 DEF Next, Post, Work
<1>3. QED
  BY <1>1, <1>2, TypeCorrect, PTL DEF Spec

\* The property the runs check follows.
THEOREM AcceptedJobsOnly == Spec => []OnlyAcceptedJobsRun
<1>1. RowOrigin => OnlyAcceptedJobsRun
  BY DEF RowOrigin, OnlyAcceptedJobsRun
<1>2. QED
  BY <1>1, RowsHaveOrigins, PTL

\* Nobody but its one worker touches a running row, because a row that may be
\* taken back by another worker's boot has no live runner.
RunnerInv ==
    /\ RunnerHoldsRow
    /\ AtMostOneRunner
    /\ \A v, w \in Workers, j \in Jobs : v # w /\ Runs(w, j) => j \notin stale

\* With runs shorter than the threshold, or with one worker, recovery never
\* takes a job from a live worker and no job has two.
THEOREM Exclusive == 
    ASSUME Deployment
    PROVE  Spec => []RunnerInv
<1>1. Init => RunnerInv
  BY DEF Init, RunnerInv, RunnerHoldsRow, AtMostOneRunner, Runs
<1>2. TypeOK /\ RowOrigin /\ RunnerInv /\ [Next]_vars => RunnerInv'
  <2> SUFFICES ASSUME TypeOK, RowOrigin, RunnerInv, [Next]_vars PROVE RunnerInv'
    OBVIOUS
  <2> USE DEF TypeOK, RunnerInv, RunnerHoldsRow, AtMostOneRunner, RowOrigin, HandsOK, Runs, Active, Terminal, Uncommitted, rows, workers, Goto, Continue, Down
  <2>1. ASSUME NEW j \in Jobs, Arrive(j) PROVE RunnerInv'
    BY <2>1 DEF Arrive
  <2>2. ASSUME NEW j \in Jobs, Insert(j) PROVE RunnerInv'
    BY <2>2 DEF Insert
  <2>3. ASSUME NEW j \in Jobs, InsertConflict(j) PROVE RunnerInv'
    BY <2>3 DEF InsertConflict
  <2>4. ASSUME NEW j \in Jobs, AnswerConflict(j) PROVE RunnerInv'
    BY <2>4 DEF AnswerConflict
  <2>5. ASSUME NEW j \in Jobs, Push(j) PROVE RunnerInv'
    BY <2>5 DEF Push
  <2>6. ASSUME NEW j \in Jobs, PushFails(j) PROVE RunnerInv'
    BY <2>6 DEF PushFails
  <2>7. ASSUME NEW j \in Jobs, Commit(j) PROVE RunnerInv'
    BY <2>7 DEF Commit
  <2>8. ASSUME NEW j \in Jobs, CommitFailure(j) PROVE RunnerInv'
    BY <2>8 DEF CommitFailure
  <2>9. ASSUME NEW j \in Jobs, Lose(j) PROVE RunnerInv'
    BY <2>9 DEF Lose
  <2>10. ASSUME NEW j \in Jobs, Age(j) PROVE RunnerInv'
    BY <2>10, Deployment DEF Age, Deployment
  <2>11. ASSUME NEW w \in Workers, Boot(w) PROVE RunnerInv'
    BY <2>11 DEF Boot
  <2>12. ASSUME NEW w \in Workers, Revive(w) PROVE RunnerInv'
    BY <2>12 DEF Revive, Revivable
  <2>13. ASSUME NEW w \in Workers, SelectQueued(w) PROVE RunnerInv'
    BY <2>13 DEF SelectQueued
  <2>14. ASSUME NEW w \in Workers, EnterLoop(w) PROVE RunnerInv'
    BY <2>14 DEF EnterLoop, LoopHead
  <2>15. ASSUME NEW w \in Workers, Pop(w) PROVE RunnerInv'
    BY <2>15 DEF Pop
  <2>16. ASSUME NEW w \in Workers, Exit(w) PROVE RunnerInv'
    BY <2>16 DEF Exit, LoopHead
  <2>17. ASSUME NEW w \in Workers, Stop(w) PROVE RunnerInv'
    BY <2>17 DEF Stop
  <2>18. ASSUME NEW w \in Workers, Crash(w) PROVE RunnerInv'
    BY <2>18 DEF Crash
  <2>19. ASSUME NEW w \in Workers, PostgresFails(w) PROVE RunnerInv'
    <3>1. CASE pc[w] \in {"booting", "revived"} /\ Down(w)
      BY <2>19, <3>1 DEF PostgresFails
    <3>2. CASE pc[w] \in {"popped", "running"} /\ Continue(w)
      BY <2>19, <3>2 DEF PostgresFails, LoopHead
    <3>3. QED
      BY <2>19, <3>1, <3>2 DEF PostgresFails
  <2>20. ASSUME NEW w \in Workers, RedisFails(w) PROVE RunnerInv'
    <3>1. CASE Down(w)
      BY <2>20, <3>1 DEF RedisFails
    <3>2. CASE Continue(w)
      BY <2>20, <3>2 DEF RedisFails, LoopHead
    <3>3. QED
      BY <2>20, <3>1, <3>2 DEF RedisFails
  <2>21. ASSUME NEW w \in Workers, NEW j \in Jobs, Requeue(w, j) PROVE RunnerInv'
    BY <2>21 DEF Requeue
  <2>22. ASSUME NEW w \in Workers, NEW j \in Jobs, Claim(w, j) PROVE RunnerInv'
    BY <2>22 DEF Claim, Claimable
  <2>23. ASSUME NEW w \in Workers, NEW j \in Jobs, Skip(w, j) PROVE RunnerInv'
    BY <2>23 DEF Skip, LoopHead
  <2>24. ASSUME NEW w \in Workers, NEW j \in Jobs, Finish(w, j) PROVE RunnerInv'
    BY <2>24 DEF Finish, LoopHead
  <2>25. CASE RedisFlush
    BY <2>25 DEF RedisFlush
  <2>26. CASE UNCHANGED vars
    BY <2>26 DEF vars
  <2>27. QED
    BY <2>1, <2>2, <2>3, <2>4, <2>5, <2>6, <2>7, <2>8, <2>9, <2>10, <2>11, <2>12, <2>13, <2>14, <2>15, <2>16, <2>17, <2>18, <2>19, <2>20, <2>21, <2>22, <2>23, <2>24, <2>25, <2>26 DEF Next, Post, Work
<1>3. QED
  BY <1>1, <1>2, TypeCorrect, RowsHaveOrigins, PTL DEF Spec

\* No two workers run Layer 4 for one job at the same time, in such a deployment.
THEOREM OneRunner ==
    ASSUME Deployment
    PROVE  Spec => []AtMostOneRunner
<1>1. RunnerInv => AtMostOneRunner
  BY DEF RunnerInv
<1>2. QED
  BY <1>1, Exclusive, PTL

\* The row of a job that is being run stays `running`, in such a deployment.
THEOREM RunnerKeepsRow ==
    ASSUME Deployment
    PROVE  Spec => []RunnerHoldsRow
<1>1. RunnerInv => RunnerHoldsRow
  BY DEF RunnerInv
<1>2. QED
  BY <1>1, Exclusive, PTL

\* The columns of a row follow from its status, and for an error from who
\* recorded it: the POST, or the worker that ran the job.
RowColumns ==
    \A j \in Jobs :
        /\ status[j] \in {"none", "queued"} => filled[j] = {}
        /\ status[j] = "running" => filled[j] = {"started_at"}
        /\ status[j] = "done" => filled[j] = {"started_at", "finished_at", "result"}
        /\ status[j] = "error" =>
             filled[j] = IF web[j] = "503" THEN {"error"} ELSE {"started_at", "finished_at", "error"}

\* Whatever a poller of GET is shown, status and columns belong together: the
\* terminal UPDATE names the id alone, yet it always meets a running row.
THEOREM ConsistentRows ==
    ASSUME Deployment
    PROVE  Spec => []ShownIsConsistent
<1>1. Init => RowColumns
  BY DEF Init, RowColumns
<1>2. TypeOK /\ RowOrigin /\ RunnerInv /\ RowColumns /\ [Next]_vars => RowColumns'
  <2> SUFFICES ASSUME TypeOK, RowOrigin, RunnerInv, RowColumns, [Next]_vars PROVE RowColumns'
    OBVIOUS
  <2> USE DEF TypeOK, RowOrigin, RunnerInv, RunnerHoldsRow, RowColumns, Runs, Terminal, Active, Uncommitted, rows, workers, Goto
  <2>1. ASSUME NEW j \in Jobs, Arrive(j) PROVE RowColumns'
    BY <2>1 DEF Arrive
  <2>2. ASSUME NEW j \in Jobs, Insert(j) PROVE RowColumns'
    BY <2>2 DEF Insert
  <2>3. ASSUME NEW j \in Jobs, InsertConflict(j) PROVE RowColumns'
    BY <2>3 DEF InsertConflict
  <2>4. ASSUME NEW j \in Jobs, AnswerConflict(j) PROVE RowColumns'
    BY <2>4 DEF AnswerConflict
  <2>5. ASSUME NEW j \in Jobs, Push(j) PROVE RowColumns'
    BY <2>5 DEF Push
  <2>6. ASSUME NEW j \in Jobs, PushFails(j) PROVE RowColumns'
    BY <2>6 DEF PushFails
  <2>7. ASSUME NEW j \in Jobs, Commit(j) PROVE RowColumns'
    BY <2>7 DEF Commit
  <2>8. ASSUME NEW j \in Jobs, CommitFailure(j) PROVE RowColumns'
    BY <2>8 DEF CommitFailure
  <2>9. ASSUME NEW j \in Jobs, Lose(j) PROVE RowColumns'
    BY <2>9 DEF Lose
  <2>10. ASSUME NEW j \in Jobs, Age(j) PROVE RowColumns'
    BY <2>10 DEF Age
  <2>11. ASSUME NEW w \in Workers, Boot(w) PROVE RowColumns'
    BY <2>11 DEF Boot
  <2>12. ASSUME NEW w \in Workers, Revive(w) PROVE RowColumns'
    BY <2>12 DEF Revive, Revivable, Unstarted
  <2>13. ASSUME NEW w \in Workers, SelectQueued(w) PROVE RowColumns'
    BY <2>13 DEF SelectQueued
  <2>14. ASSUME NEW w \in Workers, EnterLoop(w) PROVE RowColumns'
    BY <2>14 DEF EnterLoop
  <2>15. ASSUME NEW w \in Workers, Pop(w) PROVE RowColumns'
    BY <2>15 DEF Pop
  <2>16. ASSUME NEW w \in Workers, Exit(w) PROVE RowColumns'
    BY <2>16 DEF Exit
  <2>17. ASSUME NEW w \in Workers, Stop(w) PROVE RowColumns'
    BY <2>17 DEF Stop
  <2>18. ASSUME NEW w \in Workers, Crash(w) PROVE RowColumns'
    BY <2>18 DEF Crash
  <2>19. ASSUME NEW w \in Workers, PostgresFails(w) PROVE RowColumns'
    BY <2>19 DEF PostgresFails
  <2>20. ASSUME NEW w \in Workers, RedisFails(w) PROVE RowColumns'
    BY <2>20 DEF RedisFails
  <2>21. ASSUME NEW w \in Workers, NEW j \in Jobs, Requeue(w, j) PROVE RowColumns'
    BY <2>21 DEF Requeue
  <2>22. ASSUME NEW w \in Workers, NEW j \in Jobs, Claim(w, j) PROVE RowColumns'
    BY <2>22 DEF Claim, Claimable
  <2>23. ASSUME NEW w \in Workers, NEW j \in Jobs, Skip(w, j) PROVE RowColumns'
    BY <2>23 DEF Skip
  <2>24. ASSUME NEW w \in Workers, NEW j \in Jobs, Finish(w, j) PROVE RowColumns'
    <3>1. web[j] = "201" /\ filled[j] = {"started_at"} /\ web' = web
      BY <2>24 DEF Finish
    <3>2. PICK outcome \in Terminal :
            /\ status' = [status EXCEPT ![j] = outcome]
            /\ filled' = [filled EXCEPT ![j] = @ \cup
                   {"finished_at", IF outcome = "done" THEN "result" ELSE "error"}]
      BY <2>24 DEF Finish
    <3>3. CASE outcome = "done"
      BY <3>1, <3>2, <3>3
    <3>4. CASE outcome = "error"
      BY <3>1, <3>2, <3>4
    <3>5. QED
      BY <3>3, <3>4
  <2>25. CASE RedisFlush
    BY <2>25 DEF RedisFlush
  <2>26. CASE UNCHANGED vars
    BY <2>26 DEF vars
  <2>27. QED
    BY <2>1, <2>2, <2>3, <2>4, <2>5, <2>6, <2>7, <2>8, <2>9, <2>10, <2>11, <2>12, <2>13, <2>14, <2>15, <2>16, <2>17, <2>18, <2>19, <2>20, <2>21, <2>22, <2>23, <2>24, <2>25, <2>26 DEF Next, Post, Work
<1>3. RowColumns => ShownIsConsistent
  BY DEF RowColumns, ShownIsConsistent, Shown, Documented
<1>4. QED
  BY <1>1, <1>2, <1>3, TypeCorrect, RowsHaveOrigins, Exclusive, PTL DEF Spec

\* One step leaves an outcome, and the columns that go with it, alone.
Kept(k) ==
    status[k] \in Terminal => status'[k] = status[k] /\ filled'[k] = filled[k]

\* An outcome a poller has seen never changes.
THEOREM FinalOutcome ==
    ASSUME Deployment
    PROVE  Spec => OutcomeIsFinal
<1>1. TypeOK /\ RowOrigin /\ RunnerInv /\ [Next]_vars => \A k \in Jobs : Kept(k)
  <2> SUFFICES ASSUME TypeOK, RowOrigin, RunnerInv, [Next]_vars, NEW k \in Jobs PROVE Kept(k)
    OBVIOUS
  <2> USE DEF TypeOK, RowOrigin, RunnerInv, RunnerHoldsRow, Runs, Kept, Terminal, Active, rows, workers, Goto
  <2>1. ASSUME NEW j \in Jobs, Arrive(j) PROVE Kept(k)
    BY <2>1 DEF Arrive
  <2>2. ASSUME NEW j \in Jobs, Insert(j) PROVE Kept(k)
    BY <2>2 DEF Insert
  <2>3. ASSUME NEW j \in Jobs, InsertConflict(j) PROVE Kept(k)
    BY <2>3 DEF InsertConflict
  <2>4. ASSUME NEW j \in Jobs, AnswerConflict(j) PROVE Kept(k)
    BY <2>4 DEF AnswerConflict
  <2>5. ASSUME NEW j \in Jobs, Push(j) PROVE Kept(k)
    BY <2>5 DEF Push
  <2>6. ASSUME NEW j \in Jobs, PushFails(j) PROVE Kept(k)
    BY <2>6 DEF PushFails
  <2>7. ASSUME NEW j \in Jobs, Commit(j) PROVE Kept(k)
    BY <2>7 DEF Commit
  <2>8. ASSUME NEW j \in Jobs, CommitFailure(j) PROVE Kept(k)
    BY <2>8 DEF CommitFailure
  <2>9. ASSUME NEW j \in Jobs, Lose(j) PROVE Kept(k)
    BY <2>9 DEF Lose
  <2>10. ASSUME NEW j \in Jobs, Age(j) PROVE Kept(k)
    BY <2>10 DEF Age
  <2>11. ASSUME NEW w \in Workers, Boot(w) PROVE Kept(k)
    BY <2>11 DEF Boot
  <2>12. ASSUME NEW w \in Workers, Revive(w) PROVE Kept(k)
    BY <2>12 DEF Revive, Revivable
  <2>13. ASSUME NEW w \in Workers, SelectQueued(w) PROVE Kept(k)
    BY <2>13 DEF SelectQueued
  <2>14. ASSUME NEW w \in Workers, EnterLoop(w) PROVE Kept(k)
    BY <2>14 DEF EnterLoop
  <2>15. ASSUME NEW w \in Workers, Pop(w) PROVE Kept(k)
    BY <2>15 DEF Pop
  <2>16. ASSUME NEW w \in Workers, Exit(w) PROVE Kept(k)
    BY <2>16 DEF Exit
  <2>17. ASSUME NEW w \in Workers, Stop(w) PROVE Kept(k)
    BY <2>17 DEF Stop
  <2>18. ASSUME NEW w \in Workers, Crash(w) PROVE Kept(k)
    BY <2>18 DEF Crash
  <2>19. ASSUME NEW w \in Workers, PostgresFails(w) PROVE Kept(k)
    BY <2>19 DEF PostgresFails
  <2>20. ASSUME NEW w \in Workers, RedisFails(w) PROVE Kept(k)
    BY <2>20 DEF RedisFails
  <2>21. ASSUME NEW w \in Workers, NEW j \in Jobs, Requeue(w, j) PROVE Kept(k)
    BY <2>21 DEF Requeue
  <2>22. ASSUME NEW w \in Workers, NEW j \in Jobs, Claim(w, j) PROVE Kept(k)
    BY <2>22 DEF Claim, Claimable
  <2>23. ASSUME NEW w \in Workers, NEW j \in Jobs, Skip(w, j) PROVE Kept(k)
    BY <2>23 DEF Skip
  <2>24. ASSUME NEW w \in Workers, NEW j \in Jobs, Finish(w, j) PROVE Kept(k)
    BY <2>24 DEF Finish
  <2>25. CASE RedisFlush
    BY <2>25 DEF RedisFlush
  <2>26. CASE UNCHANGED vars
    BY <2>26 DEF vars
  <2>27. QED
    BY <2>1, <2>2, <2>3, <2>4, <2>5, <2>6, <2>7, <2>8, <2>9, <2>10, <2>11, <2>12, <2>13, <2>14, <2>15, <2>16, <2>17, <2>18, <2>19, <2>20, <2>21, <2>22, <2>23, <2>24, <2>25, <2>26 DEF Next, Post, Work
<1>2. (\A k \in Jobs : Kept(k))
        => \A j \in Jobs : Shown(Owner[j], j).status \in Terminal
                => Shown(Owner[j], j)' = Shown(Owner[j], j)
  BY DEF Kept, Shown, Terminal
<1>3. TypeOK /\ RowOrigin /\ RunnerInv /\ [Next]_vars
        => [\A j \in Jobs : Shown(Owner[j], j).status \in Terminal
                => Shown(Owner[j], j)' = Shown(Owner[j], j)]_vars
  BY <1>1, <1>2
<1>4. QED
  BY <1>3, TypeCorrect, RowsHaveOrigins, Exclusive, PTL DEF Spec, OutcomeIsFinal

\* One step that is no disruption keeps a signal for a row that stays queued.
Keeps(k) ==
    status[k] = "queued" /\ Signalled(k) /\ status'[k] = "queued"
        /\ disruptions' = disruptions => Signalled(k)'

\* However many duplicates, skips and boots there are, the last signal of a
\* committed queued row is used by its claim alone.
THEOREM KeptSignal == Spec => SignalIsKept
<1>1. TypeOK /\ [Next]_vars => \A k \in Jobs : Keeps(k)
  <2> SUFFICES ASSUME TypeOK, [Next]_vars, NEW k \in Jobs PROVE Keeps(k)
    OBVIOUS
  <2> USE DEF TypeOK, HandsOK, Keeps, Signalled, rows, workers, Goto
  <2>1. ASSUME NEW j \in Jobs, Arrive(j) PROVE Keeps(k)
    BY <2>1 DEF Arrive
  <2>2. ASSUME NEW j \in Jobs, Insert(j) PROVE Keeps(k)
    BY <2>2 DEF Insert
  <2>3. ASSUME NEW j \in Jobs, InsertConflict(j) PROVE Keeps(k)
    BY <2>3 DEF InsertConflict
  <2>4. ASSUME NEW j \in Jobs, AnswerConflict(j) PROVE Keeps(k)
    BY <2>4 DEF AnswerConflict
  <2>5. ASSUME NEW j \in Jobs, Push(j) PROVE Keeps(k)
    BY <2>5, PushRange DEF Push
  <2>6. ASSUME NEW j \in Jobs, PushFails(j) PROVE Keeps(k)
    BY <2>6, DisruptCounts DEF PushFails
  <2>7. ASSUME NEW j \in Jobs, Commit(j) PROVE Keeps(k)
    BY <2>7 DEF Commit
  <2>8. ASSUME NEW j \in Jobs, CommitFailure(j) PROVE Keeps(k)
    BY <2>8 DEF CommitFailure
  <2>9. ASSUME NEW j \in Jobs, Lose(j) PROVE Keeps(k)
    BY <2>9, DisruptCounts DEF Lose
  <2>10. ASSUME NEW j \in Jobs, Age(j) PROVE Keeps(k)
    BY <2>10 DEF Age
  <2>11. ASSUME NEW w \in Workers, Boot(w) PROVE Keeps(k)
    BY <2>11 DEF Boot
  <2>12. ASSUME NEW w \in Workers, Revive(w) PROVE Keeps(k)
    BY <2>12 DEF Revive
  <2>13. ASSUME NEW w \in Workers, SelectQueued(w) PROVE Keeps(k)
    BY <2>13 DEF SelectQueued
  <2>14. ASSUME NEW w \in Workers, EnterLoop(w) PROVE Keeps(k)
    BY <2>14 DEF EnterLoop, Continue, LoopHead
  <2>15. ASSUME NEW w \in Workers, Pop(w) PROVE Keeps(k)
    BY <2>15, PopRange DEF Pop
  <2>16. ASSUME NEW w \in Workers, Exit(w) PROVE Keeps(k)
    BY <2>16 DEF Exit, Continue, LoopHead
  <2>17. ASSUME NEW w \in Workers, Stop(w) PROVE Keeps(k)
    BY <2>17, DisruptCounts DEF Stop
  <2>18. ASSUME NEW w \in Workers, Crash(w) PROVE Keeps(k)
    BY <2>18, DisruptCounts DEF Crash
  <2>19. ASSUME NEW w \in Workers, PostgresFails(w) PROVE Keeps(k)
    BY <2>19, DisruptCounts DEF PostgresFails
  <2>20. ASSUME NEW w \in Workers, RedisFails(w) PROVE Keeps(k)
    BY <2>20, DisruptCounts DEF RedisFails
  <2>21. ASSUME NEW w \in Workers, NEW j \in Jobs, Requeue(w, j) PROVE Keeps(k)
    BY <2>21, PushRange DEF Requeue
  <2>22. ASSUME NEW w \in Workers, NEW j \in Jobs, Claim(w, j) PROVE Keeps(k)
    BY <2>22 DEF Claim, Claimable
  <2>23. ASSUME NEW w \in Workers, NEW j \in Jobs, Skip(w, j) PROVE Keeps(k)
    BY <2>23 DEF Skip, Claimable, Continue, LoopHead
  <2>24. ASSUME NEW w \in Workers, NEW j \in Jobs, Finish(w, j) PROVE Keeps(k)
    BY <2>24 DEF Finish, Runs, Continue, LoopHead
  <2>25. CASE RedisFlush
    BY <2>25, DisruptCounts DEF RedisFlush
  <2>26. CASE UNCHANGED vars
    BY <2>26 DEF vars
  <2>27. QED
    BY <2>1, <2>2, <2>3, <2>4, <2>5, <2>6, <2>7, <2>8, <2>9, <2>10, <2>11, <2>12, <2>13, <2>14, <2>15, <2>16, <2>17, <2>18, <2>19, <2>20, <2>21, <2>22, <2>23, <2>24, <2>25, <2>26 DEF Next, Post, Work
<1>2. TypeOK /\ [Next]_vars
        => [\A j \in Jobs :
                status[j] = "queued" /\ Signalled(j) /\ status'[j] = "queued"
                /\ disruptions' = disruptions => Signalled(j)']_vars
  BY <1>1 DEF Keeps
<1>3. QED
  BY <1>2, TypeCorrect, PTL DEF Spec, SignalIsKept

\* What JobLifecycle sees of a step: the statuses, and who runs what.
Unseen == status' = status /\ \A w \in Workers, j \in Jobs : (Runs(w, j)' <=> Runs(w, j))

\* A pair is an attempt exactly when its worker runs its job.
LEMMA AttemptsOf ==
    /\ \A j \in Jobs, w \in Workers : <<j, w>> \in Attempts <=> Runs(w, j)
    /\ \A j \in Jobs, w \in Workers : (<<j, w>> \in Attempts)' <=> Runs(w, j)'
    /\ Attempts \subseteq Jobs \X Workers
    /\ Attempts' \subseteq Jobs \X Workers
<1>1. \A j \in Jobs, w \in Workers : <<j, w>> \in Attempts <=> Runs(w, j)
  BY DEF Attempts
<1>2. \A j \in Jobs, w \in Workers : (<<j, w>> \in Attempts)' <=> Runs(w, j)'
  BY DEF Attempts
<1>3. Attempts \subseteq Jobs \X Workers /\ Attempts' \subseteq Jobs \X Workers
  BY DEF Attempts
<1>4. QED
  BY <1>1, <1>2, <1>3

\* A step JobLifecycle cannot see is a stutter of it.
LEMMA UnseenStutters == Unseen => UNCHANGED <<status, Attempts>>
BY DEF Unseen, Attempts

\* A worker that is gone from its attempt, whatever it was doing.
LEMMA LeavingAbandons ==
    ASSUME TypeOK, NEW w \in Workers, status' = status,
           \A j \in Jobs : ~Runs(w, j)',
           \A v \in Workers \ {w}, j \in Jobs : (Runs(v, j)' <=> Runs(v, j))
    PROVE  Unseen \/ \E j \in Jobs : Lifecycle!Abandon(j, w)
<1>1. CASE \A j \in Jobs : ~Runs(w, j)
  BY <1>1 DEF Unseen
<1>2. CASE \E j \in Jobs : Runs(w, j)
  <2>1. PICK j \in Jobs : Runs(w, j)
    BY <1>2
  <2>2. \A k \in Jobs : Runs(w, k) => k = j
    BY <2>1 DEF TypeOK, HandsOK, Runs
  <2>3. <<j, w>> \in Attempts
    BY <2>1, AttemptsOf
  <2>4. Attempts' = Attempts \ {<<j, w>>}
    BY <2>1, <2>2 DEF Attempts
  <2>5. QED
    BY <2>3, <2>4 DEF Lifecycle!Abandon
<1>3. QED
  BY <1>1, <1>2

\* Every step of the queue is a step of JobLifecycle or is not seen by it.
THEOREM Refinement ==
    ASSUME Deployment
    PROVE  Spec => ImplementsLifecycle
<1>1. Init => Lifecycle!Init
  BY DEF Init, Lifecycle!Init, Attempts, Runs
<1>2. TypeOK /\ OneActivePerUser /\ RowOrigin /\ RunnerInv /\ [Next]_vars => Unseen \/ Lifecycle!Next
  <2> SUFFICES ASSUME TypeOK, OneActivePerUser, RowOrigin, RunnerInv, [Next]_vars
               PROVE  Unseen \/ Lifecycle!Next
    OBVIOUS
  <2> USE DEF rows, workers, Goto
  <2>1. ASSUME NEW j \in Jobs, Arrive(j) PROVE Unseen \/ Lifecycle!Next
    BY <2>1 DEF Arrive, Unseen, Runs
  <2>2. ASSUME NEW j \in Jobs, Insert(j) PROVE Unseen \/ Lifecycle!Next
    BY <2>2 DEF Insert, Unseen, Runs
  <2>3. ASSUME NEW j \in Jobs, InsertConflict(j) PROVE Unseen \/ Lifecycle!Next
    BY <2>3 DEF InsertConflict, Unseen, Runs
  <2>4. ASSUME NEW j \in Jobs, AnswerConflict(j) PROVE Unseen \/ Lifecycle!Next
    BY <2>4 DEF AnswerConflict, Unseen, Runs
  <2>5. ASSUME NEW j \in Jobs, Push(j) PROVE Unseen \/ Lifecycle!Next
    BY <2>5 DEF Push, Unseen, Runs
  <2>6. ASSUME NEW j \in Jobs, PushFails(j) PROVE Unseen \/ Lifecycle!Next
    BY <2>6 DEF PushFails, Unseen, Runs
  <2>7. ASSUME NEW j \in Jobs, Commit(j) PROVE Unseen \/ Lifecycle!Next
    <3>1. status[j] = "none" /\ \A k \in Jobs : Owner[k] = Owner[j] => status[k] \notin Active
      BY <2>7 DEF Commit, TypeOK, RowOrigin, OneActivePerUser, TakesSlot, Uncommitted, Active, Terminal
    <3>2. UNCHANGED Attempts
      BY <2>7 DEF Commit, Attempts, Runs
    <3>3. Lifecycle!Admit(j)
      BY <2>7, <3>1, <3>2 DEF Commit, Lifecycle!Admit, Lifecycle!Active, Active
    <3>4. QED
      BY <3>3 DEF Lifecycle!Next
  <2>8. ASSUME NEW j \in Jobs, CommitFailure(j) PROVE Unseen \/ Lifecycle!Next
    <3>1. status[j] = "none"
      BY <2>8 DEF CommitFailure, TypeOK, RowOrigin, Active, Terminal
    <3>2. UNCHANGED Attempts
      BY <2>8 DEF CommitFailure, Attempts, Runs
    <3>3. Lifecycle!Reject(j)
      BY <2>8, <3>1, <3>2 DEF CommitFailure, Lifecycle!Reject
    <3>4. QED
      BY <3>3 DEF Lifecycle!Next
  <2>9. ASSUME NEW j \in Jobs, Lose(j) PROVE Unseen \/ Lifecycle!Next
    BY <2>9 DEF Lose, Unseen, Runs
  <2>10. ASSUME NEW j \in Jobs, Age(j) PROVE Unseen \/ Lifecycle!Next
    BY <2>10 DEF Age, Unseen, Runs
  <2>11. ASSUME NEW w \in Workers, Boot(w) PROVE Unseen \/ Lifecycle!Next
    BY <2>11 DEF Boot, Unseen, Runs, TypeOK, HandsOK
  <2>12. ASSUME NEW w \in Workers, Revive(w) PROVE Unseen \/ Lifecycle!Next
    <3>1. \A j \in Revivable : status[j] = "running" /\ ~Lifecycle!UnderWay(j)
      <4> SUFFICES ASSUME NEW j \in Revivable, NEW v \in Workers, Runs(v, j) PROVE FALSE
        BY AttemptsOf DEF Revivable, Lifecycle!UnderWay
      <4>1. v # w
        BY <2>12 DEF Revive, Runs
      <4>2. QED
        BY <4>1 DEF RunnerInv, Revivable
    <3>2. UNCHANGED Attempts
      BY <2>12 DEF Revive, Attempts, Runs, TypeOK
    <3>3. Lifecycle!Revive(Revivable)
      BY <2>12, <3>1, <3>2 DEF Revive, Lifecycle!Revive
    <3>4. Revivable \in SUBSET Jobs
      BY DEF Revivable
    <3>5. QED
      BY <3>3, <3>4 DEF Lifecycle!Next
  <2>13. ASSUME NEW w \in Workers, SelectQueued(w) PROVE Unseen \/ Lifecycle!Next
    BY <2>13 DEF SelectQueued, Unseen, Runs, TypeOK, HandsOK
  <2>14. ASSUME NEW w \in Workers, EnterLoop(w) PROVE Unseen \/ Lifecycle!Next
    BY <2>14 DEF EnterLoop, Unseen, Runs, TypeOK, HandsOK, Continue, LoopHead
  <2>15. ASSUME NEW w \in Workers, Pop(w) PROVE Unseen \/ Lifecycle!Next
    BY <2>15 DEF Pop, Unseen, Runs, TypeOK, HandsOK
  <2>16. ASSUME NEW w \in Workers, Exit(w) PROVE Unseen \/ Lifecycle!Next
    BY <2>16 DEF Exit, Unseen, Runs, TypeOK, HandsOK, Continue, LoopHead
  <2>17. ASSUME NEW w \in Workers, Stop(w) PROVE Unseen \/ Lifecycle!Next
    BY <2>17 DEF Stop, Unseen, Runs
  <2>18. ASSUME NEW w \in Workers, Crash(w) PROVE Unseen \/ Lifecycle!Next
    <3>1. status' = status /\ (\A k \in Jobs : ~Runs(w, k)')
            /\ \A v \in Workers \ {w}, k \in Jobs : (Runs(v, k)' <=> Runs(v, k))
      BY <2>18 DEF Crash, Down, Continue, LoopHead, Runs, TypeOK
    <3>2. QED
      BY <3>1, LeavingAbandons DEF Lifecycle!Next
  <2>19. ASSUME NEW w \in Workers, PostgresFails(w) PROVE Unseen \/ Lifecycle!Next
    <3>1. status' = status /\ (\A k \in Jobs : ~Runs(w, k)')
            /\ \A v \in Workers \ {w}, k \in Jobs : (Runs(v, k)' <=> Runs(v, k))
      BY <2>19 DEF PostgresFails, Down, Continue, LoopHead, Runs, TypeOK
    <3>2. QED
      BY <3>1, LeavingAbandons DEF Lifecycle!Next
  <2>20. ASSUME NEW w \in Workers, RedisFails(w) PROVE Unseen \/ Lifecycle!Next
    <3>1. status' = status /\ (\A k \in Jobs : ~Runs(w, k)')
            /\ \A v \in Workers \ {w}, k \in Jobs : (Runs(v, k)' <=> Runs(v, k))
      BY <2>20 DEF RedisFails, Down, Continue, LoopHead, Runs, TypeOK
    <3>2. QED
      BY <3>1, LeavingAbandons DEF Lifecycle!Next
  <2>21. ASSUME NEW w \in Workers, NEW j \in Jobs, Requeue(w, j) PROVE Unseen \/ Lifecycle!Next
    BY <2>21 DEF Requeue, Unseen, Runs, TypeOK, HandsOK
  <2>22. ASSUME NEW w \in Workers, NEW j \in Jobs, Claim(w, j) PROVE Unseen \/ Lifecycle!Next
    <3>1. status[j] = "queued" /\ status' = [status EXCEPT ![j] = "running"]
      BY <2>22 DEF Claim, Claimable
    <3>2. ~Lifecycle!UnderWay(j) /\ \A k \in Jobs : <<k, w>> \notin Attempts
      BY <2>22, <3>1, AttemptsOf DEF Claim, Lifecycle!UnderWay, RunnerInv, RunnerHoldsRow, Runs
    <3>3. held[w] = {j}
      BY <2>22 DEF Claim, TypeOK, HandsOK
    <3>4. Attempts' = Attempts \cup {<<j, w>>}
      BY <2>22, <3>3 DEF Claim, Attempts, Runs, TypeOK
    <3>5. Lifecycle!Start(j, w)
      BY <3>1, <3>2, <3>4 DEF Lifecycle!Start
    <3>6. QED
      BY <3>5 DEF Lifecycle!Next
  <2>23. ASSUME NEW w \in Workers, NEW j \in Jobs, Skip(w, j) PROVE Unseen \/ Lifecycle!Next
    BY <2>23 DEF Skip, Unseen, Runs, TypeOK, HandsOK, Continue, LoopHead
  <2>24. ASSUME NEW w \in Workers, NEW j \in Jobs, Finish(w, j) PROVE Unseen \/ Lifecycle!Next
    <3>1. <<j, w>> \in Attempts
      BY <2>24, AttemptsOf DEF Finish
    <3>2. held[w] = {j}
      BY <2>24 DEF Finish, Runs, TypeOK, HandsOK
    <3>3. Attempts' = Attempts \ {<<j, w>>}
      BY <2>24, <3>2 DEF Finish, Continue, LoopHead, Attempts, Runs, TypeOK
    <3>4. Lifecycle!Complete(j, w)
      BY <2>24, <3>1, <3>3 DEF Finish, Lifecycle!Complete, Lifecycle!Terminal, Terminal
    <3>5. QED
      BY <3>4 DEF Lifecycle!Next
  <2>25. CASE RedisFlush
    BY <2>25 DEF RedisFlush, Unseen, Runs
  <2>26. CASE UNCHANGED vars
    BY <2>26 DEF vars, Unseen, Runs
  <2>27. QED
    BY <2>1, <2>2, <2>3, <2>4, <2>5, <2>6, <2>7, <2>8, <2>9, <2>10, <2>11, <2>12, <2>13, <2>14, <2>15, <2>16, <2>17, <2>18, <2>19, <2>20, <2>21, <2>22, <2>23, <2>24, <2>25, <2>26 DEF Next, Post, Work
<1>3. TypeOK /\ OneActivePerUser /\ RowOrigin /\ RunnerInv /\ [Next]_vars => [Lifecycle!Next]_(Lifecycle!vars)
  BY <1>2, UnseenStutters DEF Lifecycle!vars
<1>4. QED
  BY <1>1, <1>3, TypeCorrect, OneActive, RowsHaveOrigins, Exclusive, PTL
  DEF Spec, ImplementsLifecycle, Lifecycle!Spec

=============================================================================
