------------------------------ MODULE JobQueue ------------------------------
(***************************************************************************)
(* The suggestion job queue: POST /suggestions in the web process, the     *)
(* suggestion_jobs table in Postgres (the source of truth), the Redis list *)
(* suggestions:jobs (a pickup signal) and the worker containers.           *)
(*                                                                         *)
(* A Postgres transaction is split where another process can run between   *)
(* its statements and see the difference: the POST's INSERT, its LPUSH and *)
(* its COMMIT are three steps.  An UPDATE followed at once by its COMMIT   *)
(* is one.  Time is abstracted to one fact, that a `running` row's         *)
(* started_at has become older than STALE_THRESHOLD.                       *)
(***************************************************************************)
EXTENDS Naturals, Sequences, FiniteSets, Functions

CONSTANTS
    Jobs,            \* uuids: each POST that inserts a row takes a fresh one
    Users,
    Workers,
    Owner,           \* Owner[j]: the user whose POST may insert j
    SlowJobs,        \* jobs whose Layer 4 run may outlast STALE_THRESHOLD
    Faults,          \* the kinds of disruption this instance allows
    MaxDisruptions   \* bound: how many disruptions a behaviour has

FaultKinds == {"worker crash", "worker stop", "web crash", "redis", "postgres"}

ASSUME OwnerType == Owner \in [Jobs -> Users]
ASSUME SlowJobsType == SlowJobs \subseteq Jobs
ASSUME FaultsType == Faults \subseteq FaultKinds /\ MaxDisruptions \in Nat

VARIABLES
    status,          \* committed suggestion_jobs.status; "none": no row
    filled,          \* the nullable columns of the row that hold a value
    stale,           \* rows whose started_at is older than STALE_THRESHOLD
    queue,           \* the Redis list, BRPOP's end first
    web,             \* where the POST for each id stands, or its status code
    pc,              \* where each worker stands
    held,            \* the job ids each worker has in memory
    stopping,        \* the workers whose _running flag is False
    disruptions      \* how many disruptions have happened

vars == <<status, filled, stale, queue, web, pc, held, stopping, disruptions>>
rows == <<status, filled, stale>>
workers == <<pc, held, stopping>>

-----------------------------------------------------------------------------
Active   == {"queued", "running"}
Terminal == {"done", "error"}
Columns  == {"started_at", "finished_at", "result", "error"}

\* A POST whose transaction holds an uncommitted suggestion_jobs row.
Uncommitted == {"inserted", "pushed", "push failed"}
WebStates   == {"idle", "arrived", "conflict", "201", "409", "500", "503", "lost"}
               \cup Uncommitted
WorkerStates == {"down", "booting", "revived", "requeueing", "waiting", "popped", "running"}

Siblings(j) == {k \in Jobs : Owner[k] = Owner[j] /\ k # j}
Runs(w, j)  == pc[w] = "running" /\ j \in held[w]

Disrupt(kind) ==
    /\ kind \in Faults
    /\ disruptions < MaxDisruptions
    /\ disruptions' = disruptions + 1

Init ==
    /\ status = [j \in Jobs |-> "none"]
    /\ filled = [j \in Jobs |-> {}]
    /\ stale = {}
    /\ queue = <<>>
    /\ web = [j \in Jobs |-> "idle"]
    /\ pc = [w \in Workers |-> "down"]
    /\ held = [w \in Workers |-> {}]
    /\ stopping = {}
    /\ disruptions = 0

-----------------------------------------------------------------------------
(***************************************************************************)
(* The web process.                                                        *)
(***************************************************************************)
Goto(j, state) == web' = [web EXCEPT ![j] = state]

\* The request is authenticated and validated; its INSERT is about to run.
Arrive(j) ==
    /\ web[j] = "idle"
    /\ Goto(j, "arrived")
    /\ UNCHANGED <<rows, queue, workers, disruptions>>

\* Mutant: a SELECT for an active job before the INSERT, and no index.
IndexNeverWaits(j) == FALSE

\* suggestion_jobs_one_active_per_user makes the INSERT wait for every open
\* transaction that has inserted an active row for the same user.
IndexWaits(j) == \E k \in Siblings(j) : web[k] \in Uncommitted
IndexTaken(j) == \E k \in Siblings(j) : status[k] \in Active

\* db.flush(): the row gets its id and is visible to this transaction only.
Insert(j) ==
    /\ web[j] = "arrived"
    /\ ~IndexWaits(j)
    /\ ~IndexTaken(j)
    /\ Goto(j, "inserted")
    /\ UNCHANGED <<rows, queue, workers, disruptions>>

\* IntegrityError, and the handler's rollback.
InsertConflict(j) ==
    /\ web[j] = "arrived"
    /\ ~IndexWaits(j)
    /\ IndexTaken(j)
    /\ Goto(j, "conflict")
    /\ UNCHANGED <<rows, queue, workers, disruptions>>

\* Mutant: wait for an active row instead of failing without one.
AnswerConflictWaits(j) ==
    /\ web[j] = "conflict"
    /\ IndexTaken(j)
    /\ Goto(j, "409")
    /\ UNCHANGED <<rows, queue, workers, disruptions>>

\* The handler looks the active job up in a new transaction: scalar_one()
\* raises when it is no longer active.
AnswerConflict(j) ==
    /\ web[j] = "conflict"
    /\ Goto(j, IF IndexTaken(j) THEN "409" ELSE "500")
    /\ UNCHANGED <<rows, queue, workers, disruptions>>

Push(j) ==
    /\ web[j] = "inserted"
    /\ queue' = Append(queue, j)
    /\ Goto(j, "pushed")
    /\ UNCHANGED <<rows, workers, disruptions>>

\* LPUSH raises; whether Redis performed it before the error is unknown.
PushFails(j) ==
    /\ web[j] = "inserted"
    /\ Disrupt("redis")
    /\ queue' \in {queue, Append(queue, j)}
    /\ Goto(j, "push failed")
    /\ UNCHANGED <<rows, workers>>

Commit(j) ==
    /\ web[j] = "pushed"
    /\ status' = [status EXCEPT ![j] = "queued"]
    /\ Goto(j, "201")
    /\ UNCHANGED <<filled, stale, queue, workers, disruptions>>

\* The row is committed as an error, which frees the user's slot.
CommitFailure(j) ==
    /\ web[j] = "push failed"
    /\ status' = [status EXCEPT ![j] = "error"]
    /\ filled' = [filled EXCEPT ![j] = {"error"}]
    /\ Goto(j, "503")
    /\ UNCHANGED <<stale, queue, workers, disruptions>>

\* The process dies or COMMIT fails: Postgres rolls the row back, and an id
\* already pushed stays in Redis.  ("201" stands for a COMMIT that happened,
\* whether or not the client hears of it.)
Lose(j) ==
    /\ web[j] \in Uncommitted \cup {"arrived", "conflict"}
    /\ Disrupt("web crash")
    /\ Goto(j, "lost")
    /\ UNCHANGED <<rows, queue, workers>>

Post(j) ==
    \/ Insert(j) \/ InsertConflict(j) \/ AnswerConflict(j)
    \/ Push(j) \/ Commit(j) \/ CommitFailure(j)

-----------------------------------------------------------------------------
(***************************************************************************)
(* The workers.                                                            *)
(***************************************************************************)

\* The head of main()'s loop, `while _running`.
LoopHead(w) == IF w \in stopping THEN "down" ELSE "waiting"

\* Mutant: the id of a round stays in the worker's hands.
ContinueHolding(w) ==
    /\ pc' = [pc EXCEPT ![w] = LoopHead(w)]
    /\ stopping' = stopping \ {w}
    /\ UNCHANGED held

\* On to the next round of the loop, or out of it; a new process has a new flag.
Continue(w) ==
    /\ pc' = [pc EXCEPT ![w] = LoopHead(w)]
    /\ held' = [held EXCEPT ![w] = {}]
    /\ stopping' = stopping \ {w}

Boot(w) ==
    /\ pc[w] = "down"
    /\ pc' = [pc EXCEPT ![w] = "booting"]
    /\ UNCHANGED <<rows, queue, web, held, stopping, disruptions>>

\* Mutants: no threshold, the comparison the wrong way round.
RevivableAny   == {j \in Jobs : status[j] = "running"}
RevivableFresh == {j \in Jobs : status[j] = "running" /\ j \notin stale}

Revivable == {j \in Jobs : status[j] = "running" /\ j \in stale}

\* Mutant: only the status is reset.
UnstartedKept(j) == filled[j]

Unstarted(j) == filled[j] \ {"started_at"}

\* recover_orphans, first transaction.
Revive(w) ==
    /\ pc[w] = "booting"
    /\ status' = [j \in Jobs |-> IF j \in Revivable THEN "queued" ELSE status[j]]
    /\ filled' = [j \in Jobs |-> IF j \in Revivable THEN Unstarted(j) ELSE filled[j]]
    /\ stale' = stale \ Revivable
    /\ pc' = [pc EXCEPT ![w] = "revived"]
    /\ UNCHANGED <<queue, web, held, stopping, disruptions>>

\* recover_orphans, the SELECT of the queued ids.
SelectQueued(w) ==
    /\ pc[w] = "revived"
    /\ held' = [held EXCEPT ![w] = {j \in Jobs : status[j] = "queued"}]
    /\ pc' = [pc EXCEPT ![w] = "requeueing"]
    /\ UNCHANGED <<rows, queue, web, stopping, disruptions>>

\* Mutant: recovery rebuilds the list instead of adding to it.
RequeueReplaces(w, j) ==
    /\ pc[w] = "requeueing"
    /\ j \in held[w]
    /\ queue' = <<j>>
    /\ held' = [held EXCEPT ![w] = @ \ {j}]
    /\ UNCHANGED <<rows, web, pc, stopping, disruptions>>

Requeue(w, j) ==
    /\ pc[w] = "requeueing"
    /\ j \in held[w]
    /\ queue' = Append(queue, j)
    /\ held' = [held EXCEPT ![w] = @ \ {j}]
    /\ UNCHANGED <<rows, web, pc, stopping, disruptions>>

EnterLoop(w) ==
    /\ pc[w] = "requeueing"
    /\ held[w] = {}
    /\ Continue(w)
    /\ UNCHANGED <<rows, queue, web, disruptions>>

Pop(w) ==
    /\ pc[w] = "waiting"
    /\ queue # <<>>
    /\ held' = [held EXCEPT ![w] = {Head(queue)}]
    /\ queue' = Tail(queue)
    /\ pc' = [pc EXCEPT ![w] = "popped"]
    /\ UNCHANGED <<rows, web, stopping, disruptions>>

\* BRPOP times out, and the loop sees the flag.
Exit(w) ==
    /\ pc[w] = "waiting"
    /\ w \in stopping
    /\ Continue(w)
    /\ UNCHANGED <<rows, queue, web, disruptions>>

\* Mutants: failed jobs are claimed too, running jobs are claimed too.
ClaimableFailed(j)  == status[j] \in {"queued", "error"}
ClaimableRunning(j) == status[j] \in Active

Claimable(j) == status[j] = "queued"

\* process_job's UPDATE ... WHERE status = 'queued' RETURNING, and its COMMIT.
Claim(w, j) ==
    /\ pc[w] = "popped"
    /\ j \in held[w]
    /\ Claimable(j)
    /\ status' = [status EXCEPT ![j] = "running"]
    /\ filled' = [filled EXCEPT ![j] = @ \cup {"started_at"}]
    /\ stale' = stale \ {j}
    /\ pc' = [pc EXCEPT ![w] = "running"]
    /\ UNCHANGED <<queue, web, held, stopping, disruptions>>

\* No committed row matched: the id is dropped.
Skip(w, j) ==
    /\ pc[w] = "popped"
    /\ j \in held[w]
    /\ ~Claimable(j)
    /\ Continue(w)
    /\ UNCHANGED <<rows, queue, web, disruptions>>

\* Mutant: the except branch returns without db.commit().
FinishUncommitted(w, j) ==
    /\ Runs(w, j)
    /\ \/ /\ status' = [status EXCEPT ![j] = "done"]
          /\ filled' = [filled EXCEPT ![j] = @ \cup {"finished_at", "result"}]
          /\ stale' = stale \ {j}
       \/ UNCHANGED rows
    /\ Continue(w)
    /\ UNCHANGED <<queue, web, disruptions>>

\* Layer 4 returned or raised; the terminal UPDATE names the id alone.
Finish(w, j) ==
    /\ Runs(w, j)
    /\ \E outcome \in Terminal :
         /\ status' = [status EXCEPT ![j] = outcome]
         /\ filled' = [filled EXCEPT ![j] = @ \cup
                {"finished_at", IF outcome = "done" THEN "result" ELSE "error"}]
    /\ stale' = stale \ {j}
    /\ Continue(w)
    /\ UNCHANGED <<queue, web, disruptions>>

Work(w) ==
    \/ Boot(w) \/ Revive(w) \/ SelectQueued(w) \/ EnterLoop(w) \/ Pop(w) \/ Exit(w)
    \/ \E j \in Jobs : Requeue(w, j) \/ Claim(w, j) \/ Skip(w, j) \/ Finish(w, j)

-----------------------------------------------------------------------------
(***************************************************************************)
(* What may go wrong, and the passing of time.                             *)
(***************************************************************************)

\* SIGTERM or SIGINT: the current job is finished first.
Stop(w) ==
    /\ pc[w] # "down"
    /\ w \notin stopping
    /\ Disrupt("worker stop")
    /\ stopping' = stopping \cup {w}
    /\ UNCHANGED <<rows, queue, web, pc, held>>

Down(w) ==
    /\ pc' = [pc EXCEPT ![w] = "down"]
    /\ held' = [held EXCEPT ![w] = {}]
    /\ stopping' = stopping \ {w}

Crash(w) ==
    /\ pc[w] # "down"
    /\ Disrupt("worker crash")
    /\ Down(w)
    /\ UNCHANGED <<rows, queue, web>>

\* An exception in recover_orphans ends main(); one in BRPOP or process_job is
\* logged and the loop goes on, without the popped id or the outcome.
PostgresFails(w) ==
    /\ Disrupt("postgres")
    /\ \/ pc[w] \in {"booting", "revived"} /\ Down(w)
       \/ pc[w] \in {"popped", "running"} /\ Continue(w)
    /\ UNCHANGED <<rows, queue, web>>

RedisFails(w) ==
    /\ Disrupt("redis")
    /\ \/ pc[w] = "requeueing" /\ held[w] # {} /\ Down(w) /\ UNCHANGED queue
       \/ /\ pc[w] = "waiting" /\ queue # <<>> \* the reply to BRPOP is lost
          /\ queue' = Tail(queue)
          /\ Continue(w)
    /\ UNCHANGED <<rows, web>>

RedisFlush ==
    /\ queue # <<>>
    /\ Disrupt("redis")
    /\ queue' = <<>>
    /\ UNCHANGED <<rows, web, workers>>

\* now() passes started_at + STALE_THRESHOLD.  A run that is still going on
\* lasts that long for slow jobs only.
Age(j) ==
    /\ status[j] = "running"
    /\ j \notin stale
    /\ j \in SlowJobs \/ \A w \in Workers : ~Runs(w, j)
    /\ stale' = stale \cup {j}
    /\ UNCHANGED <<status, filled, queue, web, workers, disruptions>>

Next ==
    \/ \E j \in Jobs : Arrive(j) \/ Post(j) \/ PushFails(j) \/ Lose(j) \/ Age(j)
    \/ \E w \in Workers : Work(w) \/ Stop(w) \/ Crash(w) \/ PostgresFails(w) \/ RedisFails(w)
    \/ RedisFlush

Spec == Init /\ [][Next]_vars

\* Uvicorn and Postgres finish a request they have started, a worker's loop
\* keeps running, and Docker restarts the container (restart: unless-stopped).
\* Nothing makes a user send a POST.
Fairness ==
    /\ \A j \in Jobs : WF_vars(Post(j)) /\ WF_vars(Age(j))
    /\ \A w \in Workers : WF_vars(Work(w))

FairSpec == Spec /\ Fairness

\* The deployments whose jobs are safe from boot recovery: runs shorter than
\* STALE_THRESHOLD, or one worker (docker-compose.yml fixes container_name).
Deployment == SlowJobs = {} \/ \A v, w \in Workers : v = w

-----------------------------------------------------------------------------
(***************************************************************************)
(* What GET /suggestions/{job_id} answers user u.                          *)
(***************************************************************************)
Shown(u, j) ==
    IF status[j] = "none" \/ Owner[j] # u
    THEN [status |-> "none", columns |-> {}]
    ELSE [status |-> status[j], columns |-> filled[j]]

-----------------------------------------------------------------------------
(***************************************************************************)
(* Properties.                                                             *)
(***************************************************************************)

\* A worker has one id in its hands while it looks at a popped job or runs it,
\* and collects several in boot recovery alone.
HandsOK ==
    \A w \in Workers :
        /\ pc[w] \in {"popped", "running"} => \E j \in Jobs : held[w] = {j}
        /\ pc[w] \in {"down", "booting", "revived", "waiting"} => held[w] = {}

\* The shape of every variable of the tables, the list and the processes.
TypeOK ==
    /\ status \in [Jobs -> Active \cup Terminal \cup {"none"}]
    /\ filled \in [Jobs -> SUBSET Columns]
    /\ stale \subseteq Jobs
    /\ queue \in Seq(Jobs)
    /\ web \in [Jobs -> WebStates]
    /\ pc \in [Workers -> WorkerStates]
    /\ held \in [Workers -> SUBSET Jobs]
    /\ stopping \subseteq Workers
    /\ disruptions \in 0..MaxDisruptions
    /\ HandsOK

\* j takes its owner's one place, in the table or in an open transaction.
TakesSlot(j) == status[j] \in Active \/ web[j] \in Uncommitted

\* README "One active job per user": no interleaving of POSTs, LPUSH failures,
\* worker outcomes and boot recovery gives a user two active jobs.
OneActivePerUser ==
    \A j, k \in Jobs : j # k /\ Owner[j] = Owner[k] => ~(TakesSlot(j) /\ TakesSlot(k))

\* A job id that a user holds no 201 for is never queued, run or done: an id
\* left in Redis by a rolled-back or failed POST is dropped by the claim, even
\* when the failed LPUSH was in fact performed.
OnlyAcceptedJobsRun ==
    \A j \in Jobs :
        (status[j] \in {"queued", "running", "done"} \/ \E w \in Workers : Runs(w, j))
            => web[j] = "201"

\* The design's "the atomic claim admits exactly one winner per job_id": no two
\* workers run Layer 4 for one job at the same time.
AtMostOneRunner ==
    \A j \in Jobs : \A v, w \in Workers : Runs(v, j) /\ Runs(w, j) => v = w

\* While a worker runs a job its row stays `running`: recovery never takes a job
\* away from a live worker, and nobody else records an outcome for it.
RunnerHoldsRow ==
    \A j \in Jobs, w \in Workers : Runs(w, j) => status[j] = "running"

\* The columns that the queue design shows in the answer of GET for each status.
Documented ==
    [queued  |-> {},
     running |-> {"started_at"},
     done    |-> {"started_at", "finished_at", "result"},
     error   |-> {"finished_at", "error"}]

\* A client that polls GET never sees a result beside an error, an outcome without its
\* column, or a queued job that already has a start time.  The answers are the documented
\* ones but for the two times of an error, where the code differs from the design: the row
\* of a failed LPUSH gets no finished_at (queue.py:41), and that of a run that failed keeps
\* its started_at (runner.py:43); an error shows both times or neither.
ShownIsConsistent ==
    \A j \in Jobs : LET row == Shown(Owner[j], j) IN
        /\ row.status = "none" => row.columns = {}
        /\ row.status \in {"queued", "running", "done"} => row.columns = Documented[row.status]
        /\ row.status = "error" =>
               /\ row.columns \ {"started_at", "finished_at"} = Documented["error"] \ {"finished_at"}
               /\ "started_at" \in row.columns <=> "finished_at" \in row.columns

\* Once a poller has seen `done` or `error` (where it stops polling), no step of
\* any worker or recovery changes what GET answers for that job.
OutcomeIsFinal ==
    [][\A j \in Jobs : Shown(Owner[j], j).status \in Terminal
            => Shown(Owner[j], j)' = Shown(Owner[j], j)]_vars

\* Somebody will still look at j: its id is in Redis, in the hands of a worker
\* about to claim it, or in those of a booting worker about to push it again.
Signalled(j) ==
    \/ j \in Range(queue)
    \/ \E w \in Workers : pc[w] \in {"popped", "requeueing"} /\ j \in held[w]

\* Without a disruption no step uses up the signal of a committed queued row
\* except the claim: duplicates, skips and recovery never waste the last one.
SignalIsKept ==
    [][\A j \in Jobs :
        status[j] = "queued" /\ Signalled(j) /\ status'[j] = "queued"
        /\ disruptions' = disruptions => Signalled(j)']_vars

\* Every POST that reached its INSERT is answered, whatever its siblings hold.
EveryPostAnswered ==
    \A j \in Jobs : web[j] = "arrived" ~> web[j] \in {"201", "409", "500", "503", "lost"}

Quiet == disruptions = MaxDisruptions

\* When disruptions have ended, a committed queued row that still has a signal
\* reaches an outcome.
SignalledJobCompletes ==
    \A j \in Jobs :
        (Quiet /\ status[j] = "queued" /\ Signalled(j)) ~> status[j] \in Terminal

\* A boot brings every queued row, and every running row older than the
\* threshold, to an outcome: whatever was lost before the boot is made good.
BootResumes ==
    \A j \in Jobs, w \in Workers :
        (Quiet /\ pc[w] = "booting" /\ (status[j] = "queued" \/ j \in Revivable))
            ~> status[j] \in Terminal

\* Acceptance criterion of the queue design: a POST answered 201 is followed by
\* a terminal status.
AcceptedJobCompletes == \A j \in Jobs : web[j] = "201" ~> status[j] \in Terminal

\* Acceptance criterion of the queue design: killing the worker mid-job and
\* restarting it results in the job completing.
KilledJobCompletes == \A j \in Jobs : status[j] = "running" ~> status[j] \in Terminal

\* The attempts under way are those of the workers inside run_layer4_sync.
Attempts == {jw \in Jobs \X Workers : Runs(jw[2], jw[1])}

Lifecycle == INSTANCE JobLifecycle WITH attempts <- Attempts

\* The queue implements the promise of JobLifecycle.
ImplementsLifecycle == Lifecycle!Spec
=============================================================================
