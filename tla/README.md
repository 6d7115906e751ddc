# ReviewMe: TLA+ models and proofs

ReviewMe reviews code with static tools and language models. It has a FastAPI
web process (accounts, sessions, a job queue), a worker process that runs long
LLM jobs, Postgres, Redis, and a Gradio front end that runs the review pipeline
in process; an offline program evaluates the model. This directory models the job
queue, the sessions, the review pipeline, the tabs that let a model call tools,
the skill library and the evaluation, checks them with TLC and proves their main
invariants with TLAPS.

## 1. Inventory

| Component | Source | State it keeps | Operations |
|---|---|---|---|
| Suggestion queue, web side | `app/web/services/queue.py`, `app/web/controllers/suggestions.py` | table `suggestion_jobs`, Redis list `suggestions:jobs` | POST /suggestions, GET /suggestions/{id} |
| Suggestion worker | `app/worker/main.py`, `runner.py`, `recovery.py` | the same, `_running` | boot recovery, BRPOP loop, claim, outcome, SIGTERM |
| Sessions and tokens | `app/web/services/auth/sessions.py`, `denylist.py`, `tokens.py`, `dependencies.py`, `app/web/controllers/auth.py`, `scripts/cleanup_expired_sessions.py` | table `refresh_sessions`, Redis keys `revoked_sid:*`, `user_epoch:*`, cookies | login, refresh, logout, logout-all, JWT check, cleanup |
| Signup, cookies, CSRF, auth errors, config | `controllers/auth.py`, `cookies.py`, `csrf.py`, `exceptions.py`, `config.py` | none (signup: one INSERT) | stateless |
| Database layer, migrations | `app/core/db.py`, `models.py`, `alembic/` | engine, schema | `db_dep`: a Session per request, rolled back on close |
| Stack detection | `app/pipeline/detect_stack.py` | none; a detection in memory | list a tree, read its manifests, suggest skills |
| Layers 0 to 2, analysis | `static_analyzer.py`, `dep_scanner.py`, `ast_analyzer.py`, `analyze.py`, `runners/` | none | dispatch of external tools with timeouts |
| Layer 3, AI review | `ai_reviewer.py` | none | parallel LLM calls merged with findings |
| Skill library | `skills.py`, `llm_client.py` | `_CATALOG`, `_EXTERNAL_INDEX`, `skills_cache/` | prepull at the start; list, search and fetch skills for the model |
| Layer 4, project suggester | `project_suggester.py`, `research.py` | none | query derivation, searches, ranking, suggestion |
| Gradio: full review | `app.py` (`full_review_stream`) | a temporary clone, the page | clone, Layers 0 to 4, streaming |
| Gradio: chat and stack review | `app.py` (`_tool_loop_stream`, `chat_fn`, `review_project_stream`) | the locals of a turn | tool loop with streaming |
| Evaluation | `evals/eval.py` | results in memory until they are saved | calls with tools and retries, votes, metrics, a judge |
| Scripts | `scripts/cli.py`, `scripts/` | none | offline reports |

**How they interact.** A POST inserts a `suggestion_jobs` row, pushes its id to
Redis and commits. A worker pops an id, claims the row with one conditional
UPDATE, runs Layer 4 and writes the outcome; on boot it first revives rows that
have been `running` for ten minutes and pushes every `queued` id again. Clients
poll with GET. All of these, and logout-all, sit behind `get_current_user`, which
checks an access JWT against two Redis keys that refresh, logout and logout-all
write. Each request has a Session whose uncommitted work is rolled back when the
request ends; Redis writes are never rolled back. The tabs of the Gradio process
run in threads; the tools that their models call share the index of external
skills and the files under `skills_cache/`, without locks. The evaluation starts
with the same `skills.init()` and offers the same tools.

**What is hard.** The queue: two stores without a common transaction, duplicate
and lost ids, a partial unique index on which one transaction waits for another,
crashes between any two steps, recovery beside live workers. The sessions: row
locks, DELETE snapshots that miss rows inserted while the DELETE waits, a
rollback that undoes half of what a request did, TTLs measured against each
other. The pipelines: parallel calls of which some fail, answers that are no
JSON or claim what no tool said, overlapping searches, a generator that is closed
half way. The tools: a global that one thread empties while others read it, files
that are empty between being opened and being written, a model that must be made to
search before it answers. The evaluation: retries that must not inherit what the
failed attempt said, failed calls that still vote, one odd answer among hundreds
before anything is saved. The line of each hazard is in `PROJECT.json`.

**What makes each part correct.** Queue: one active job per user; a job is
acted upon only if its POST was answered 201; one runner at a time; outcomes are
final; no signal is wasted; every accepted job finishes. Sessions: a refresh
token is exchanged at most once; at most one live token per family; an ended
session has no rows and no accepted JWT; a limit on sessions; requests end. The
pipelines: the model never decides a severity or invents a source that is shown;
a failing tool, search or call costs only its own results; nothing stays on the
disk; every run ends with an answer on the page. Skills: what is listed is there, a
cut-off file has a writer or a crash to blame, a search finds every match or the best
up to its limit, an answer keeps to the cap, the suggested skills are those for the
versions asked for. The tabs: the model is sent back only for a search it has not made
and while a round is left for it, once if the provider does what it is told; every turn
ends.
The evaluation: a verdict counts every call, retries start clean, failures lose
nothing.

## 2. Modules

| Module | What it is |
|---|---|
| `JobLifecycle` | what the queue promises: statuses seen by GET, attempts under way, six actions |
| `JobQueue` | the web process, Postgres, Redis and the workers, step by step |
| `JobQueueProofs` | theorems about `JobQueue` |
| `MCJobQueue` | instances for TLC (user ann with two POSTs, user bob with one) |
| `AuthSessions` | the sessions of one user and overlapping requests |
| `AuthSessionsProofs` | theorems about `AuthSessions` |
| `SessionEndProofs` | theorems about the end of a session and the limit, for one request at a time |
| `MCAuthSessions` | instances for TLC (up to three families of up to three tokens) |
| `Review` | Layers 0, 1 and 3: tool runs, parallel calls to the model, their merge |
| `Suggest` | Layer 4: research, ranking, the suggestion and its citations |
| `FullReview` | one run of `full_review_stream`, composed of `Review` and `Suggest` |
| `FullReviewProofs` | theorems about `FullReview` and its parts, and about what the sorts of Layer 4 return |
| `MCFullReview` | an instance for TLC |
| `SkillCatalog` | the index and the files of the external skills, used by several threads |
| `ToolLoop` | the loop in which a model calls tools, one per tab; extends `SkillCatalog` |
| `StackDetect` | one detection of a repository's frameworks and the skills suggested for it |
| `Assistant` | chats and a stack review in one process, composed of `ToolLoop` and `StackDetect` |
| `AssistantProofs` | theorems about `Assistant` and its parts |
| `MCAssistant` | an instance for TLC |
| `SkillCache` | the registered skills: `init()`, the files on disk, `fetch_skill` |
| `SkillCacheProofs` | lemmas about `SkillCache`: its invariant, and what `Fetched` bounds |
| `Evaluation` | `cmd_full` of the evaluation, over `SkillCache` |
| `EvaluationProofs` | theorems about `Evaluation` |
| `MCEvaluation` | an instance for TLC |
| `NumberProofs` | lemmas that the proofs share: induction and recursion over 0..n, tuples in lexicographic order, the ranks of a sort |

Operators whose comment begins with "Mutant" are plausible bugs of the
definition that follows them; substituting one makes TLC refute a property.

### JobQueue

| State | Code |
|---|---|
| `status`, `filled` | committed `suggestion_jobs` rows: the status, and which nullable columns hold a value |
| `stale` | rows whose `started_at` is older than `STALE_THRESHOLD` |
| `queue` | the Redis list, in BRPOP's order (`LPUSH` appends) |
| `web[j]` | how far the POST for id j has come, or its status code |
| `pc[w]`, `held[w]` | where `main` / `recover_orphans` / `process_job` of worker w stand and the ids in its memory |
| `stopping` | workers whose `_running` is False |
| `disruptions` | how many failures have happened (bounded) |

Transactions are split where another process can tell: the INSERT (visible to
the unique index only), the LPUSH and the COMMIT of a POST are three steps
(`Insert`, `Push`, `Commit`; on a RedisError `PushFails`, `CommitFailure`), as are
the UPDATE, the SELECT and each LPUSH of recovery (`Revive`, `SelectQueued`,
`Requeue`), and BRPOP and the claim (`Pop`, `Claim` / `Skip`). `IndexWaits` is the
wait of a duplicate key on an open transaction; `AnswerConflict` is the lookup
after the rollback, which answers 409, or 500 when `scalar_one()` finds no active
row any more. `PostgresFails` and `RedisFails` follow the `except` clauses of
`main`: an exception in recovery ends the process, one in the loop is logged and
costs the popped id or the outcome. Time is one fact per row, `Age`: a run still
under way gets older than the threshold only for a job in `SlowJobs`.

`JobLifecycle` sees `status` and the attempts (`Attempts`: who is inside
`run_layer4_sync`). `ImplementsLifecycle` is the refinement.

### AuthSessions

| State | Code |
|---|---|
| `row`, `born`, `parent` | committed `refresh_sessions` rows: `used_at`, `created_at` (and `expires_at`), `parent_id` |
| `revokedUntil`, `epoch` | the Redis keys with their expiry |
| `issued`, `access` | refresh tokens and access JWTs that some browser was given |
| `at[r]`, `op[r]` | where request r stands, its endpoint |
| `hold[r]`, `gone[r]` | rows its transaction has locked, and deleted |
| `visit[r]` | the rows its running DELETE saw when the statement began |
| `fams[r]`, `denied[r]` | families it revokes, and those already on the denylist |
| `fresh[r]` | the row it has inserted and committed |
| `ended` | history: families whose revocation was committed |

One user is enough: no statement and no key of one user touches those of
another. `LockUnused` / `LockUsed` are the SELECT ... FOR UPDATE of `rotate`,
`Rotate` the rest of it with the COMMIT, `Mint` the response (with /refresh's
second lookup), `Raise` the ReuseDetected that leaves the endpoint before its
commit. `StartDelete` fixes the rows a DELETE sees, `Delete` happens when every
row it needs, children for ON DELETE SET NULL included, is unlocked; rows gone
meanwhile are skipped and rows inserted meanwhile are missed, as READ COMMITTED
does. `Delete` takes all locks at once: a DELETE that already has some of them
only makes others wait longer. Within one login the evicted families are
deleted in a fixed order rather than by age (which of them are evicted is decided
by age). `Deny` and `Bump` are the Redis writes, `Commit` and `Create` make the
deletes visible, `Fail` is any error, crash or lost response, `Victim` Postgres's
deadlock detector. Requests that find nothing to do (401, or a logout without a
row) change nothing and are not steps. Ids never run out in the program; in an
instance they do, so `FamilyLeft` and `TokenLeft` keep requests from starting
that would need one more.

### Review, Suggest, FullReview

| State | Code |
|---|---|
| `status`, `found` | `tool_status` and the findings (id and severity) of the tools run so far |
| `call`, `answer` | how far each `_chat_json` of `run_layer3` is, and what call C returned |
| `layer3` | `Layer3Result` |
| `place`, `left`, `terms` | where `run_layer4` stands, the searches `research_jd` has left, whether there are domain terms |
| `candidates`, `sources`, `suggestion` | the lists of `research_jd` and the merged suggestion |
| `returned` | history: every hit of a search that succeeded |
| `stage`, `jd` | where the generator stands, whether there is a job description |
| `tmp`, `page` | the directory of the clone; what was yielded as a result or an error |

`RunTool` is one runner: skipped, tripped over, or with any findings of its own.
The calls of Layer 3 end in any order (`Reply`, `ReplyInvalid`, `ReplyRaises`),
and `Merge` is the code after `asyncio.gather`, with its three indices and the
rule that the model decides no severity. A finding's id is not unique, and the
dictionary keeps the last of a list sorted by falling severity: `SeverityOf`.
`Derive`, `Search`, `SearchFails` and `Rank` are `research_jd`; `Ask` is the
suggestion with `_merge_sources_into_suggestion`. A reply that is no JSON is asked
for once more (`DeriveInvalid`, `AskInvalid`). Invalid shapes inside a JSON reply
are read as absent where the code checks them and raise where it does not
(`Trips`, `StepRaises`, `ShowSuggestion`). `FullReview` runs the parts as stages,
and a part's variables return to their initial values when its stage is over, as
locals do. `Close` is Gradio closing the generator at a yield; yields with nothing
between them are one. `Review` and `Suggest` have no constant or variable in
common, so `FullReview` takes both with EXTENDS.

### SkillCatalog, ToolLoop, StackDetect, Assistant

| State | Code |
|---|---|
| `up`, `index` | whether `skills.init()` has returned; `_EXTERNAL_INDEX` |
| `file[f]` | a file under `skills_cache/`: missing, cut off or whole |
| `doing[t]`, `op[t]`, `name[t]`, `hits[t]` | where the tool call of a thread stands, which it is, the name it asks for, what its search has found |
| `spoiled`, `torn` | history: a load failed during the call; files cut off by a crash |
| `place[t]`, `step`, `called`, `fetched`, `force`, `calls` | where `_tool_loop_stream` stands, and its locals |
| `rewinds`, `use` | history: how often the model was sent back; what a tab does in this behaviour (bound) |
| `stage`, `left`, `frameworks`, `majors`, `suggested` | where `detect` stands, package.json files still to read, what was found |
| `asked` | history: the major versions asked for |

The steps of `SkillCatalog` are as fine as another thread can tell: each reading of
the global `_EXTERNAL_INDEX` (`Check`, `CheckMember`, `Member`, each scan of a
search), the assignment to it (`ReadCache`, `Download`, `DownloadFails`), and the
opening and the filling of a file (`OpenIndex`, `FillIndex`, `OpenSkill`,
`FillSkill`). `Die` loses the memory and keeps the files. Names are sorted by
`Position`, and `Cut` is the slice that ends a search: the hits that begin with the
query, then those that contain it, each in order, up to `Limit` (20) or, for the closest
matches of a name that is no member, `ClosestLimit` (10). In `ToolLoop`, a reply is
an answer or a list of calls (`Answer`, `Rewind`, `CallTools`), the calls return in
order, and `Close` is Gradio closing the generator at a yield. After a rewind the
request carries `tool_choice`, and the loop takes whatever comes back: from a provider
that honours it searches (`Forced`), from one that ignores it anything, another answer
included, which is sent back again or taken by the same conditions as the first.
`fetched` is set by any return of `fetch_skill`, an ERROR too, and the rewind is only
made while a round is left after it, as in the code. An answer discarded by the rewind
in the last round but one is not replaced when the forced search uses up the rounds: the
loop then ends with its message about the limit, which is an end of a turn here.
`StackDetect`
chooses the contents of a tree and of each package.json when they are read; a skill
is the framework it is for. `Assistant` adds the tabs: `StartChat`, `StartReview`
with the detection and the key files before the loop, and what each does when the
browser goes away or the process dies.

### SkillCache, Evaluation

| State | Code |
|---|---|
| `boot`, `todo`, `paths`, `listed`, `building` | where `init()` stands and the locals of `prepull_skills` |
| `catalog`, `disk` | `_CATALOG`; the files under `skills_cache/` |
| `phase` | where `cmd_full` stands |
| `attempt`, `messages` | the attempt of `call_model` and its messages after the prompts, by the attempt that wrote them |
| `results`, `report`, `sample` | the results of `run_eval`, `compute_metrics` by dimension, what the judge has left |
| `answers`, `judged` | history: how each call ended; whether a judgement that cannot be averaged was made |

`SkillCache` keeps the lengths of the texts, because `fetch_skill` cuts them to a
cap: `Fetched` is its loop over the blocks, a recursive function of the number of
blocks read, and `Kept` filters a list of paths by counting. A download that exists is never fetched
again, whatever is in it; a local copy is compared with its source. In `Evaluation`,
`AttemptFails`, `Retry` and `CallFails` are the loop of `call_model`, `Record` the
row that every call leaves, `Vote` the aggregation with the metrics, and `VoteRaises`
what happens when a `has_issue` cannot be added up. `Judge` and `JudgeOdd` are one
judgement; `Save` is the end of `cmd_full`, the only place where anything is written.

## 3. Runs

All passing runs explore the complete state space of their instance.

| Run | Instance | Shows |
|---|---|---|
| `queue_safety` | 2 workers, 3 jobs of 2 users, one disruption of any kind, runs shorter than the threshold; symmetry of ann's jobs and of the workers | all safety properties of the queue, and `ImplementsLifecycle` |
| `queue_liveness` | 1 worker, 2 jobs of one user, one of them slow, three disruptions of any kind | every POST is answered, a signalled job completes, a boot resumes lost jobs |
| `queue_early_pop` (violation) | 1 worker, no disruption | a worker pops the id before the COMMIT: the accepted job is not run before the next boot |
| `queue_killed_worker` (violation) | 1 job, one crash | the restarted worker does not revive a job younger than the threshold, and recovery runs only at boot |
| `queue_scaled_slow` (violation) | 2 workers, a slow job | a second worker's boot revives the job of the first |
| `sessions_one_family` | 2 requests, 1 family of 3 tokens, failures | one live token per family, rotation never forks, no revocation bypasses Redis, requests end, deadlocks of two reuse detections included |
| `sessions_sequential` | 1 request at a time, limit 1, time passing every TTL | an ended session has no rows and its JWTs are refused until their `exp`; the limit holds |
| `sessions_logout_race` (violation) | a logout beside a refresh | the row inserted by the refresh survives the logout |
| `sessions_reuse` (violation) | one token presented twice | the DELETE of a reuse detection is rolled back |
| `full_review` | one review: 2 tools with one finding id each of 2 severities, 3 URLs with 3 relevances, up to 4 searches of one hit, 2 sources at most, one citing feature; every failure | severities, results, sources and citations are right, the clone is removed, the page gets an answer |
| `assistant` | two chats of one round each that share three external skills, of which two fit a search, or one stack review of up to 4 rounds with every tool and a provider that honours or ignores `tool_choice`; 2 package.json files, 2 frameworks; one crash; every failure | searches find the best matches, cut-off files are accounted for, the model is sent back only for a missing search, the suggested skills fit, every turn ends |
| `evaluation` | a local and a downloaded skill of 3 files, 2 cases with 2 calls each, 2 attempts, 1 round of tools, one restart; every failure | the catalog matches the disk, answers keep to the cap, retries start clean, verdicts count all calls, failures lose nothing, an evaluation ends |

The violations are disagreements between the code and a sentence of the design
documents; `PROJECT.json` quotes them under `findings`.

**Bounds.** `MaxDisruptions` bounds failures: one suffices for every
pairwise interleaving of a failure with two workers, and the liveness run takes
three in a row. Two POSTs of one user are what the index, the 409 path and the
slot need; the third job makes the workers' duplicates and skips independent of
them. Every id is used by one POST. Two requests are the smallest race, and three
generations the smallest family with two used tokens (the deadlock) beside a live
one. `MaxTime` bounds the clock; the TTLs are small numbers in the order of the
real ones except that the refresh TTL is short, so that expiry and cleanup
happen. The concurrent session instance stands still in time. In `full_review`,
four searches over three URLs overlap, two severities per id make ids ambiguous,
and with two places for three URLs the cap and the ties of the ranking decide
what can be cited; the model may cite one id more than there are sources. In
`assistant`, two threads are the smallest race for the index and for one file, and
one crash leaves every kind of torn file to the next process; a chat of one round has
every tool call, and the review's four rounds (`MAX_TOOL_ITER`) leave one before the
rewind, one for it, one after it and one that is too late for it, or two rewinds in a
row if `tool_choice` is ignored. Of three external skills two match inside the name and
the last by its beginning, so that a page of two leaves one out, an empty query another
one, and the order of the two lists decides which. Versions 1 and 2
are below and at a minimum of 2, and two files of three sections are what the order
of reading and of merging can depend on. In `evaluation`, the cap lies at the end of
the first block of the downloaded skill, two calls make 0, 50 and 100 % of votes,
two attempts are one retry, and a case with and one without an issue make each of
the four counts.
Deadlock checking is off because the system may stop: users may send no more
requests, ids are finite, and a review ends.

**Fairness.** `JobQueue`: weak fairness of each POST in progress (uvicorn and
Postgres finish what they started), of each worker's next step (the loop runs,
and Docker restarts the container, `restart: unless-stopped`), and of the passing
of time. Failures and the arrival of POSTs are not fair. `AuthSessions`: weak
fairness of each request's steps, and strong fairness of `Delete`, because
Postgres gives a row lock to its waiters in order; without it, requests that come
again and again could keep a DELETE waiting for ever. `FullReview`: weak fairness
of the generator's progress, because git, the tools, the searches and the model's
API are called with timeouts; that a browser closes the page is not assumed.
`Assistant`: weak fairness of each tab's progress, for the same reason (the model's
API, GitHub and the downloads have timeouts); users, browsers, crashes and the next
start of the process are not fair, so `EveryTurnEnds` holds without them.
`Evaluation`: weak fairness of its steps, whose requests have timeouts and whose
pauses end; nobody has to start it.

## 4. Proofs

TLAPS checks these for every value of the constants: any sets of jobs, users,
workers, requests, families, tokens, any failures and TTLs.

* `JobQueueProofs`: `TypeCorrect` (with what each worker holds at each place);
  `OneActive`; `RowsHaveOrigins` and `AcceptedJobsOnly`; under the constant-level
  assumption `Deployment` also `Exclusive`, `OneRunner`, `RunnerKeepsRow`,
  `ConsistentRows`, `FinalOutcome` and `Refinement`; `KeptSignal` without it.
* `AuthSessionsProofs`: `TypeCorrect`; `TableInvariant`, `OneLive`, `NoFork`;
  `Denied`; `RequestsRunDown` (for finitely many families), `WaitsResolve`.
* `SessionEndProofs`, for users whose requests come one after the other
  (`OneAtATime`): `EndedGone`, `EndedDenied`, `LimitHolds`.
* `FullReviewProofs`: `TypeCorrect`, `CloneGone`, `SeverityStays`, `ResultsStay`,
  `BestSources`, `CitationsStay`; `ReviewRunsDown`.
* `AssistantProofs`: `TypeCorrect`, `Searched`, `PartsWritten`, `SearchComplete`,
  `SuggestionFits`; `TurnsRunDown`.
* `EvaluationProofs`, with `SkillCacheProofs`: `TypeCorrect`, `CatalogIsThere`,
  `AnswersCapped`, `RetriesClean`, `VerdictsRight`, `FailuresKept`;
  `EvaluationRunsDown`.

Every invariant and every action property that a passing run checks is the
statement of one of these theorems.

*Arguments.* `OneActivePerUser` is inductive in the form TLC checks, because it
counts open transactions as well as active rows: an INSERT is refused for the one
and waits for the other. `OnlyAcceptedJobsRun` is not inductive; `RowOrigin` adds
what each stage of a POST says about its row (no row before the COMMIT, `error`
after a 503), and every worker step starts from a row that is `queued` or
`running`. `AtMostOneRunner`, `RunnerHoldsRow` and the finality of outcomes need
each other and one more fact, that a row with a runner is never stale: that is
`RunnerInv`. It holds when no run outlasts `STALE_THRESHOLD`, or when there is
one worker, which cannot boot while it runs a job; `Deployment` says that, and
`queue_scaled_slow` shows that it is needed. docker-compose.yml fixes the
worker's `container_name`, so the deployment in the repository has one worker.

`ShownIsConsistent` compares the columns of GET with those of the design
(`Documented`), except for the two times of an error, where the code differs from the
design (section 5) and the property says what it does. `ConsistentRows` follows from `RowColumns`, the columns
that each status has. The
terminal UPDATE of a worker names the id alone and would add an outcome to whatever
row it met, so its step needs `RunnerInv` (the row is still `running`) and
`RowOrigin` (its POST was answered 201, which tells a worker's error from a POST's).

`OneLiveToken` and `RotatedOnce` need to know what row locks do: `LocksExclude`,
`GoneIsHeld` (a transaction deletes only rows it has locked) and
`RotatingIsUnused` (the row read by FOR UPDATE stays unused until the rotation
commits). Together they are `RowInv`. `Denied` (`RevocationReachesRedis`) is by
`DenyInv`, what each request has behind it at each of its places: a transaction
about to commit has denied every family it deletes, or has bumped the epoch.

`EndedGone` and `EndedDenied` share `EndInv`, which follows the families of a
revocation: the DELETE has seen all their rows, the transaction has deleted what is
left of them (`Covers`), and the denylist outlasts every JWT already minted
(`Outlasts`). A family that a login has used up (`Born`) is never taken again, so
nothing is added to an ended one. `LimitHolds` counts with `Counted` the live rows
and the row a rotation has locked, which may expire before the rotation commits, and
with `Staying` what a login will leave: at most `SessionLimit - 1`, since it evicts
whole families. The assumption is needed: `sessions_logout_race` shows a logout that
misses the row a refresh is inserting, and two logins count the same sessions. The
clock, the cleanup script and failures at every step are part of these theorems.

`CloneIsRemoved` follows from the places where a clone can exist. `SeverityStays`
needs that a merge finds a severity for every known id (`SeverityExists`: the
lowest one the tools gave it, which exists because a set of naturals has a least
element) and that no tool runs between the merge and the page. `ResultsStay`
needs that the calls are over when they are merged and stay so, and that call B
was made exactly when there is a job description. `CitesOnlySources` is inductive:
the sources do not change between the merge and the page.

`SourcesAreBest` starts from what a sort is: `Listed` takes the element with n - 1
elements before it, and `RankTaken` shows that there is one for every n, because
the ranks of a finite set under a strict linear order are an injection into 1..N
(`RankOrders`, in `NumberProofs`), and so onto it. `FirstSeenLists` and `RankedLists` say which positions
the two sorts of `Suggest` return, and `MoreHits`, that deduplicating after every search
keeps the first of all hits of each URL, in order (`Represents`). `RankedIsBest` carries
the ranking over from the candidates to everything the searches returned.

`SentBackToSearch` is about what the loop does with any reply. That every rewind leaves
a round (`rewinds < step`) needs that tools have been called in a round before the first
one, and each takes another; `TurnOK` says so, and `Obeyed` what follows if the provider
honours `tool_choice`: the forced reply is a search, and its round is over when it has
returned. `PartsHaveWriters` and `SearchFindsBest` are invariants of many threads over
one index: `CatalogInv` says at every place of a call what it may rely on, and the lemmas
show that a step of one thread keeps it for all the others.
A search that saw the index empty is one during which a load failed (`spoiled`), and
every load either assigns the whole index or spoils the searches under way. That what is
cut from the whole is a first page, full unless nothing is left out, is `CutIsFirst`, by
counting ranks (`FirstCount`).
`SuggestedSkillFits` needs that `majors` is the greatest version in `asked` after
every file, whatever the order (`StackInv`).

`VerdictCountsAnswers` compares counts of results with counts of calls: `Agrees`
says that the two sequences grow together and vote alike, `RunsPerCase` that every
case has exactly `Runs` of the indices (which takes the division of `CaseOf` apart),
and `VerdictOfCase` joins them. `AttemptsStartClean` and `FailuresAreKept` come with
the same invariant, `EvalInv`.

`CatalogMatchesDisk` and `AnswersAreCapped` need induction over a list of files. The
library's principles of induction quantify over operators, which the provers cannot
instantiate; `NumberProofs` therefore derives one about sets (`Induction`: a set that
holds 0 and, with every number, the next one, holds all of 0..n) from the library's
least-element theorem, and from it that functions defined by recursion over 0..n
exist and satisfy their equations (`Recursion`). With these `SkillCacheProofs` shows
that the files a skill is listed with are its files on the disk (`OnDiskIsThere`), and
that what `Fetched` adds up keeps to the cap after every block (`FetchedCapped`). Its
invariant `CacheInv` says what each place of `init()` has listed so far.

*Why things end.* That a process comes to an end has two halves: it cannot go on
for ever, and it is not left standing. The first is proved. `ReviewRunsDown` counts
the steps that a review has left; the bound on its searches (`SearchesBounded`) is an
invariant. An evaluation and a turn have loops in loops, so `EvaluationRunsDown` and
`TurnsRunDown` lower a tuple of five numbers in lexicographic order, in which no
descent is endless (`LeastTuple`): of a turn, detection before the loop, the rounds
and package.json files left, whether the model has still to reply, the calls of the
reply and the steps of the call. A tool call is given a rank by where it stands
(`Rank`): a fetch of a name that is no member goes on as a search. `TurnsRunDown` says
moreover that no other tab raises the tuple, although the tabs empty and reload the
index that the steps of the call depend on; it is by an invariant of places
(`TabsInv`). `RequestsRunDown` is the same for the requests of `AuthSessions`, whose
waiting `WaitsResolve` describes: if nothing can move, every request that is under way
waits for a lock that another one under way holds (`NobodyStuck`), which is the circle
that Postgres's deadlock detector (`Victim`) breaks. It needs `SupplyInv`: a
rotation under way has an id left to use, and a request that writes the denylist a
family left to write.

*Only model-checked*: the second half. The liveness properties (`EveryPostAnswered`,
`SignalledJobCompletes`, `BootResumes`, `RequestsEnd`, `EveryReviewEnds`,
`EveryTurnEnds`, `EveryEvaluationEnds`) speak of fairness and so of ENABLED, which is
beyond the prover. Of the queue's there is no measure to prove either: a crash may put
a job back any number of times.

## 5. Not modelled

The AST walker, the pattern tables of the stack detection and the parsers of tool
output are stateless text processing. Cookies, CSRF and configuration are stateless.
`cli.py` and the other scripts call the same functions and print. What jobs
compute, and the wording of errors, are abstracted to outcomes. Of the pipeline, the
GitHub stacks of sources, pain points, token counts (`_chat_json` reports those of
its last attempt only) and the files that `log_run` writes are left out: nothing reads
them back but the evaluation. Of the evaluation, the rounded quotients, severities,
latencies and printing are left out. Names that a model gives a file of a local skill
(`fetch_skill` with a path) read the disk and change nothing.

Facts about the code met while modelling that no property states:

* The comment at `skills.py:131` says that a failed network falls back to the cache
  directory. That holds for an HTTPError; a URLError that is none (no connection)
  leaves `init()`, and with it the import of `app.py`: `InitRaises`.
* A SKILL.md that a crash cut off is served as it is from then on; nothing compares
  it with its source. `PartsHaveWriters` allows it, with the crash as its cause.
* The denylist entry of a family lives for the TTL of an access JWT, while the
  decoder grants the JWT ten seconds of leeway more.
* `eval.py:36` puts `src` on the path, where `skills.py` no longer is: the
  evaluation needs `app/pipeline` on it as well.
* An evaluation without any judgement leaves the `eval_judge.csv` of an earlier one
  beside its own results.
* Two logins that count the sessions at the same time exceed the limit by one.
* The comment at `app.py:114` ("Enforce step 2") holds as far as the provider honours
  `tool_choice`. One that does not, which the loop has no test for (`llm_client.py:23`
  admits any server that speaks Ollama's API), can answer every forced round: the loop
  sends it back until the last round and then takes the answer without a search.
* A search returns at most 20 names and does not say that there are more.
* The answers of GET for an error are not the documented one. The queue design
  (`2026-05-23-suggestions-queue-design.md`, lines 186 to 189) shows `finished_at` and
  `error` and no `started_at`, and its tests ask that the "Response shape matches the
  four documented states" (line 410). The row of a POST whose LPUSH failed gets `status`
  and `error` but no `finished_at` (`queue.py:41`), and a job that failed in the worker
  shows the `started_at` of its claim besides (`runner.py:43`). `ShownIsConsistent`
  states what the code does, both times or neither, and `RowColumns` in
  `JobQueueProofs` which of the two rows has which.

## 6. Plan

1. Done: `JobLifecycle`, `JobQueue`, their runs and theorems.
2. Done: `AuthSessions`, its runs and theorems; `Review`, `Suggest` and
   `FullReview`, their run and theorems.
3. Done: `SkillCatalog`, `ToolLoop`, `StackDetect`, composed as `Assistant`, with a
   run and theorems.
4. Done: `SkillCache` and `Evaluation`, with a run and theorems.
5. Left: composition of `AuthSessions`' acceptance of a JWT as the guard of
   `JobQueue`'s POST (a session ended while a POST is under way), and of `Suggest` as
   the attempt that `JobQueue` leaves open. Both are composed at present through what
   they promise: a POST that was admitted, an attempt that ends in an outcome.
6. Done: `SessionEndProofs` (the end of a session and the limit, for one request at a
   time), `SkillCacheProofs` and `NumberProofs`, and the theorems on why reviews,
   evaluations, turns and requests end.
7. Left to prove: that without a disruption the queue takes finitely many steps for
   each id (a measure like those of the other components, over jobs and workers).
