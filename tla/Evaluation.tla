------------------------------ MODULE Evaluation ------------------------------
(***************************************************************************)
(* evals/eval.py, cmd_full: every test case is put to the model Runs       *)
(* times, with tools and retries (call_model); the answers of a case vote  *)
(* (aggregate_runs), the verdicts are counted per dimension                *)
(* (compute_metrics), a sample is judged (run_judge), and only then is     *)
(* anything saved.                                                         *)
(*                                                                         *)
(* One model is evaluated, as in MODELS.  Severities, latencies, rounded   *)
(* quotients and what is printed are left out.  The module needs skills.py *)
(* on the path.                                                            *)
(***************************************************************************)
EXTENDS SkillCache, FiniteSetsExt

CONSTANTS
    Cases,           \* the test suite, in order
    Flawed,          \* the cases whose ground truth is an issue
    DimensionOf,     \* per case its dimension
    Runs,            \* RUNS_PER_CASE
    MaxRetries,      \* attempts of a call
    MaxToolRounds,   \* MAX_TOOL_ITERATIONS
    Sampled          \* the judge reads one result in Sampled

ASSUME EvaluationAssumption ==
    /\ Cases \in Seq(Range(Cases)) /\ Cases # <<>>
    /\ IsInjective(Cases)
    /\ Flawed \subseteq Range(Cases)
    /\ DOMAIN DimensionOf = Range(Cases)
    /\ Runs \in Nat \ {0} /\ MaxRetries \in Nat \ {0}
    /\ MaxToolRounds \in Nat \ {0} /\ Sampled \in Nat \ {0}

VARIABLES
    phase,           \* where cmd_full stands
    attempt,         \* failed attempts of the call at hand
    messages,        \* its messages after the prompts: per tool round, the attempt it is of
    results,         \* the results so far
    report,          \* metrics_df, by dimension
    sample,          \* results the judge has still to read
    answers,         \* history: how each call ended
    judged           \* history: a judgement that cannot be averaged was among the rows

evalVars == <<phase, attempt, messages, results, report, sample, answers, judged>>
vars     == <<cacheVars, evalVars>>

-----------------------------------------------------------------------------
Phases     == {"off", "init", "calling", "tools", "paused", "voting", "judging", "saved", "lost"}
Dimensions == Range(DimensionOf)
Counts     == {"TP", "FP", "FN", "TN"}
NoReport   == [d \in Dimensions |-> [c \in Counts |-> 0]]
Total      == Len(Cases) * Runs

\* Contents of an answer: has_issue true; false, not there or nothing at all; no JSON; a
\* list or another value that has no get; an object whose has_issue is null or a text.
Contents == {"issue", "clean", "no JSON", "list", "odd"}

EvalInit ==
    /\ phase = "off"
    /\ attempt = 0
    /\ messages = <<>>
    /\ results = <<>>
    /\ report = NoReport
    /\ sample = {}
    /\ answers = <<>>
    /\ judged = FALSE

Init == CacheInit /\ EvalInit

NothingEvaluated(where) ==
    /\ phase' = where
    /\ attempt' = 0
    /\ messages' = <<>>
    /\ results' = <<>>
    /\ report' = NoReport
    /\ sample' = {}
    /\ answers' = <<>>
    /\ judged' = FALSE

-----------------------------------------------------------------------------
(***************************************************************************)
(* skills.init().                                                          *)
(***************************************************************************)
Start == phase = "off" /\ StartInit /\ NothingEvaluated("init")

BootSkills == phase = "init" /\ CacheStep /\ UNCHANGED evalVars

Booted ==
    /\ phase = "init" /\ boot \in {"ready", "raised"}
    /\ phase' = IF boot = "ready" THEN "calling" ELSE "lost"
    /\ UNCHANGED <<cacheVars, attempt, messages, results, report, sample, answers, judged>>

-----------------------------------------------------------------------------
(***************************************************************************)
(* run_eval and call_model.  The results come case by case, Runs of each.  *)
(***************************************************************************)
CaseOf(i) == Cases[((i - 1) \div Runs) + 1]

\* has_issue_predicted, as aggregate_runs will add it up.
VoteOf(content) ==
    CASE content = "issue" -> "yes"
      [] content = "odd"   -> "neither"
      [] OTHER             -> "no"

\* parse_error; for a list, parsed.get has raised.
Unreadable(content) == content \in {"no JSON", "list"}

\* Mutant: has_issue keeps the value of the run before when the call has failed.
FailureStale ==
    [vote |-> IF results = <<>> THEN "no" ELSE Last(results).vote, error |-> TRUE]

\* A call that failed counts as "no issue".
Failure == [vote |-> "no", error |-> TRUE]

Record(result, how) ==
    /\ results' = Append(results, result)
    /\ answers' = Append(answers, how)
    /\ phase' = IF Len(results) + 1 = Total THEN "voting" ELSE "calling"
    /\ attempt' = 0
    /\ messages' = <<>>
    /\ UNCHANGED <<cacheVars, report, sample, judged>>

\* The request offers tools until MaxToolRounds rounds have been made.
UseTools ==
    /\ phase = "calling" /\ Len(messages) < MaxToolRounds
    /\ phase' = "tools"
    /\ UNCHANGED <<cacheVars, attempt, messages, results, report, sample, answers, judged>>

ToolsReturn ==
    /\ phase = "tools"
    /\ messages' = Append(messages, attempt)
    /\ phase' = "calling"
    /\ UNCHANGED <<cacheVars, attempt, results, report, sample, answers, judged>>

Answer(content) ==
    /\ phase = "calling"
    /\ Record([vote |-> VoteOf(content), error |-> Unreadable(content)], content)

\* Mutant: one attempt too many.
AttemptFailsOnceMore ==
    /\ phase \in {"calling", "tools"} /\ attempt < MaxRetries
    /\ attempt' = attempt + 1
    /\ phase' = "paused"
    /\ UNCHANGED <<cacheVars, messages, results, report, sample, answers, judged>>

\* Mutant: attempts are not counted.
AttemptFailsUncounted ==
    /\ phase \in {"calling", "tools"}
    /\ phase' = "paused"
    /\ UNCHANGED <<cacheVars, attempt, messages, results, report, sample, answers, judged>>

\* A request or a tool raises: the next attempt comes after a pause.
AttemptFails ==
    /\ phase \in {"calling", "tools"} /\ attempt + 1 < MaxRetries
    /\ attempt' = attempt + 1
    /\ phase' = "paused"
    /\ UNCHANGED <<cacheVars, messages, results, report, sample, answers, judged>>

\* Mutant: the attempt goes on with the messages of the one before.
RetryAppended ==
    /\ phase = "paused"
    /\ phase' = "calling"
    /\ UNCHANGED <<cacheVars, attempt, messages, results, report, sample, answers, judged>>

\* The messages are copied anew from base_messages.
Retry ==
    /\ phase = "paused"
    /\ messages' = <<>>
    /\ phase' = "calling"
    /\ UNCHANGED <<cacheVars, attempt, results, report, sample, answers, judged>>

\* Mutant: the exception of the last attempt is not caught.
CallFailsUncaught ==
    /\ phase \in {"calling", "tools"} /\ attempt + 1 = MaxRetries
    /\ phase' = "lost"
    /\ UNCHANGED <<cacheVars, attempt, messages, results, report, sample, answers, judged>>

CallFails ==
    /\ phase \in {"calling", "tools"} /\ attempt + 1 = MaxRetries
    /\ Record(Failure, "failed")

-----------------------------------------------------------------------------
(***************************************************************************)
(* aggregate_runs, compute_metrics and run_judge.                          *)
(***************************************************************************)
RunsOf(c) == {i \in DOMAIN results : CaseOf(i) = c}
Yes(c)    == Cardinality({i \in RunsOf(c) : results[i].vote = "yes"})

\* sum(votes) / len(votes) >= 0.6
Predicted(c) == 10 * Yes(c) >= 6 * Cardinality(RunsOf(c))

Count(d, c) ==
    Cardinality({k \in Range(Cases) :
        /\ DimensionOf[k] = d
        /\ k \in Flawed <=> c \in {"TP", "FN"}
        /\ Predicted(k) <=> c \in {"TP", "FP"}})

Summable == \A i \in DOMAIN results : results[i].vote # "neither"

Vote ==
    /\ phase = "voting" /\ Summable
    /\ report' = [d \in Dimensions |-> [c \in Counts |-> Count(d, c)]]
    /\ sample' \in kSubset(IF Total < Sampled THEN 1 ELSE Total \div Sampled, 1..Total)
    /\ phase' = "judging"
    /\ UNCHANGED <<cacheVars, attempt, messages, results, answers, judged>>

\* sum() raises on a has_issue that is null or a text.
VoteRaises ==
    /\ phase = "voting" /\ ~Summable
    /\ phase' = "lost"
    /\ UNCHANGED <<cacheVars, attempt, messages, results, report, sample, answers, judged>>

\* A result that could not be read is not judged; a judge that fails, or writes no JSON,
\* gives no row.
Judge(i) ==
    /\ phase = "judging" /\ i \in sample
    /\ sample' = sample \ {i}
    /\ UNCHANGED <<cacheVars, phase, attempt, messages, results, report, answers, judged>>

\* Scores that are a list or texts, or that all lack a column, raise when they are put in
\* a row or when the rows are averaged.
JudgeOdd(i) ==
    /\ phase = "judging" /\ i \in sample /\ ~results[i].error
    /\ sample' = sample \ {i}
    /\ judged' = TRUE
    /\ UNCHANGED <<cacheVars, phase, attempt, messages, results, report, answers>>

Save ==
    /\ phase = "judging" /\ sample = {}
    /\ phase' = IF judged THEN "lost" ELSE "saved"
    /\ UNCHANGED <<cacheVars, attempt, messages, results, report, sample, answers, judged>>

\* The process ends; what was not saved is gone.
Die == phase # "off" /\ CacheDies /\ NothingEvaluated("off")

-----------------------------------------------------------------------------
EvalStep ==
    \/ BootSkills \/ Booted
    \/ UseTools \/ ToolsReturn \/ \E content \in Contents : Answer(content)
    \/ AttemptFails \/ Retry \/ CallFails
    \/ Vote \/ VoteRaises \/ Save
    \/ \E i \in 1..Total : Judge(i) \/ JudgeOdd(i)

Next == Start \/ EvalStep \/ Die

Spec == Init /\ [][Next]_vars

\* Requests and downloads have timeouts, pauses end; nobody has to start the program.
FairSpec == Spec /\ WF_vars(EvalStep)

-----------------------------------------------------------------------------
TypeOK ==
    /\ CacheTypeOK
    /\ phase \in Phases
    /\ attempt \in 0..MaxRetries - 1
    /\ messages \in Seq(Nat)
    /\ results \in Seq([vote : {"yes", "no", "neither"}, error : BOOLEAN])
    /\ report \in [Dimensions -> [Counts -> Nat]]
    /\ sample \subseteq 1..Total
    /\ answers \in Seq(Contents \cup {"failed"})
    /\ judged \in BOOLEAN

\* A retry asks with the messages of its own attempt, whatever tool rounds the failed
\* ones got through (eval.py:269).
AttemptsStartClean ==
    phase \in {"calling", "tools"} =>
        /\ \A i \in DOMAIN messages : messages[i] = attempt
        /\ Len(messages) <= MaxToolRounds

\* A case is reported as one with an issue exactly when 60 % of all its calls said so:
\* calls that failed or whose answer was no JSON stand against it (eval.py:377 and 420).
Said(c) ==
    Cardinality({i \in DOMAIN answers : CaseOf(i) = c /\ answers[i] = "issue"})

VerdictCountsAnswers ==
    phase \in {"judging", "saved"} =>
        \A d \in Dimensions :
            LET found == {c \in Range(Cases) : DimensionOf[c] = d /\ 10 * Said(c) >= 6 * Runs}
            IN /\ report[d]["TP"] = Cardinality(found \cap Flawed)
               /\ report[d]["FP"] = Cardinality(found \ Flawed)
               /\ report[d]["FN"] + report[d]["TP"] =
                      Cardinality({c \in Flawed : DimensionOf[c] = d})

\* However many calls fail, the results are lost only to a boot that raises, to an answer
\* whose has_issue cannot be added up or to scores that cannot be averaged (eval.py:377).
FailuresAreKept ==
    phase = "lost" => boot = "raised" \/ "odd" \in Range(answers) \/ judged

\* An evaluation that was started is saved or given up.
EveryEvaluationEnds == phase # "off" ~> phase \in {"off", "saved", "lost"}
=============================================================================
