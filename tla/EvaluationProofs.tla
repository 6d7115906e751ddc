--------------------------- MODULE EvaluationProofs ---------------------------
(***************************************************************************)
(* What evals/eval.py guarantees for any test suite, number of runs, of    *)
(* attempts and of tool rounds: retries start clean, calls that fail lose  *)
(* nothing but themselves, and the verdicts count every call.  The skills  *)
(* it boots are those of SkillCacheProofs.                                 *)
(***************************************************************************)
EXTENDS Evaluation, SkillCacheProofs

Answers == Contents \cup {"failed"}
Results == [vote : {"yes", "no", "neither"}, error : BOOLEAN]

Shapes ==
    /\ phase \in Phases
    /\ attempt \in Nat
    /\ messages \in Seq(Nat)
    /\ results \in Seq(Results)
    /\ answers \in Seq(Answers)
    /\ Len(results) = Len(answers)

\* Each result is that of the answer at its place.
Agrees ==
    \A i \in DOMAIN results :
        /\ results[i].vote = "yes" <=> answers[i] = "issue"
        /\ results[i].vote = "neither" <=> answers[i] = "odd"

Progressed ==
    /\ phase = "init" => messages = <<>> /\ results = <<>>
    /\ phase = "tools" => Len(messages) < MaxToolRounds
    /\ phase \in {"calling", "tools", "paused"} => Len(results) < Total
    /\ phase \in {"voting", "judging", "saved"} => Len(results) = Total

EvalInv ==
    /\ Shapes /\ Agrees /\ Progressed
    /\ AttemptsStartClean /\ VerdictCountsAnswers /\ FailuresAreKept

-----------------------------------------------------------------------------
(***************************************************************************)
(* Each case has Runs results.                                             *)
(***************************************************************************)
LEMMA Sizes ==
    /\ Len(Cases) \in Nat \ {0}
    /\ Cases \in [1..Len(Cases) -> Range(Cases)]
    /\ Runs \in Nat \ {0}
    /\ Total \in Nat \ {0}
<1>1. Len(Cases) \in Nat \ {0} /\ Cases \in [1..Len(Cases) -> Range(Cases)]
  BY EvaluationAssumption, EmptySeq, LenProperties
<1>2. Runs \in Nat \ {0}
  BY EvaluationAssumption
<1>3. ASSUME NEW n \in Nat \ {0}, NEW r \in Nat \ {0} PROVE n * r \in Nat \ {0}
  BY Z3
<1> QED
  BY <1>1, <1>2, <1>3 DEF Total

LEMMA CasesFinite == IsFiniteSet(Range(Cases))
<1>1. \A c \in Range(Cases) : \E i \in 1..Len(Cases) : Cases[i] = c
  BY Sizes DEF Range
<1>2. Cases \in Surjection(1..Len(Cases), Range(Cases))
  BY <1>1, Sizes, Fun_IsSurj
<1>3. IsFiniteSet(1..Len(Cases))
  BY Sizes, FS_Interval
<1> QED
  BY <1>2, <1>3, FS_Surjection

\* Quotients, between the multiples that enclose them.
LEMMA Quotient ==
    ASSUME NEW n \in Nat, NEW r \in Nat \ {0}
    PROVE  n \div r \in Nat /\ (n \div r) * r <= n /\ n < (n \div r) * r + r
BY Z3

LEMMA QuotientIs ==
    ASSUME NEW n \in Nat, NEW r \in Nat \ {0}, NEW q \in Nat
    PROVE  (n \div r = q) <=> (q * r <= n /\ n < q * r + r)
BY Z3

LEMMA Multiples ==
    ASSUME NEW a \in Nat, NEW b \in Nat, NEW r \in Nat, a <= b
    PROVE  a * r <= b * r /\ a * r \in Nat /\ (a + 1) * r = a * r + r
BY Z3

LEMMA RunsPerCase ==
    ASSUME NEW c \in Range(Cases)
    PROVE  /\ IsFiniteSet({i \in 1..Total : CaseOf(i) = c})
           /\ Cardinality({i \in 1..Total : CaseOf(i) = c}) = Runs
<1>1. PICK k \in 1..Len(Cases) : Cases[k] = c
  BY Sizes DEF Range
<1> DEFINE low == (k - 1) * Runs
<1>2. k - 1 \in Nat /\ low \in Nat /\ low + Runs <= Total
  <2>1. k - 1 \in Nat /\ k \in Nat /\ k <= Len(Cases) /\ (k - 1) + 1 = k
    BY Sizes
  <2>2. low \in Nat /\ k * Runs = low + Runs
    BY <2>1, Sizes, Multiples
  <2>3. k * Runs <= Total
    BY <2>1, Sizes, Multiples DEF Total
  <2> QED
    BY <2>1, <2>2, <2>3
<1>3. ASSUME NEW i \in 1..Total
      PROVE  CaseOf(i) = c <=> i \in (low + 1)..(low + Runs)
  <2> DEFINE q == (i - 1) \div Runs
  <2>1. i - 1 \in Nat
    BY Sizes
  <2>2. q \in Nat /\ q * Runs <= i - 1
    BY <2>1, Sizes, Quotient
  <2>3. q + 1 \in 1..Len(Cases)
    <3>1. CASE Len(Cases) <= q
      <4>1. Total <= q * Runs
        BY <2>2, <3>1, Sizes, Multiples DEF Total
      <4>2. q * Runs \in Nat
        BY <2>2, Sizes, Multiples
      <4> QED
        BY <2>2, <4>1, <4>2, Sizes
    <3>2. CASE ~(Len(Cases) <= q)
      BY <2>2, <3>2, Sizes
    <3> QED
      BY <3>1, <3>2
  <2>4. DOMAIN Cases = 1..Len(Cases)
    BY Sizes
  <2>5. Cases[q + 1] = c <=> q + 1 = k
    BY <1>1, <2>3, <2>4, EvaluationAssumption DEF IsInjective
  <2>6. q = k - 1 <=> low <= i - 1 /\ i - 1 < low + Runs
    BY <1>2, <2>1, Sizes, QuotientIs
  <2> HIDE DEF low, q
  <2>7. CaseOf(i) = c <=> q = k - 1
    BY <2>2, <2>5, <1>1, Sizes DEF CaseOf, q
  <2> QED
    BY <2>6, <2>7, <1>2, Sizes
<1> HIDE DEF low
<1>4. {i \in 1..Total : CaseOf(i) = c} = (low + 1)..(low + Runs)
  BY <1>2, <1>3, Sizes
<1>5. IsFiniteSet((low + 1)..(low + Runs)) /\ Cardinality((low + 1)..(low + Runs)) = Runs
  <2>1. low + 1 \in Int /\ low + Runs \in Int
    BY <1>2, Sizes
  <2>2. IsFiniteSet((low + 1)..(low + Runs))
    BY <2>1, FS_Interval
  <2>3. Cardinality((low + 1)..(low + Runs)) =
            IF low + 1 > low + Runs THEN 0 ELSE (low + Runs) - (low + 1) + 1
    BY <2>1, FS_Interval
  <2> QED
    BY <2>2, <2>3, <1>2, Sizes
<1> QED
  BY <1>4, <1>5

-----------------------------------------------------------------------------
(***************************************************************************)
(* The vote.                                                               *)
(***************************************************************************)
\* The verdict on a case is what its answers said.
LEMMA VerdictOfCase ==
    ASSUME Shapes, Agrees, Len(results) = Total, NEW c \in Range(Cases)
    PROVE  Predicted(c) <=> 10 * Said(c) >= 6 * Runs
<1>1. DOMAIN results = 1..Total /\ DOMAIN answers = 1..Total
  BY LenProperties DEF Shapes
<1>2. RunsOf(c) = {i \in 1..Total : CaseOf(i) = c}
  BY <1>1 DEF RunsOf
<1>3. Cardinality(RunsOf(c)) = Runs
  BY <1>2, RunsPerCase
<1>4. {i \in RunsOf(c) : results[i].vote = "yes"} =
      {i \in DOMAIN answers : CaseOf(i) = c /\ answers[i] = "issue"}
  BY <1>1, <1>2 DEF Agrees
<1>5. Yes(c) = Said(c)
  BY <1>4 DEF Yes, Said
<1> QED
  BY <1>3, <1>5 DEF Predicted

\* The counts of a dimension are those of the cases its answers found an issue in.
LEMMA CountsOfDimension ==
    ASSUME Shapes, Agrees, Len(results) = Total, NEW d \in Dimensions,
           NEW found, found = {c \in Range(Cases) : DimensionOf[c] = d /\ 10 * Said(c) >= 6 * Runs}
    PROVE  /\ Count(d, "TP") = Cardinality(found \cap Flawed)
           /\ Count(d, "FP") = Cardinality(found \ Flawed)
           /\ Count(d, "FN") + Count(d, "TP") =
                  Cardinality({c \in Flawed : DimensionOf[c] = d})
<1> DEFINE missed == {c \in Flawed : DimensionOf[c] = d /\ c \notin found}
<1>1. Flawed \subseteq Range(Cases)
  BY EvaluationAssumption
<1>2. \A c \in Range(Cases) : Predicted(c) <=> 10 * Said(c) >= 6 * Runs
  BY VerdictOfCase
<1>3. Count(d, "TP") = Cardinality(found \cap Flawed)
  <2>1. {k \in Range(Cases) : /\ DimensionOf[k] = d
                              /\ k \in Flawed <=> "TP" \in {"TP", "FN"}
                              /\ Predicted(k) <=> "TP" \in {"TP", "FP"}} = found \cap Flawed
    BY <1>1, <1>2
  <2> QED
    BY <2>1 DEF Count
<1>4. Count(d, "FP") = Cardinality(found \ Flawed)
  <2>1. {k \in Range(Cases) : /\ DimensionOf[k] = d
                              /\ k \in Flawed <=> "FP" \in {"TP", "FN"}
                              /\ Predicted(k) <=> "FP" \in {"TP", "FP"}} = found \ Flawed
    BY <1>1, <1>2
  <2> QED
    BY <2>1 DEF Count
<1>5. Count(d, "FN") = Cardinality(missed)
  <2>1. {k \in Range(Cases) : /\ DimensionOf[k] = d
                              /\ k \in Flawed <=> "FN" \in {"TP", "FN"}
                              /\ Predicted(k) <=> "FN" \in {"TP", "FP"}} = missed
    BY <1>1, <1>2
  <2> QED
    BY <2>1 DEF Count
<1>6. IsFiniteSet(missed) /\ IsFiniteSet(found \cap Flawed)
  <2>1. missed \in SUBSET Range(Cases) /\ found \cap Flawed \in SUBSET Range(Cases)
    BY <1>1
  <2> QED
    BY <2>1, CasesFinite, FS_Subset
<1>7. missed \cup (found \cap Flawed) = {c \in Flawed : DimensionOf[c] = d}
  BY <1>1
<1>8. missed \cap (found \cap Flawed) = {}
  OBVIOUS
<1>9. Cardinality(missed) + Cardinality(found \cap Flawed) =
      Cardinality({c \in Flawed : DimensionOf[c] = d})
  <2> HIDE DEF missed
  <2>1. Cardinality(missed \cup (found \cap Flawed)) =
            Cardinality(missed) + Cardinality(found \cap Flawed) - Cardinality({})
    BY <1>6, <1>8, FS_Union
  <2>2. Cardinality({}) = 0 /\ Cardinality(missed) \in Nat /\ Cardinality(found \cap Flawed) \in Nat
    BY <1>6, FS_EmptySet, FS_CardinalityType
  <2>3. Cardinality(missed \cup (found \cap Flawed)) =
            Cardinality({c \in Flawed : DimensionOf[c] = d})
    BY <1>7
  <2>4. Cardinality(missed) + Cardinality(found \cap Flawed) =
            Cardinality(missed \cup (found \cap Flawed))
    BY <2>1, <2>2
  <2> QED
    BY <2>3, <2>4
<1> QED
  BY <1>3, <1>4, <1>5, <1>9

-----------------------------------------------------------------------------
(***************************************************************************)
(* The steps.                                                              *)
(***************************************************************************)
\* A step of the call at hand: nothing is recorded.
LEMMA QuietKeeps ==
    ASSUME EvalInv, UNCHANGED <<cacheVars, results, report, answers, judged>>,
           phase \in {"calling", "tools", "paused"}, phase' \in {"calling", "tools", "paused"},
           attempt' \in Nat, messages' \in Seq(Nat), AttemptsStartClean',
           phase' = "tools" => Len(messages') < MaxToolRounds
    PROVE  EvalInv'
<1> USE DEF EvalInv
<1>1. Shapes'
  BY DEF Shapes, Phases
<1>2. Agrees' /\ Progressed'
  BY DEF Agrees, Progressed
<1>3. VerdictCountsAnswers' /\ FailuresAreKept'
  BY DEF VerdictCountsAnswers, FailuresAreKept
<1> QED
  BY <1>1, <1>2, <1>3

\* A result is recorded with the answer it stands for.
LEMMA RecordKeeps ==
    ASSUME EvalInv, phase \in {"calling", "tools"}, NEW result \in Results, NEW how \in Answers,
           result.vote = "yes" <=> how = "issue", result.vote = "neither" <=> how = "odd",
           Record(result, how)
    PROVE  EvalInv'
<1> USE DEF EvalInv, Record
<1>1. /\ results' \in Seq(Results) /\ Len(results') = Len(results) + 1
      /\ DOMAIN results' = 1..Len(results) + 1
      /\ \A i \in 1..Len(results) : results'[i] = results[i]
      /\ results'[Len(results) + 1] = result
  BY AppendProperties, LenProperties DEF Shapes
<1>2. /\ answers' \in Seq(Answers) /\ Len(answers') = Len(answers) + 1
      /\ \A i \in 1..Len(answers) : answers'[i] = answers[i]
      /\ answers'[Len(answers) + 1] = how
  BY AppendProperties, LenProperties DEF Shapes
<1>3. phase' \in {"voting", "calling"} /\ attempt' = 0 /\ messages' = <<>>
  OBVIOUS
<1>4. Shapes'
  BY <1>1, <1>2, <1>3, EmptySeq DEF Shapes, Phases
<1>5. Len(results) \in Nat /\ Len(answers) = Len(results) /\ DOMAIN results = 1..Len(results)
  BY LenProperties DEF Shapes
<1>6. Agrees'
  BY <1>1, <1>2, <1>5 DEF Agrees
<1>7. Progressed'
  BY <1>1, <1>3, <1>5, Sizes DEF Progressed
<1>8. AttemptsStartClean'
  BY <1>3, EmptySeq, EvaluationAssumption DEF AttemptsStartClean
<1>9. VerdictCountsAnswers' /\ FailuresAreKept'
  BY <1>3 DEF VerdictCountsAnswers, FailuresAreKept
<1> QED
  BY <1>4, <1>6, <1>7, <1>8, <1>9

\* The boot, and the program being started and ended.
LEMMA StartsKeep ==
    ASSUME EvalInv, Start \/ BootSkills \/ Booted \/ Die
    PROVE  EvalInv'
<1> USE DEF EvalInv
<1>1. ASSUME NEW where \in {"init", "off"}, NothingEvaluated(where) PROVE EvalInv'
  <2> USE <1>1 DEF NothingEvaluated
  <2>1. Shapes'
    BY EmptySeq DEF Shapes, Phases
  <2>2. Agrees' /\ Progressed'
    BY EmptySeq DEF Agrees, Progressed
  <2>3. AttemptsStartClean' /\ VerdictCountsAnswers' /\ FailuresAreKept'
    BY DEF AttemptsStartClean, VerdictCountsAnswers, FailuresAreKept
  <2> QED
    BY <2>1, <2>2, <2>3
<1>2. CASE BootSkills
  <2> USE <1>2 DEF BootSkills, evalVars
  <2>1. Shapes' /\ Agrees' /\ Progressed'
    BY DEF Shapes, Agrees, Progressed
  <2>2. AttemptsStartClean' /\ VerdictCountsAnswers' /\ FailuresAreKept'
    BY DEF AttemptsStartClean, VerdictCountsAnswers, FailuresAreKept
  <2> QED
    BY <2>1, <2>2
<1>3. CASE Booted
  <2> USE <1>3 DEF Booted, cacheVars
  <2>1. Shapes' /\ Agrees'
    BY DEF Shapes, Agrees, Phases
  <2>2. Progressed'
    BY EmptySeq, Sizes DEF Progressed
  <2>3. AttemptsStartClean'
    BY EmptySeq, EvaluationAssumption DEF AttemptsStartClean, Progressed
  <2>4. VerdictCountsAnswers' /\ FailuresAreKept'
    BY DEF VerdictCountsAnswers, FailuresAreKept
  <2> QED
    BY <2>1, <2>2, <2>3, <2>4
<1> QED
  BY <1>1, <1>2, <1>3 DEF Start, Die

\* A call to the model, with its tool rounds and attempts.
LEMMA CallKeeps ==
    ASSUME EvalInv,
           \/ UseTools \/ ToolsReturn \/ AttemptFails \/ Retry \/ CallFails
           \/ \E content \in Contents : Answer(content)
    PROVE  EvalInv'
<1>1. CASE UseTools
  <2>1. AttemptsStartClean'
    BY <1>1 DEF EvalInv, UseTools, AttemptsStartClean
  <2> QED
    BY <1>1, <2>1, QuietKeeps DEF UseTools, EvalInv, Shapes
<1>2. CASE ToolsReturn
  <2> USE <1>2 DEF ToolsReturn, EvalInv, Shapes
  <2>1. /\ messages' \in Seq(Nat) /\ Len(messages') = Len(messages) + 1
        /\ DOMAIN messages' = 1..Len(messages) + 1
        /\ \A i \in 1..Len(messages) : messages'[i] = messages[i]
        /\ messages'[Len(messages) + 1] = attempt
    BY AppendProperties, LenProperties
  <2>2. Len(messages) \in Nat /\ DOMAIN messages = 1..Len(messages)
    BY LenProperties
  <2>3. Len(messages') <= MaxToolRounds
    BY <2>1, <2>2, EvaluationAssumption DEF Progressed
  <2>4. AttemptsStartClean'
    BY <2>1, <2>2, <2>3 DEF AttemptsStartClean
  <2> QED
    BY <2>1, <2>4, QuietKeeps
<1>3. CASE AttemptFails
  <2>1. attempt + 1 \in Nat
    BY DEF EvalInv, Shapes
  <2>2. AttemptsStartClean'
    BY <1>3 DEF AttemptFails, AttemptsStartClean
  <2> QED
    BY <1>3, <2>1, <2>2, QuietKeeps DEF AttemptFails, EvalInv, Shapes
<1>4. CASE Retry
  <2>1. AttemptsStartClean' /\ messages' \in Seq(Nat)
    BY <1>4, EmptySeq, EvaluationAssumption DEF Retry, AttemptsStartClean
  <2> QED
    BY <1>4, <2>1, QuietKeeps DEF Retry, EvalInv, Shapes
<1>5. CASE CallFails
  <2>1. Failure \in Results /\ Failure.vote = "no" /\ "failed" \in Answers
    BY DEF Failure, Results, Answers
  <2> QED
    BY <1>5, <2>1, RecordKeeps DEF CallFails
<1>6. ASSUME NEW content \in Contents, Answer(content) PROVE EvalInv'
  <2> DEFINE result == [vote |-> VoteOf(content), error |-> Unreadable(content)]
  <2>1. /\ VoteOf(content) \in {"yes", "no", "neither"}
        /\ VoteOf(content) = "yes" <=> content = "issue"
        /\ VoteOf(content) = "neither" <=> content = "odd"
    BY DEF VoteOf, Contents
  <2>2. Unreadable(content) \in BOOLEAN
    BY SMT DEF Unreadable
  <2>3. result \in Results /\ result.vote = VoteOf(content) /\ content \in Answers
    BY <2>1, <2>2 DEF Results, Answers
  <2>4. phase \in {"calling", "tools"} /\ Record(result, content)
    BY <1>6 DEF Answer
  <2> HIDE DEF result
  <2> QED
    BY <2>1, <2>3, <2>4, RecordKeeps
<1> QED
  BY <1>1, <1>2, <1>3, <1>4, <1>5, <1>6

\* The verdicts stay what the answers said.
LEMMA VerdictStays ==
    ASSUME VerdictCountsAnswers, UNCHANGED <<report, answers>>,
           phase' \in {"judging", "saved"} => phase \in {"judging", "saved"}
    PROVE  VerdictCountsAnswers'
<1>1. \A c : Said(c)' = Said(c)
  BY DEF Said
<1> QED
  BY <1>1 DEF VerdictCountsAnswers

\* The vote, the judge and the files.
LEMMA ReportKeeps ==
    ASSUME EvalInv,
           \/ Vote \/ VoteRaises \/ Save
           \/ \E i \in 1..Total : Judge(i) \/ JudgeOdd(i)
    PROVE  EvalInv'
<1> USE DEF EvalInv
<1>1. /\ UNCHANGED <<attempt, messages, results, answers, cacheVars>>
      /\ phase \in {"voting", "judging"} /\ phase' \in {"judging", "saved", "lost"}
  BY DEF Vote, VoteRaises, Save, Judge, JudgeOdd
<1>2. Shapes' /\ Agrees'
  BY <1>1 DEF Shapes, Agrees, Phases
<1>3. Progressed'
  BY <1>1 DEF Progressed
<1>4. AttemptsStartClean'
  BY <1>1 DEF AttemptsStartClean
<1>5. VerdictCountsAnswers'
  <2>1. CASE Vote
    <3> SUFFICES ASSUME NEW d \in Dimensions,
                        NEW found,
                        found = {c \in Range(Cases) : DimensionOf[c] = d /\ 10 * Said(c) >= 6 * Runs}
                 PROVE  /\ report'[d]["TP"] = Cardinality(found \cap Flawed)
                        /\ report'[d]["FP"] = Cardinality(found \ Flawed)
                        /\ report'[d]["FN"] + report'[d]["TP"] =
                               Cardinality({c \in Flawed : DimensionOf[c] = d})
      <4>1. \A c : Said(c)' = Said(c)
        BY <1>1 DEF Said
      <4> QED
        BY <4>1, ZenonT(40) DEF VerdictCountsAnswers
    <3>1. Len(results) = Total
      BY <2>1 DEF Vote, Progressed
    <3>2. \A c \in Counts : report'[d][c] = Count(d, c)
      BY <2>1 DEF Vote
    <3> QED
      BY <3>1, <3>2, CountsOfDimension DEF Counts
  <2>2. CASE phase' = "lost"
    BY <2>2 DEF VerdictCountsAnswers
  <2>3. CASE phase = "judging" /\ report' = report
    BY <1>1, <2>3, VerdictStays
  <2> QED
    BY <2>1, <2>2, <2>3 DEF VoteRaises, Save, Judge, JudgeOdd
<1>6. FailuresAreKept'
  <2>1. CASE VoteRaises
    <3>1. PICK i \in DOMAIN results : results[i].vote = "neither"
      BY <2>1 DEF VoteRaises, Summable
    <3>2. i \in DOMAIN answers /\ answers[i] = "odd"
      BY <3>1, LenProperties DEF Agrees, Shapes
    <3> QED
      BY <1>1, <3>2 DEF FailuresAreKept, Range
  <2>2. CASE ~VoteRaises
    BY <1>1, <2>2 DEF FailuresAreKept, Vote, Save, Judge, JudgeOdd
  <2> QED
    BY <2>1, <2>2
<1> QED
  BY <1>2, <1>3, <1>4, <1>5, <1>6

LEMMA EvalStarts == Init => EvalInv
<1> SUFFICES ASSUME Init PROVE EvalInv
  OBVIOUS
<1> USE DEF Init, EvalInit
<1>1. Shapes /\ Agrees /\ Progressed
  BY EmptySeq DEF Shapes, Agrees, Progressed, Phases
<1>2. AttemptsStartClean /\ VerdictCountsAnswers /\ FailuresAreKept
  BY DEF AttemptsStartClean, VerdictCountsAnswers, FailuresAreKept
<1> QED
  BY <1>1, <1>2 DEF EvalInv

LEMMA EvalNext == EvalInv /\ [Next]_vars => EvalInv'
<1> SUFFICES ASSUME EvalInv, [Next]_vars PROVE EvalInv'
  OBVIOUS
<1>1. CASE Start \/ BootSkills \/ Booted \/ Die
  BY <1>1, StartsKeep
<1>2. CASE \/ UseTools \/ ToolsReturn \/ AttemptFails \/ Retry \/ CallFails
           \/ \E content \in Contents : Answer(content)
  BY <1>2, CallKeeps
<1>3. CASE \/ Vote \/ VoteRaises \/ Save
           \/ \E i \in 1..Total : Judge(i) \/ JudgeOdd(i)
  BY <1>3, ReportKeeps
<1>4. CASE UNCHANGED vars
  <2> USE <1>4 DEF vars, cacheVars, evalVars, EvalInv
  <2>1. Shapes' /\ Agrees' /\ Progressed' /\ AttemptsStartClean'
    BY DEF Shapes, Agrees, Progressed, AttemptsStartClean
  <2>2. VerdictCountsAnswers'
    BY VerdictStays
  <2>3. FailuresAreKept'
    BY DEF FailuresAreKept
  <2> QED
    BY <2>1, <2>2, <2>3
<1> QED
  BY <1>1, <1>2, <1>3, <1>4 DEF Next, EvalStep

LEMMA EvalHolds == Spec => []EvalInv
BY EvalStarts, EvalNext, PTL DEF Spec

-----------------------------------------------------------------------------
(***************************************************************************)
(* The skills, and the rest of the types.                                  *)
(***************************************************************************)
Rest ==
    /\ CacheInv
    /\ attempt \in 0..MaxRetries - 1
    /\ report \in [Dimensions -> [Counts -> Nat]]
    /\ sample \subseteq 1..Total
    /\ judged \in BOOLEAN

LEMMA CountType ==
    ASSUME NEW d, NEW c
    PROVE  Count(d, c) \in Nat
<1> DEFINE counted == {k \in Range(Cases) :
                          /\ DimensionOf[k] = d
                          /\ k \in Flawed <=> c \in {"TP", "FN"}
                          /\ Predicted(k) <=> c \in {"TP", "FP"}}
<1>1. counted \in SUBSET Range(Cases)
  OBVIOUS
<1>2. Count(d, c) = Cardinality(counted)
  BY DEF Count
<1> HIDE DEF counted
<1> QED
  BY <1>1, <1>2, CasesFinite, FS_Subset, FS_CardinalityType

LEMMA RestStarts == Init => Rest
<1> SUFFICES ASSUME Init PROVE Rest
  OBVIOUS
<1>1. 0 \in 0..MaxRetries - 1
  BY EvaluationAssumption
<1> QED
  BY <1>1, CacheStarts DEF Init, EvalInit, Rest, NoReport

LEMMA RestNext == Rest /\ [Next]_vars => Rest'
<1> SUFFICES ASSUME Rest, [Next]_vars PROVE Rest'
  OBVIOUS
<1> USE DEF Rest
<1>1. 0 \in 0..MaxRetries - 1 /\ NoReport \in [Dimensions -> [Counts -> Nat]]
  BY EvaluationAssumption DEF NoReport
<1>2. ASSUME UNCHANGED cacheVars PROVE CacheInv'
  BY <1>2 DEF cacheVars, CacheInv, CacheTypeOK, InOrder, NextFile
<1>3. CASE Start \/ Die
  BY <1>1, <1>3, CacheBegins DEF Start, Die, NothingEvaluated
<1>4. CASE BootSkills
  BY <1>4, CacheKeeps DEF BootSkills, evalVars
<1>5. CASE \/ Booted \/ UseTools \/ ToolsReturn \/ AttemptFails \/ Retry \/ CallFails
           \/ \E content \in Contents : Answer(content)
  <2>1. UNCHANGED <<cacheVars, report, sample, judged>>
    BY <1>5 DEF Booted, UseTools, ToolsReturn, AttemptFails, Retry, CallFails, Answer, Record
  <2>2. attempt' \in {attempt, 0} \/ (attempt + 1 < MaxRetries /\ attempt' = attempt + 1)
    BY <1>5 DEF Booted, UseTools, ToolsReturn, AttemptFails, Retry, CallFails, Answer, Record
  <2>3. attempt' \in 0..MaxRetries - 1
    BY <1>1, <2>2, EvaluationAssumption
  <2> QED
    BY <1>2, <2>1, <2>3
<1>6. CASE \/ Vote \/ VoteRaises \/ Save
           \/ \E i \in 1..Total : Judge(i) \/ JudgeOdd(i)
  <2>1. UNCHANGED <<cacheVars, attempt>> /\ judged' \in {judged, TRUE}
    BY <1>6 DEF Vote, VoteRaises, Save, Judge, JudgeOdd
  <2>2. sample' \subseteq 1..Total
    <3>1. CASE Vote
      BY <3>1 DEF Vote, kSubset
    <3>2. CASE ~Vote
      BY <1>6, <3>2 DEF VoteRaises, Save, Judge, JudgeOdd
    <3> QED
      BY <3>1, <3>2
  <2>3. report' \in [Dimensions -> [Counts -> Nat]]
    <3>1. CASE Vote
      BY <3>1, CountType DEF Vote
    <3>2. CASE ~Vote
      BY <1>6, <3>2 DEF VoteRaises, Save, Judge, JudgeOdd
    <3> QED
      BY <3>1, <3>2
  <2> QED
    BY <1>2, <2>1, <2>2, <2>3
<1>7. CASE UNCHANGED vars
  BY <1>2, <1>7 DEF vars, evalVars
<1> QED
  BY <1>3, <1>4, <1>5, <1>6, <1>7 DEF Next, EvalStep

LEMMA RestHolds == Spec => []Rest
BY RestStarts, RestNext, PTL DEF Spec

\* The type invariant of the evaluation and of the skills it boots.
THEOREM TypeCorrect == Spec => []TypeOK
<1>1. EvalInv /\ Rest => TypeOK
  BY DEF EvalInv, Shapes, Rest, TypeOK, CacheInv, Results, Answers
<1> QED
  BY <1>1, EvalHolds, RestHolds, PTL

\* After a boot the catalog lists what is on the disk, for any registry and any files,
\* whatever earlier boots left and whichever downloads failed.
THEOREM CatalogIsThere == Spec => []CatalogMatchesDisk
<1>1. Rest => CatalogMatchesDisk
  BY CacheInvImplies DEF Rest
<1> QED
  BY <1>1, RestHolds, PTL

\* No answer of fetch_skill is over the cap by more than the mark and the joins, for any
\* files and any cap.
THEOREM AnswersCapped == Spec => []AnswersAreCapped
<1>1. Rest => AnswersAreCapped
  BY CacheInvImplies DEF Rest
<1> QED
  BY <1>1, RestHolds, PTL

\* A retry asks with the messages of its own attempt, for any numbers of attempts and
\* tool rounds.
THEOREM RetriesClean == Spec => []AttemptsStartClean
BY EvalHolds, PTL DEF EvalInv

\* The verdicts are what all the calls said, failed ones included, for any test suite and
\* any number of runs.
THEOREM VerdictsRight == Spec => []VerdictCountsAnswers
BY EvalHolds, PTL DEF EvalInv

\* No number of failed calls loses the results.
THEOREM FailuresKept == Spec => []FailuresAreKept
BY EvalHolds, PTL DEF EvalInv

-----------------------------------------------------------------------------
(***************************************************************************)
(* Why evaluations end, apart from fairness.                               *)
(***************************************************************************)
BootRank == CASE boot = "skill" -> 2 [] boot \in {"files", "write"} -> 1 [] OTHER -> 0

\* What cmd_full has before it, the slowest count first: its part; skills to boot, or
\* calls to make; attempts; files, or tool rounds; the steps of one file or round.
ToDo ==
    CASE phase = "init" ->
           <<3, Len(todo), BootRank, Len(paths), IF boot = "write" THEN 0 ELSE 1>>
      [] phase \in {"calling", "tools", "paused"} ->
           <<2, Total - Len(results), MaxRetries - attempt,
             IF phase = "paused" THEN MaxToolRounds + 1 ELSE MaxToolRounds - Len(messages),
             IF phase = "calling" THEN 1 ELSE 0>>
      [] phase = "voting"  -> <<1, 1, 0, 0, 0>>
      [] phase = "judging" -> <<1, 0, Cardinality(sample), 0, 0>>
      [] OTHER             -> <<0, 0, 0, 0, 0>>

\* What cmd_full has before it, with its bounds, part by part.
Foreseen ==
    /\ ToDo \in Tuples
    /\ Len(todo) \in Nat /\ Len(paths) \in Nat /\ Len(results) \in Nat /\ Len(messages) \in Nat
    /\ attempt \in Nat /\ attempt < MaxRetries
    /\ Cardinality(sample) \in Nat
    /\ phase \in {"calling", "tools", "paused"} => Len(results) < Total
    /\ phase \in {"calling", "tools"} => Len(messages) <= MaxToolRounds
    /\ phase = "init" =>
         ToDo = <<3, Len(todo), BootRank, Len(paths), IF boot = "write" THEN 0 ELSE 1>>
    /\ phase \in {"calling", "tools", "paused"} =>
         ToDo = <<2, Total - Len(results), MaxRetries - attempt,
                  IF phase = "paused" THEN MaxToolRounds + 1 ELSE MaxToolRounds - Len(messages),
                  IF phase = "calling" THEN 1 ELSE 0>>
    /\ phase = "voting"  => ToDo = <<1, 1, 0, 0, 0>>
    /\ phase = "judging" => ToDo = <<1, 0, Cardinality(sample), 0, 0>>
    /\ phase \in {"off", "saved", "lost"} => ToDo = <<0, 0, 0, 0, 0>>

LEMMA Foresight == EvalInv /\ Rest => Foreseen
<1> SUFFICES ASSUME EvalInv, Rest PROVE Foreseen
  OBVIOUS
<1>1. /\ Total \in Nat /\ MaxRetries \in Nat /\ MaxToolRounds \in Nat /\ Total > 0
  BY Sizes, EvaluationAssumption
<1>2. Len(todo) \in Nat /\ Len(paths) \in Nat /\ Len(results) \in Nat /\ Len(messages) \in Nat
  BY DEF Rest, CacheInv, CacheTypeOK, EvalInv, Shapes
<1>3. attempt \in Nat /\ attempt < MaxRetries
  BY <1>1 DEF Rest
<1>4. Cardinality(sample) \in Nat
  <2>1. IsFiniteSet(1..Total) /\ sample \in SUBSET (1..Total)
    BY <1>1, FS_Interval DEF Rest
  <2> QED
    BY <2>1, FS_Subset, FS_CardinalityType
<1>5. phase \in {"calling", "tools", "paused"} => Len(results) < Total
  BY DEF EvalInv, Progressed
<1>6. phase \in {"calling", "tools"} => Len(messages) <= MaxToolRounds
  BY DEF EvalInv, AttemptsStartClean
<1>7. phase \in Phases
  BY DEF EvalInv, Shapes
<1>8. BootRank \in Nat
  BY DEF BootRank
<1>9. ToDo \in Tuples
  <2>1. CASE phase = "init"
    BY <1>2, <1>8, <2>1 DEF ToDo, Tuples
  <2>2. CASE phase \in {"calling", "tools", "paused"}
    <3> DEFINE rounds == IF phase = "paused" THEN MaxToolRounds + 1 ELSE MaxToolRounds - Len(messages)
               asking == IF phase = "calling" THEN 1 ELSE 0
    <3>1. ToDo = <<2, Total - Len(results), MaxRetries - attempt, rounds, asking>>
      BY <2>2 DEF ToDo
    <3>2. Total - Len(results) \in Nat /\ MaxRetries - attempt \in Nat
      BY <1>1, <1>2, <1>3, <1>5, <2>2
    <3>3. rounds \in Nat /\ asking \in Nat
      BY <1>1, <1>2, <1>6, <2>2
    <3> HIDE DEF rounds, asking
    <3> QED
      BY <3>1, <3>2, <3>3 DEF Tuples
  <2>3. CASE phase \in {"voting", "judging", "off", "saved", "lost"}
    BY <1>4, <2>3 DEF ToDo, Tuples
  <2> QED
    BY <1>7, <2>1, <2>2, <2>3 DEF Phases
<1> QED
  BY <1>2, <1>3, <1>4, <1>5, <1>6, <1>9 DEF Foreseen, ToDo

\* The same of the next state, of which no lemma can be cited.
LEMMA NextForeseen ==
    ASSUME Foreseen'
    PROVE  /\ ToDo' \in Tuples
           /\ phase' = "init" =>
                ToDo' = <<3, Len(todo'), BootRank', Len(paths'), IF boot' = "write" THEN 0 ELSE 1>>
           /\ phase' \in {"calling", "tools", "paused"} =>
                ToDo' = <<2, Total - Len(results'), MaxRetries - attempt',
                          IF phase' = "paused" THEN MaxToolRounds + 1
                          ELSE MaxToolRounds - Len(messages'),
                          IF phase' = "calling" THEN 1 ELSE 0>>
           /\ phase' = "voting"  => ToDo' = <<1, 1, 0, 0, 0>>
           /\ phase' = "judging" => ToDo' = <<1, 0, Cardinality(sample'), 0, 0>>
           /\ phase' \in {"off", "saved", "lost"} => ToDo' = <<0, 0, 0, 0, 0>>
BY DEF Foreseen

LEMMA PartEnds ==
    ASSUME Foreseen, Foreseen',
           \/ phase = "init" /\ phase' \in {"calling", "lost"}
           \/ phase \in {"calling", "tools"} /\ phase' = "voting"
           \/ phase = "voting" /\ phase' \in {"judging", "lost"}
           \/ phase = "judging" /\ phase' \in {"saved", "lost"}
    PROVE  Less(ToDo', ToDo)
<1>1. ToDo \in Tuples /\ ToDo' \in Tuples
  BY NextForeseen DEF Foreseen
<1>2. ToDo'[1] < ToDo[1] \/ (ToDo'[1] = ToDo[1] /\ ToDo'[2] < ToDo[2])
  <2>1. CASE phase = "init"
    <3>1. ToDo[1] = 3
      BY <2>1 DEF Foreseen
    <3>2. ToDo'[1] \in {0, 2}
      BY <2>1, NextForeseen
    <3> QED
      BY <3>1, <3>2
  <2>2. CASE phase \in {"calling", "tools"}
    <3>1. ToDo[1] = 2
      BY <2>2 DEF Foreseen
    <3>2. ToDo'[1] = 1
      BY <2>2, NextForeseen
    <3> QED
      BY <3>1, <3>2
  <2>3. CASE phase = "voting"
    <3>1. ToDo[1] = 1 /\ ToDo[2] = 1
      BY <2>3 DEF Foreseen
    <3>2. ToDo'[1] = 0 \/ (ToDo'[1] = 1 /\ ToDo'[2] = 0)
      BY <2>3, NextForeseen
    <3> QED
      BY <3>1, <3>2
  <2>4. CASE phase = "judging"
    <3>1. ToDo[1] = 1
      BY <2>4 DEF Foreseen
    <3>2. ToDo'[1] = 0
      BY <2>4, NextForeseen
    <3> QED
      BY <3>1, <3>2
  <2> QED
    BY <2>1, <2>2, <2>3, <2>4
<1> QED
  BY <1>1, <1>2, LessAt

LEMMA BootCounts ==
    ASSUME Rest, Foreseen, Foreseen', BootSkills
    PROVE  Less(ToDo', ToDo)
<1>1. /\ phase = "init" /\ phase' = "init" /\ CacheStep
      /\ todo \in Seq(Skills) /\ paths \in Seq(Files) /\ Registry \in Seq(Skills)
      /\ boot \in {"files", "write"} => todo # <<>>
      /\ boot = "write" => paths # <<>>
  BY CacheAssumption DEF BootSkills, evalVars, Rest, CacheInv, CacheTypeOK
<1>2. /\ todo # <<>> => Len(Tail(todo)) = Len(todo) - 1 /\ Len(todo) > 0
      /\ paths # <<>> => Len(Tail(paths)) = Len(paths) - 1
      /\ Len(todo) \in Nat /\ Len(paths) \in Nat /\ Len(<<>>) = 0
  BY <1>1, EmptySeq, HeadTailProperties
<1>3. /\ ToDo \in Tuples /\ ToDo' \in Tuples
      /\ ToDo = <<3, Len(todo), BootRank, Len(paths), IF boot = "write" THEN 0 ELSE 1>>
      /\ ToDo' = <<3, Len(todo'), BootRank', Len(paths'), IF boot' = "write" THEN 0 ELSE 1>>
  BY <1>1, NextForeseen DEF Foreseen
<1>4. CASE SkillDone \/ (InitRaises /\ todo # <<>>)
  <2>1. todo # <<>> /\ todo' \in {Tail(todo), <<>>}
    BY <1>1, <1>4 DEF SkillDone, InitRaises, NothingBooted
  <2>2. Len(todo') < Len(todo)
    BY <1>2, <2>1
  <2> QED
    BY <1>3, <2>2, LessAt
<1>5. CASE ListSkill \/ InitDone
  <2>1. Len(todo') = Len(todo)
    BY <1>5 DEF ListSkill, InitDone, NothingBooted
  <2>2. BootRank = 2 /\ BootRank' \in {0, 1}
    BY <1>5 DEF ListSkill, InitDone, NothingBooted, BootRank
  <2>3. ToDo'[1] = ToDo[1] /\ ToDo'[2] = ToDo[2] /\ ToDo'[3] < ToDo[3]
    BY <1>3, <2>1, <2>2
  <2> QED
    BY <1>3, <2>3, LessAt
<1>6. CASE KeepFile \/ PassFile \/ FillFile
  <2>1. /\ todo' = todo /\ paths # <<>> /\ paths' = Tail(paths)
        /\ boot \in {"files", "write"} /\ boot' = "files"
    BY <1>1, <1>6 DEF KeepFile, PassFile, FillFile, Seeing
  <2>2. Len(paths') < Len(paths) /\ BootRank = 1 /\ BootRank' = 1
    BY <1>2, <2>1 DEF BootRank
  <2>3. ToDo'[1] = ToDo[1] /\ ToDo'[2] = ToDo[2] /\ ToDo'[3] = ToDo[3] /\ ToDo'[4] < ToDo[4]
    BY <1>3, <2>1, <2>2
  <2> QED
    BY <1>3, <2>3, LessAt
<1>7. CASE OpenFile
  <2>1. todo' = todo /\ paths' = paths /\ boot = "files" /\ boot' = "write"
    BY <1>7 DEF OpenFile, Seeing
  <2>2. BootRank = 1 /\ BootRank' = 1
    BY <2>1 DEF BootRank
  <2>3. /\ ToDo'[1] = ToDo[1] /\ ToDo'[2] = ToDo[2] /\ ToDo'[3] = ToDo[3] /\ ToDo'[4] = ToDo[4]
        /\ ToDo'[5] < ToDo[5]
    BY <1>3, <2>1, <2>2
  <2> QED
    BY <1>3, <2>3, LessAt
<1>8. InitRaises => todo # <<>>
  BY <1>1 DEF InitRaises, Seeing
<1> QED
  BY <1>1, <1>4, <1>5, <1>6, <1>7, <1>8 DEF CacheStep

LEMMA CallCounts ==
    ASSUME EvalInv, Foreseen, Foreseen',
           \/ UseTools \/ ToolsReturn \/ AttemptFails \/ Retry \/ CallFails
           \/ \E content \in Contents : Answer(content)
    PROVE  Less(ToDo', ToDo)
<1> DEFINE rounds == IF phase = "paused" THEN MaxToolRounds + 1 ELSE MaxToolRounds - Len(messages)
           next == IF phase' = "paused" THEN MaxToolRounds + 1 ELSE MaxToolRounds - Len(messages')
<1>1. phase \in {"calling", "tools", "paused"}
  BY DEF UseTools, ToolsReturn, AttemptFails, Retry, CallFails, Answer
<1>2. /\ ToDo \in Tuples /\ ToDo' \in Tuples
      /\ ToDo = <<2, Total - Len(results), MaxRetries - attempt, rounds,
                  IF phase = "calling" THEN 1 ELSE 0>>
  BY <1>1, NextForeseen DEF Foreseen
<1>3. phase' \in {"calling", "tools", "paused"} =>
          ToDo' = <<2, Total - Len(results'), MaxRetries - attempt', next,
                    IF phase' = "calling" THEN 1 ELSE 0>>
  BY NextForeseen
<1>4. /\ Total \in Nat /\ MaxRetries \in Nat /\ MaxToolRounds \in Nat
      /\ messages \in Seq(Nat) /\ results \in Seq(Results) /\ attempt \in Nat
      /\ Len(messages) \in Nat /\ Len(results) \in Nat
  BY Sizes, EvaluationAssumption DEF EvalInv, Shapes
<1> HIDE DEF rounds, next
<1>5. CASE UseTools
  <2>1. /\ phase = "calling" /\ phase' = "tools"
        /\ UNCHANGED <<attempt, messages, results>>
    BY <1>5 DEF UseTools
  <2>2. rounds = next
    BY <2>1 DEF rounds, next
  <2>3. /\ ToDo'[1] = ToDo[1] /\ ToDo'[2] = ToDo[2] /\ ToDo'[3] = ToDo[3] /\ ToDo'[4] = ToDo[4]
        /\ ToDo'[5] < ToDo[5]
    BY <1>2, <1>3, <2>1, <2>2
  <2> QED
    BY <1>2, <2>3, LessAt
<1>6. CASE ToolsReturn
  <2>1. /\ phase = "tools" /\ phase' = "calling" /\ messages' = Append(messages, attempt)
        /\ UNCHANGED <<attempt, results>>
    BY <1>6 DEF ToolsReturn
  <2>2. Len(messages') = Len(messages) + 1
    BY <1>4, <2>1, AppendProperties
  <2>3. next < rounds
    BY <1>4, <2>1, <2>2 DEF rounds, next
  <2>4. ToDo'[1] = ToDo[1] /\ ToDo'[2] = ToDo[2] /\ ToDo'[3] = ToDo[3] /\ ToDo'[4] < ToDo[4]
    BY <1>2, <1>3, <2>1, <2>3
  <2> QED
    BY <1>2, <2>4, LessAt
<1>7. CASE AttemptFails
  <2>1. phase' = "paused" /\ attempt' = attempt + 1 /\ results' = results
    BY <1>7 DEF AttemptFails
  <2>2. ToDo'[1] = ToDo[1] /\ ToDo'[2] = ToDo[2] /\ ToDo'[3] < ToDo[3]
    BY <1>2, <1>3, <1>4, <2>1
  <2> QED
    BY <1>2, <2>2, LessAt
<1>8. CASE Retry
  <2>1. phase = "paused" /\ phase' = "calling" /\ messages' = <<>> /\ UNCHANGED <<attempt, results>>
    BY <1>8 DEF Retry
  <2>2. next < rounds
    BY <1>4, <2>1, EmptySeq DEF rounds, next
  <2>3. ToDo'[1] = ToDo[1] /\ ToDo'[2] = ToDo[2] /\ ToDo'[3] = ToDo[3] /\ ToDo'[4] < ToDo[4]
    BY <1>2, <1>3, <2>1, <2>2
  <2> QED
    BY <1>2, <2>3, LessAt
<1>9. ASSUME NEW result \in Results, NEW how, Record(result, how), phase \in {"calling", "tools"}
      PROVE  Less(ToDo', ToDo)
  <2>1. CASE phase' = "voting"
    BY <1>9, <2>1, PartEnds
  <2>2. CASE phase' # "voting"
    <3>1. phase' = "calling" /\ results' = Append(results, result)
      BY <1>9, <2>2 DEF Record
    <3>2. Len(results') = Len(results) + 1
      BY <1>4, <3>1, AppendProperties
    <3>3. ToDo'[1] = ToDo[1] /\ ToDo'[2] < ToDo[2]
      BY <1>2, <1>3, <1>4, <3>1, <3>2
    <3> QED
      BY <1>2, <3>3, LessAt
  <2> QED
    BY <2>1, <2>2
<1>10. CASE CallFails \/ \E content \in Contents : Answer(content)
  <2>1. CASE CallFails
    <3>1. Failure \in Results
      BY DEF Failure, Results
    <3> QED
      BY <1>9, <2>1, <3>1 DEF CallFails
  <2>2. ASSUME NEW content \in Contents, Answer(content) PROVE Less(ToDo', ToDo)
    <3> DEFINE result == [vote |-> VoteOf(content), error |-> Unreadable(content)]
    <3>1. result \in Results
      BY DEF VoteOf, Unreadable, Results
    <3>2. Record(result, content) /\ phase \in {"calling", "tools"}
      BY <2>2 DEF Answer
    <3> HIDE DEF result
    <3> QED
      BY <1>9, <3>1, <3>2
  <2> QED
    BY <1>10, <2>1, <2>2
<1> QED
  BY <1>5, <1>6, <1>7, <1>8, <1>10

LEMMA JudgeCounts ==
    ASSUME Rest, Foreseen, Foreseen', NEW i \in 1..Total, Judge(i) \/ JudgeOdd(i)
    PROVE  Less(ToDo', ToDo)
<1>1. phase = "judging" /\ phase' = "judging" /\ i \in sample /\ sample' = sample \ {i}
  BY DEF Judge, JudgeOdd
<1>2. IsFiniteSet(sample)
  <2>1. IsFiniteSet(1..Total)
    BY Sizes, FS_Interval
  <2>2. sample \in SUBSET (1..Total)
    BY DEF Rest
  <2> QED
    BY <2>1, <2>2, FS_Subset
<1>3. Cardinality(sample') = Cardinality(sample) - 1 /\ Cardinality(sample) \in Nat
  BY <1>1, <1>2, FS_RemoveElement, FS_CardinalityType
<1>4. /\ ToDo \in Tuples /\ ToDo' \in Tuples
      /\ ToDo = <<1, 0, Cardinality(sample), 0, 0>> /\ ToDo' = <<1, 0, Cardinality(sample'), 0, 0>>
  BY <1>1, NextForeseen DEF Foreseen
<1>5. ToDo'[1] = ToDo[1] /\ ToDo'[2] = ToDo[2] /\ ToDo'[3] < ToDo[3]
  BY <1>3, <1>4
<1> QED
  BY <1>4, <1>5, LessAt

LEMMA EvalCounts ==
    EvalInv /\ Rest /\ Foreseen /\ Foreseen' /\ EvalStep => ToDo \in Tuples /\ Less(ToDo', ToDo)
<1> SUFFICES ASSUME EvalInv, Rest, Foreseen, Foreseen', EvalStep
             PROVE  ToDo \in Tuples /\ Less(ToDo', ToDo)
  OBVIOUS
<1>1. CASE Booted
  <2>1. phase = "init" /\ phase' \in {"calling", "lost"}
    BY <1>1 DEF Booted
  <2> QED
    BY <2>1, PartEnds DEF Foreseen
<1>2. CASE Vote \/ VoteRaises
  <2>1. phase = "voting" /\ phase' \in {"judging", "lost"}
    BY <1>2 DEF Vote, VoteRaises
  <2> QED
    BY <2>1, PartEnds DEF Foreseen
<1>3. CASE Save
  <2>1. phase = "judging" /\ phase' \in {"saved", "lost"}
    BY <1>3 DEF Save
  <2> QED
    BY <2>1, PartEnds DEF Foreseen
<1> QED
  BY <1>1, <1>2, <1>3, BootCounts, CallCounts, JudgeCounts DEF EvalStep, Foreseen

\* Every step of an evaluation that is not its start or its death has less before it, in
\* an order without endless descents (LeastTuple): neither the tool rounds of an answer nor
\* the retries of a call (eval.py:262) nor a boot that fails can go on for ever.
THEOREM EvaluationRunsDown == Spec => [][EvalStep => ToDo \in Tuples /\ Less(ToDo', ToDo)]_vars
<1>1. EvalInv /\ Rest /\ Foreseen /\ Foreseen' /\ [Next]_vars =>
          [EvalStep => ToDo \in Tuples /\ Less(ToDo', ToDo)]_vars
  BY EvalCounts
<1> QED
  BY <1>1, Foresight, EvalHolds, RestHolds, PTL DEF Spec
=============================================================================
