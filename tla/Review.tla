------------------------------- MODULE Review -------------------------------
(***************************************************************************)
(* Layers 0, 1 and 3 of a review: analyze() runs the analysis tools, and   *)
(* run_layer3 asks the model in parallel about the architecture (call A),  *)
(* the job description (B, when there is one) and the findings (C).  "Hard *)
(* rule: AI never decides severity": what the model says about a finding   *)
(* is kept for findings of the tools only, with the severity they gave.    *)
(*                                                                         *)
(* A finding is its id (tool, rule, file and line: two findings can have   *)
(* the same) and its severity.  Layer 2's metrics only feed call A's       *)
(* prompt.  Answers to A and B are shown as they are.                      *)
(***************************************************************************)
EXTENDS Naturals, Sequences, FiniteSets

CONSTANTS
    Tools,           \* ALL_RUNNERS, then osv-scanner
    FindingIds,
    ToolOf,          \* the tool in a finding's id
    Severities       \* SEVERITY_RANK's numbers

ASSUME FindingsType ==
    /\ Tools \in Seq(STRING)
    /\ ToolOf \in [FindingIds -> STRING]
    /\ Severities \subseteq Nat

VARIABLES
    status,          \* tool_status of the tools that were run
    found,           \* their findings
    call,            \* how far each call to the model is
    answer,          \* what call C answered
    layer3           \* what run_layer3 returned

reviewVars == <<status, found, call, answer, layer3>>

-----------------------------------------------------------------------------
Calls    == {"A", "B", "C"}
Findings == [id : FindingIds, severity : Severities]

\* An answer to call C: explanations of findings, which no tool may have reported
\* in this run; an object with an "error" of its own; or explanations of a shape
\* the code trips over: no list, or an id that cannot be hashed.
Answers == [kind : {"explanations"}, claims : SUBSET Findings]
              \cup [kind : {"error", "malformed"}, claims : {{}}]
NoAnswer == [kind |-> "error", claims |-> {}]

\* call[c]: not made, waiting for the first or the second reply of _chat_json,
\* JSON, the error payload after two replies without JSON, or an exception.
Waiting    == {"first", "second"}
CallStates == {"none", "json", "invalid", "raised"} \cup Waiting
Unmade     == [c \in Calls |-> "none"]

Blank  == [of |-> "none", failed |-> FALSE]
Unread == [a |-> Blank, b |-> Blank, c |-> Blank, shown |-> {}, dropped |-> {}]

ReviewInit ==
    /\ status = <<>>
    /\ found = {}
    /\ call = Unmade
    /\ answer = NoAnswer
    /\ layer3 = Unread

\* The review is over and the locals are gone.
ForgetReview ==
    /\ status' = <<>>
    /\ found' = {}
    /\ call' = Unmade
    /\ answer' = NoAnswer
    /\ layer3' = Unread

-----------------------------------------------------------------------------
(***************************************************************************)
(* Layers 0 and 1.                                                         *)
(***************************************************************************)
Analyzed == Len(status) = Len(Tools)

\* One tool: not for this project's languages or not installed; output that run()
\* trips over; or any findings.  A tool that times out, crashes or prints no JSON
\* reads as one without findings (osv-scanner then has an error status).
RunTool ==
    /\ ~Analyzed
    /\ \/ \E outcome \in {"skipped", "error"} :
             status' = Append(status, outcome) /\ UNCHANGED found
       \/ /\ status' = Append(status, "ok")
          /\ \E new \in SUBSET {f \in Findings : ToolOf[f.id] = Tools[Len(status) + 1]} :
                found' = found \cup new
    /\ UNCHANGED <<call, answer, layer3>>

-----------------------------------------------------------------------------
(***************************************************************************)
(* Layer 3.                                                                *)
(***************************************************************************)
\* The coroutines given to asyncio.gather.
Tasks(jd) == IF jd THEN <<"A", "B", "C">> ELSE <<"A", "C">>

StartCalls(jd) ==
    /\ Analyzed /\ call = Unmade
    /\ call' = [c \in Calls |-> IF c = "B" /\ ~jd THEN "none" ELSE "first"]
    /\ UNCHANGED <<status, found, answer, layer3>>

\* The model replies to one of the calls, in any order.
Reply(c) ==
    /\ call[c] \in Waiting
    /\ call' = [call EXCEPT ![c] = "json"]
    /\ IF c = "C" THEN answer' \in Answers ELSE UNCHANGED answer
    /\ UNCHANGED <<status, found, layer3>>

ReplyInvalid(c) ==
    /\ call[c] \in Waiting
    /\ call' = [call EXCEPT ![c] = IF @ = "first" THEN "second" ELSE "invalid"]
    /\ UNCHANGED <<status, found, answer, layer3>>

\* The API call raises: gather returns the exception as the call's result.
ReplyRaises(c) ==
    /\ call[c] \in Waiting
    /\ call' = [call EXCEPT ![c] = "raised"]
    /\ UNCHANGED <<status, found, answer, layer3>>

Answered == \A c \in Calls : call[c] \notin Waiting

\* gather's results are in the order of its arguments.
Results(jd) ==
    [i \in DOMAIN Tasks(jd) |->
        [of |-> Tasks(jd)[i], failed |-> call[Tasks(jd)[i]] # "json"]]

\* Mutant: call C's index as if there never were a job description.
IndexWithoutB(jd) == [a |-> 1, b |-> 2, c |-> 2]

\* a_idx, b_idx and c_idx.
IndexOf(jd) == [a |-> 1, b |-> 2, c |-> IF jd THEN 3 ELSE 2]

\* _collect_input_findings keeps one finding per id, the last of a list sorted by
\* falling severity.
SeverityOf(id) ==
    CHOOSE s \in Severities :
        /\ [id |-> id, severity |-> s] \in found
        /\ \A f \in found : f.id = id => s <= f.severity

Known == {f.id : f \in found}

\* Mutant: the model's severity stands.
ExplainedAsClaimed(claims) == {c \in claims : c.id \in Known}

\* Explanations of findings, with the tools' severity.
Explained(claims) ==
    {[id |-> c.id, severity |-> SeverityOf(c.id)] : c \in {d \in claims : d.id \in Known}}

\* _enforce_severity_and_filter or the page trips over call C's answer.
Trips == call["C"] = "json" /\ answer.kind = "malformed"

\* run_layer3 puts the results together.
Merge(jd) ==
    /\ call # Unmade /\ Answered /\ layer3 = Unread /\ ~Trips
    /\ layer3' =
          [a |-> Results(jd)[IndexOf(jd).a],
           b |-> IF jd THEN Results(jd)[IndexOf(jd).b] ELSE Blank,
           c |-> Results(jd)[IndexOf(jd).c],
           shown |-> Explained(answer.claims),
           dropped |-> {c.id : c \in answer.claims} \ Known]
    /\ UNCHANGED <<status, found, call, answer>>

ReviewStep(jd) ==
    \/ \E c \in Calls : Reply(c) \/ ReplyInvalid(c) \/ ReplyRaises(c)
    \/ Merge(jd)

-----------------------------------------------------------------------------
ReviewTypeOK ==
    /\ status \in Seq({"skipped", "error", "ok"}) /\ Len(status) <= Len(Tools)
    /\ found \subseteq Findings
    /\ call \in [Calls -> CallStates]
    /\ answer \in Answers
    /\ layer3 \in [a : [of : Calls \cup {"none"}, failed : BOOLEAN],
                   b : [of : Calls \cup {"none"}, failed : BOOLEAN],
                   c : [of : Calls \cup {"none"}, failed : BOOLEAN],
                   shown : SUBSET Findings, dropped : SUBSET FindingIds]

\* AI never decides severity: an explanation that is shown is of a finding a tool
\* reported in this run, with a severity a tool gave it, whatever the model claims.
SeverityIsTheTools == layer3.shown \subseteq found

\* In whatever order the parallel calls end and however many fail, each result is
\* the one of its own call, and a call that failed fails alone.
ResultsAreTheirs ==
    layer3 # Unread =>
        /\ layer3.a = [of |-> "A", failed |-> call["A"] # "json"]
        /\ layer3.b = IF call["B"] = "none" THEN Blank
                      ELSE [of |-> "B", failed |-> call["B"] # "json"]
        /\ layer3.c = [of |-> "C", failed |-> call["C"] # "json"]
=============================================================================
