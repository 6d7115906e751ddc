----------------------------- MODULE FullReview -----------------------------
(***************************************************************************)
(* One run of full_review_stream, the generator behind "Run full           *)
(* pipeline": locate or clone the project, analyze it (Layers 0 to 2),     *)
(* review it (Layer 3) and, with a job description, suggest a project      *)
(* (Layer 4); with a job description alone, only the last.  The page grows *)
(* by what each step yields.  Between two yields the generator is          *)
(* suspended, and Gradio closes it when the browser goes away.             *)
(***************************************************************************)
EXTENDS Review, Suggest

VARIABLES
    stage,           \* what the generator does next
    jd,              \* whether there is a job description
    tmp,             \* whether the temporary directory of a clone exists
    page             \* the results and errors on the page, in order

vars == <<reviewVars, suggestVars, stage, jd, tmp, page>>

-----------------------------------------------------------------------------
Stages   == {"start", "clone", "analyze", "layer3", "layer4", "ended", "closed"}
Sections == {"layer3", "layer4", "layer4 error", "error"}

Init ==
    /\ ReviewInit /\ SuggestInit
    /\ stage = "start"
    /\ jd \in BOOLEAN
    /\ tmp = FALSE
    /\ page = <<>>

Show(section) == page' = Append(page, section)

\* Mutant: the directory is removed at the end and after an error, but there is no
\* finally.
LeaveBehind(as) == stage' = as /\ tmp' = (tmp /\ as = "closed") /\ ForgetReview

\* finally: the temporary directory goes with the generator.
Leave(as) == stage' = as /\ tmp' = FALSE /\ ForgetReview

\* The outer except: the error is the last thing on the page.
Raise == Leave("ended") /\ Show("error")

-----------------------------------------------------------------------------
\* A URL to clone, a path that exists, a path that does not, or no target but a
\* job description.
Start ==
    /\ stage = "start"
    /\ \/ stage' = "clone" /\ tmp' = TRUE /\ UNCHANGED page
       \/ stage' = "analyze" /\ UNCHANGED <<tmp, page>>
       \/ stage' = "ended" /\ Show("error") /\ UNCHANGED tmp
       \/ jd /\ stage' = "layer4" /\ UNCHANGED <<tmp, page>>
    /\ UNCHANGED <<reviewVars, suggestVars, jd>>

\* _shallow_clone.
Clone ==
    /\ stage = "clone"
    /\ stage' = "analyze"
    /\ UNCHANGED <<reviewVars, suggestVars, jd, tmp, page>>

\* git is missing, fails or times out; analyze() or run_layer3 raises; or the page
\* trips over the shape of an answer to A or B.
StepRaises ==
    /\ \/ stage = "clone"
       \/ stage = "analyze" /\ ~Analyzed
       \/ stage = "layer3" /\ call = Unmade
       \/ stage = "layer3" /\ Answered /\ Trips
       \/ stage = "layer3" /\ layer3 # Unread /\ "json" \in {call["A"], call["B"]}
    /\ Raise
    /\ UNCHANGED <<suggestVars, jd>>

Analyze ==
    /\ stage = "analyze"
    /\ IF Analyzed THEN stage' = "layer3" /\ UNCHANGED reviewVars
                   ELSE RunTool /\ UNCHANGED stage
    /\ UNCHANGED <<suggestVars, jd, tmp, page>>

RunLayer3 ==
    /\ stage = "layer3"
    /\ StartCalls(jd) \/ ReviewStep(jd)
    /\ UNCHANGED <<suggestVars, stage, jd, tmp, page>>

\* The review is put on the page and logged; Layer 4 comes next, or the end.
ShowReview ==
    /\ stage = "layer3" /\ layer3 # Unread
    /\ Show("layer3")
    /\ IF jd THEN stage' = "layer4" /\ UNCHANGED tmp /\ ForgetReview ELSE Leave("ended")
    /\ UNCHANGED <<suggestVars, jd>>

RunLayer4 ==
    /\ stage = "layer4"
    /\ StartSuggest \/ SuggestStep
    /\ UNCHANGED <<reviewVars, stage, jd, tmp, page>>

\* The suggestion is put on the page, or the exception that left run_layer4 or that
\* the shape of the suggestion raised here.
ShowSuggestion ==
    /\ stage = "layer4"
    /\ \/ place = "returned" /\ Show("layer4")
       \/ place = "returned" /\ ~suggestion.error /\ Show("layer4 error")
       \/ place = "raised" /\ Show("layer4 error")
    /\ Leave("ended")
    /\ Forget
    /\ UNCHANGED jd

\* The generator is closed at a yield, before the next step has begun.
Close ==
    /\ \/ stage = "clone"
       \/ stage = "analyze" /\ status = <<>>
       \/ stage = "layer3" /\ call = Unmade
       \/ stage = "layer4" /\ place = "off"
    /\ Leave("closed")
    /\ UNCHANGED <<suggestVars, jd, page>>

Progress ==
    \/ Start \/ Clone \/ StepRaises \/ Analyze
    \/ RunLayer3 \/ ShowReview
    \/ RunLayer4 \/ ShowSuggestion

Next == Progress \/ Close

Spec == Init /\ [][Next]_vars

\* git, the tools, the searches and the model's API have timeouts.
FairSpec == Spec /\ WF_vars(Progress)

-----------------------------------------------------------------------------
TypeOK ==
    /\ ReviewTypeOK /\ SuggestTypeOK
    /\ stage \in Stages
    /\ jd \in BOOLEAN
    /\ tmp \in BOOLEAN
    /\ page \in Seq(Sections)

Over == stage \in {"ended", "closed"}

\* However a review ends (its last step, an error of any step, a browser that goes
\* away at any yield), its clone is not left on the disk.
CloneIsRemoved == Over => ~tmp

\* Every review ends, and unless it was closed its page says how.
EveryReviewEnds == <>(stage = "closed" \/ (stage = "ended" /\ page # <<>>))
=============================================================================
