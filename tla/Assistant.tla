------------------------------ MODULE Assistant ------------------------------
(***************************************************************************)
(* The tabs of app.py that talk to a model with tools, served by one       *)
(* process: chats (chat_fn) and one stack review (review_project_stream),  *)
(* which first detects the stack of a repository and downloads a few of    *)
(* its files.  Each turn runs in a thread of its own and all of them share *)
(* the index and the files of the external skills.                         *)
(***************************************************************************)
EXTENDS ToolLoop, StackDetect

\* StackDetect has the variables of one detection.
ASSUME AssistantAssumption ==
    \A u \in Uses : \A t1, t2 \in Threads : u[t1].tab = "review" /\ u[t2].tab = "review" => t1 = t2

vars == <<toolVars, stackVars>>

Init == CatalogInit /\ LoopInit /\ StackInit

Resting(t) == In(t, "idle")

-----------------------------------------------------------------------------
\* chat_fn: the messages of the history without their tool boxes, and the new one.
StartChat(t) ==
    /\ use[t].tab = "chat" /\ up /\ Resting(t)
    /\ StartLoop(t)
    /\ UNCHANGED <<catalogVars, stackVars>>

\* review_project_stream with a URL that parses.
StartReview(t) ==
    /\ use[t].tab = "review" /\ up /\ Resting(t)
    /\ Move(t, "before")
    /\ StartDetect
    /\ UNCHANGED <<catalogVars, use, step, called, fetched, force, calls, rewinds>>

Detect(t) ==
    /\ In(t, "before")
    /\ DetectStep
    /\ UNCHANGED toolVars

\* The key files are downloaded, an HTTPError leaves one empty, and the loop begins.
FilesRead(t) ==
    /\ In(t, "before") /\ stage = "known"
    /\ StartLoop(t)
    /\ ForgetDetect
    /\ UNCHANGED catalogVars

\* A URL that does not parse, an error of the API or the detector, no file to review;
\* or a download that raises, which nothing catches.
ReviewStops(t) ==
    /\ In(t, "before") /\ stage \in {"failed", "known"}
    /\ EndTurn(t)
    /\ ForgetDetect
    /\ UNCHANGED catalogVars

CloseLoop(t) == Close(t) /\ UNCHANGED stackVars

\* Every line of the log is a yield.
CloseReview(t) ==
    /\ In(t, "before")
    /\ EndTurn(t)
    /\ ForgetDetect
    /\ UNCHANGED catalogVars

\* The process dies, and the turns in it.
Crash ==
    /\ Die
    /\ ResetLoops
    /\ ForgetDetect

BootStep(t) ==
    /\ ~up
    /\ Boot(t) \/ (op[t] = "boot" /\ CatalogStep(t))
    /\ UNCHANGED <<loopVars, stackVars>>

-----------------------------------------------------------------------------
Progress(t) ==
    \/ LoopStep(t) /\ UNCHANGED stackVars
    \/ Detect(t) \/ FilesRead(t) \/ ReviewStops(t)

Next ==
    \/ \E t \in Threads :
          \/ BootStep(t)
          \/ StartChat(t) \/ StartReview(t)
          \/ Progress(t)
          \/ CloseLoop(t) \/ CloseReview(t)
    \/ Crash

Spec == Init /\ [][Next]_vars

\* The API, GitHub and the downloads are called with timeouts; users and crashes come
\* as they like.
FairSpec == Spec /\ \A t \in Threads : WF_vars(Progress(t))

-----------------------------------------------------------------------------
TypeOK == CatalogTypeOK /\ LoopTypeOK /\ StackTypeOK

\* A turn that has begun ends, whatever the other tabs do to the shared index.
EveryTurnEnds == \A t \in Threads : ~Resting(t) ~> Resting(t)
=============================================================================
