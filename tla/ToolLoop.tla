------------------------------ MODULE ToolLoop ------------------------------
(***************************************************************************)
(* _tool_loop_stream of app.py, once per tab: the model is asked, answers  *)
(* or calls tools, is given their results and asked again, at most MaxIter *)
(* times.  A model that has listed the local skills and answers without    *)
(* having fetched one or searched for others is sent back to search, with  *)
(* tool_choice set.  A provider may ignore that, Ollama's for one: then    *)
(* anything may come back, and the loop has no test for it.                *)
(* The generator is suspended at every box it yields for a tool call, and  *)
(* the browser may close it there.                                         *)
(*                                                                         *)
(* The list of local skills and their texts are SkillCache's: here they    *)
(* answer at once.  Contents, previews and token counts are left out.      *)
(***************************************************************************)
EXTENDS SkillCatalog, Sequences

CONSTANTS
    MaxIter,         \* MAX_TOOL_ITER
    Uses             \* bound: what each thread does, "chat", "review" or nothing, whether
                     \* its provider honours tool_choice, the lists of tool calls its model
                     \* replies with, in how many rounds unless forced, and the external
                     \* skills it asks for

LocalTools    == {"list_skills", "fetch_skill", "no such tool"}
ExternalTools == {"search_skills_catalog", "fetch_external_skill"}
Tools         == LocalTools \cup ExternalTools
Required      == {"list_skills", "search_skills_catalog"}   \* what called is asked about

ASSUME LoopAssumption ==
    /\ MaxIter \in Nat \ {0}
    /\ Uses \subseteq [Threads -> [tab : {"chat", "review", "none"},
                                  honours : BOOLEAN, rounds : Nat,
                                  replies : SUBSET (Seq(Tools) \ {<<>>}),
                                  names : SUBSET Names]]

VARIABLES
    use,             \* the member of Uses at hand
    place,           \* where the turn of a tab stands
    step,            \* rounds completed
    called,          \* the tools that were called and returned; two of them matter
    fetched,         \* fetched_local
    force,           \* force_search
    calls,           \* the calls of the last reply that have not returned
    rewinds          \* history: how often the model was sent back to search

loopVars == <<use, place, step, called, fetched, force, calls, rewinds>>
toolVars == <<catalogVars, loopVars>>

-----------------------------------------------------------------------------
\* "before" is for what a tab does before the loop.
Places == {"idle", "before", "ask", "call", "wait"}

LoopInit ==
    /\ use \in Uses
    /\ place = [t \in Threads |-> "idle"]
    /\ step = [t \in Threads |-> 0]
    /\ called = [t \in Threads |-> {}]
    /\ fetched = [t \in Threads |-> FALSE]
    /\ force = [t \in Threads |-> FALSE]
    /\ calls = [t \in Threads |-> <<>>]
    /\ rewinds = [t \in Threads |-> 0]

\* The process has died.
ResetLoops ==
    /\ place' = [t \in Threads |-> "idle"]
    /\ step' = [t \in Threads |-> 0]
    /\ called' = [t \in Threads |-> {}]
    /\ fetched' = [t \in Threads |-> FALSE]
    /\ force' = [t \in Threads |-> FALSE]
    /\ calls' = [t \in Threads |-> <<>>]
    /\ rewinds' = [t \in Threads |-> 0]
    /\ UNCHANGED use

In(t, where)  == place[t] = where
Move(t, where) == place' = [place EXCEPT ![t] = where]

\* The locals of the generator: made anew for each turn, gone with it.
NoLocals(t) ==
    /\ step' = [step EXCEPT ![t] = 0]
    /\ called' = [called EXCEPT ![t] = {}]
    /\ fetched' = [fetched EXCEPT ![t] = FALSE]
    /\ force' = [force EXCEPT ![t] = FALSE]
    /\ calls' = [calls EXCEPT ![t] = <<>>]
    /\ rewinds' = [rewinds EXCEPT ![t] = 0]
    /\ UNCHANGED use

StartLoop(t) == Move(t, "ask") /\ NoLocals(t)

\* The last box says what the model answered, that there was no answer within the
\* rounds, or which exception left the loop; nothing of the turn stays with the server.
EndTurn(t) == Move(t, "idle") /\ NoLocals(t)

-----------------------------------------------------------------------------
Asking(t) == In(t, "ask") /\ step[t] < MaxIter

\* tool_choice is passed and obeyed.
Forced(t) == force[t] /\ use[t].honours

\* The model answers although it has not done step 2 of the prompt.
SkippedSearch(t) ==
    /\ "list_skills" \in called[t]
    /\ "search_skills_catalog" \notin called[t]
    /\ ~fetched[t]
    /\ step[t] < MaxIter - 1

\* Mutant: the rewind forces nothing and takes no round.
RewindFree(t) ==
    /\ Asking(t) /\ ~Forced(t) /\ SkippedSearch(t)
    /\ rewinds' = [rewinds EXCEPT ![t] = 1 - @]
    /\ UNCHANGED <<catalogVars, use, place, step, called, fetched, calls, force>>

\* Mutant: the rewind forces nothing.
RewindUnforced(t) ==
    /\ Asking(t) /\ ~Forced(t) /\ SkippedSearch(t)
    /\ step' = [step EXCEPT ![t] = @ + 1]
    /\ rewinds' = [rewinds EXCEPT ![t] = @ + 1]
    /\ UNCHANGED <<catalogVars, use, place, called, fetched, force, calls>>

\* A user message demands the search, and tool_choice is to force it in the next round.
Rewind(t) ==
    /\ Asking(t) /\ ~Forced(t) /\ SkippedSearch(t)
    /\ force' = [force EXCEPT ![t] = TRUE]
    /\ step' = [step EXCEPT ![t] = @ + 1]
    /\ rewinds' = [rewinds EXCEPT ![t] = @ + 1]
    /\ UNCHANGED <<catalogVars, use, place, called, fetched, calls>>

Answer(t) ==
    /\ Asking(t) /\ ~Forced(t) /\ ~SkippedSearch(t)
    /\ EndTurn(t)
    /\ UNCHANGED catalogVars

\* Whatever comes back is done: searches, if tool_choice was obeyed.
CallTools(t) ==
    /\ Asking(t)
    /\ Forced(t) \/ step[t] < use[t].rounds
    /\ \E reply \in use[t].replies :
          /\ Forced(t) => \A i \in DOMAIN reply : reply[i] = "search_skills_catalog"
          /\ calls' = [calls EXCEPT ![t] = reply]
    /\ force' = [force EXCEPT ![t] = FALSE]
    /\ Move(t, "call")
    /\ UNCHANGED <<catalogVars, use, step, called, fetched, rewinds>>

\* No API key, an unknown provider, or any error of the request.
AskRaises(t) == Asking(t) /\ EndTurn(t) /\ UNCHANGED catalogVars

Exhausted(t) ==
    /\ In(t, "ask") /\ step[t] = MaxIter
    /\ EndTurn(t)
    /\ UNCHANGED catalogVars

-----------------------------------------------------------------------------
(***************************************************************************)
(* The calls of one reply, in order.                                       *)
(***************************************************************************)
Calling(t) == In(t, "call") \/ In(t, "wait")
Tool(t)    == Head(calls[t])

\* The result, an ERROR included, is shown and given to the model.  The round is over
\* with its last call.
Returns(t) ==
    /\ called' = [called EXCEPT ![t] = @ \cup ({Tool(t)} \cap Required)]
    /\ fetched' = [fetched EXCEPT ![t] = @ \/ Tool(t) = "fetch_skill"]
    /\ calls' = [calls EXCEPT ![t] = Tail(@)]
    /\ step' = [step EXCEPT ![t] = IF Len(calls[t]) = 1 THEN @ + 1 ELSE @]
    /\ Move(t, IF Len(calls[t]) = 1 THEN "ask" ELSE "call")
    /\ UNCHANGED <<use, force, rewinds>>

\* list_skills, fetch_skill and names that are no tool's.
CallLocal(t) ==
    /\ In(t, "call") /\ Tool(t) \in LocalTools
    /\ Returns(t)
    /\ UNCHANGED catalogVars

CallExternal(t) ==
    /\ In(t, "call")
    /\ \/ Tool(t) = "search_skills_catalog" /\ StartSearch(t)
       \/ Tool(t) = "fetch_external_skill" /\ \E n \in use[t].names : StartFetch(t, n)
    /\ Move(t, "wait")
    /\ UNCHANGED <<use, step, called, fetched, force, calls, rewinds>>

\* Arguments that are JSON but not an object of the right shape leave dispatch.
CallRaises(t) ==
    /\ In(t, "call") /\ Tool(t) \notin {"list_skills", "no such tool"}
    /\ EndTurn(t)
    /\ UNCHANGED catalogVars

ExternalReturns(t) ==
    /\ In(t, "wait") /\ At(t, "answered")
    /\ Return(t)
    /\ Returns(t)

ExternalRaises(t) ==
    /\ In(t, "wait") /\ At(t, "raised")
    /\ Return(t)
    /\ EndTurn(t)

ExternalStep(t) == In(t, "wait") /\ CatalogStep(t) /\ UNCHANGED loopVars

\* The browser goes away while the box of a call, pending or done, is the last thing
\* that was yielded.
Close(t) ==
    /\ In(t, "call") \/ (In(t, "ask") /\ step[t] > 0 /\ ~force[t])
    /\ EndTurn(t)
    /\ UNCHANGED catalogVars

LoopStep(t) ==
    \/ Rewind(t) \/ Answer(t) \/ CallTools(t) \/ AskRaises(t) \/ Exhausted(t)
    \/ CallLocal(t) \/ CallExternal(t) \/ CallRaises(t)
    \/ ExternalReturns(t) \/ ExternalRaises(t) \/ ExternalStep(t)

-----------------------------------------------------------------------------
LoopTypeOK ==
    /\ use \in Uses
    /\ place \in [Threads -> Places]
    /\ step \in [Threads -> 0..MaxIter]
    /\ called \in [Threads -> SUBSET Required]
    /\ fetched \in [Threads -> BOOLEAN]
    /\ force \in [Threads -> BOOLEAN]
    /\ calls \in [Threads -> Seq(Tools)]
    /\ rewinds \in [Threads -> Nat]

\* Whatever the model replies, it is sent back only while nothing was searched or fetched,
\* each time at the cost of a round, and always with a round left for the search; and if
\* the provider honours tool_choice, once, and neither an answer nor the end of the rounds
\* comes before a search has returned (app.py:116).
SentBackToSearch ==
    \A t \in Threads :
        /\ force[t] => /\ step[t] < MaxIter
                       /\ "search_skills_catalog" \notin called[t] /\ ~fetched[t]
        /\ rewinds[t] > 0 => rewinds[t] < step[t]
        /\ use[t].honours =>
               /\ rewinds[t] <= 1
               /\ rewinds[t] = 1 /\ ~force[t] /\ In(t, "ask") =>
                      "search_skills_catalog" \in called[t]
=============================================================================
