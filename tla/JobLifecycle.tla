---------------------------- MODULE JobLifecycle ----------------------------
(***************************************************************************)
(* What the suggestion queue promises about a job, whatever Redis, the web *)
(* process and the workers do: a user has one active job at a time, a job  *)
(* is attempted by one worker at a time, only the worker that holds the    *)
(* attempt decides the outcome, and an outcome is final.                   *)
(***************************************************************************)
CONSTANTS
    Jobs,           \* ids of suggestion_jobs rows
    Users,          \* ids of users rows
    Workers,        \* worker containers
    Owner           \* Owner[j]: the user job j belongs to

VARIABLES
    status,         \* what GET /suggestions/{id} answers ("none" is a 404)
    attempts        \* <<j, w>>: worker w is running Layer 4 for job j

vars == <<status, attempts>>

Statuses == {"none", "queued", "running", "done", "error"}
Active   == {"queued", "running"}
Terminal == {"done", "error"}

UnderWay(j) == \E w \in Workers : <<j, w>> \in attempts

Init ==
    /\ status = [j \in Jobs |-> "none"]
    /\ attempts = {}

\* A POST answered 201.
Admit(j) ==
    /\ status[j] = "none"
    /\ \A k \in Jobs : Owner[k] = Owner[j] => status[k] \notin Active
    /\ status' = [status EXCEPT ![j] = "queued"]
    /\ UNCHANGED attempts

\* A POST answered 503: the row is kept, in a terminal state.
Reject(j) ==
    /\ status[j] = "none"
    /\ status' = [status EXCEPT ![j] = "error"]
    /\ UNCHANGED attempts

Start(j, w) ==
    /\ status[j] = "queued"
    /\ ~UnderWay(j)
    /\ \A k \in Jobs : <<k, w>> \notin attempts
    /\ status' = [status EXCEPT ![j] = "running"]
    /\ attempts' = attempts \cup {<<j, w>>}

Complete(j, w) ==
    /\ <<j, w>> \in attempts
    /\ \E outcome \in Terminal : status' = [status EXCEPT ![j] = outcome]
    /\ attempts' = attempts \ {<<j, w>>}

\* The worker is gone, or could not record what it found.
Abandon(j, w) ==
    /\ <<j, w>> \in attempts
    /\ attempts' = attempts \ {<<j, w>>}
    /\ UNCHANGED status

\* A boot takes back abandoned jobs, as many as it finds stale.
Revive(S) ==
    /\ \A j \in S : status[j] = "running" /\ ~UnderWay(j)
    /\ status' = [j \in Jobs |-> IF j \in S THEN "queued" ELSE status[j]]
    /\ UNCHANGED attempts

Next ==
    \/ \E j \in Jobs : Admit(j) \/ Reject(j)
    \/ \E j \in Jobs, w \in Workers : Start(j, w) \/ Complete(j, w) \/ Abandon(j, w)
    \/ \E S \in SUBSET Jobs : Revive(S)

Spec == Init /\ [][Next]_vars
=============================================================================
