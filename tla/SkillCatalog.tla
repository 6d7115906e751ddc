---------------------------- MODULE SkillCatalog ----------------------------
(***************************************************************************)
(* The external skills of skills.py: an index of names, held in the global *)
(* _EXTERNAL_INDEX and in a cache file, and one SKILL.md per name, which   *)
(* is downloaded when it is first asked for.  The tools run in the threads *)
(* of the tabs, without locks, and the process may die at any moment.      *)
(*                                                                         *)
(* write_bytes and write_text open a file, which empties it, and then fill *)
(* it: another thread, or a crash, can come in between.  A thread reads    *)
(* the global anew each time the code names it.                            *)
(***************************************************************************)
EXTENDS Naturals, FiniteSets

CONSTANTS
    Threads,
    External,        \* the skills in the repository of external skills
    Invented,        \* names a model may ask for that are not in it
    Prefixed,        \* the skills that begin with the query of a search
    Inside,          \* those that contain it further on
    Position,        \* where a skill stands in the sorted list of names
    Limit,           \* the default of limit: 20 hits
    ClosestLimit,    \* the limit for the closest matches: 10
    IndexFile,       \* _index_mindrally.json
    MaxCrashes       \* bound: how often the process dies

ASSUME CatalogAssumption ==
    /\ Prefixed \subseteq External /\ Inside \subseteq External \ Prefixed
    /\ IsFiniteSet(External)
    /\ Position \in [External -> Nat]
    /\ \A m, n \in External : Position[m] = Position[n] => m = n
    /\ Limit \in Nat /\ ClosestLimit \in Nat
    /\ External # {} /\ External \cap Invented = {} /\ IndexFile \notin External \cup Invented
    /\ MaxCrashes \in Nat

VARIABLES
    up,              \* whether skills.init() has returned
    index,           \* _EXTERNAL_INDEX
    file,            \* what the disk holds of each file
    doing,           \* where the tool call of a thread stands
    op,              \* which call it is: the function and what becomes of its result
    name,            \* the skill it asks for
    hits,            \* what a search has found so far
    spoiled,         \* history: a load of the index failed during the call
    torn,            \* history: files that a crash cut off and nobody wrote again
    crashes

catalogVars == <<up, index, file, doing, op, name, hits, spoiled, torn, crashes>>

-----------------------------------------------------------------------------
Names   == External \cup Invented
Unasked == CHOOSE n \in Names : TRUE       \* the name where none is used
Files   == External \cup {IndexFile}
Ops     == {"boot", "search", "fetch", "closest"}
Phases  == {"free", "check", "load", "download", "open_index", "fill_index", "starts",
            "contains", "check_member", "member", "cached", "open", "fill",
            "answered", "raised"}

CatalogInit ==
    /\ up = FALSE
    /\ index = {}
    /\ file = [f \in Files |-> "none"]
    /\ doing = [t \in Threads |-> "free"]
    /\ op = [t \in Threads |-> "search"]
    /\ name = [t \in Threads |-> Unasked]
    /\ hits = [t \in Threads |-> {}]
    /\ spoiled = [t \in Threads |-> FALSE]
    /\ torn = {}
    /\ crashes = 0

At(t, phase) == doing[t] = phase
Go(t, phase) == doing' = [doing EXCEPT ![t] = phase]

Begin(t, call, n) ==
    /\ op' = [op EXCEPT ![t] = call]
    /\ name' = [name EXCEPT ![t] = n]
    /\ hits' = [hits EXCEPT ![t] = {}]
    /\ spoiled' = [spoiled EXCEPT ![t] = FALSE]

-----------------------------------------------------------------------------
(***************************************************************************)
(* _load_external_index.  Its callers ignore the list it returns.          *)
(***************************************************************************)
AfterLoad(t) ==
    CASE op[t] = "boot"  -> "free"
      [] op[t] = "fetch" -> "check_member"
      [] OTHER           -> "starts"

\* skills.init() ends with the load: the tabs are served from then on.
Loaded(t) == Go(t, AfterLoad(t)) /\ up' = (up \/ op[t] = "boot")

\* Mutant: whatever the cache file holds is taken for the index.
ReadCacheUnparsed(t) ==
    /\ At(t, "load") /\ file[IndexFile] # "none"
    /\ index' = IF file[IndexFile] = "whole" THEN External ELSE Prefixed
    /\ Loaded(t)
    /\ UNCHANGED <<file, op, name, hits, spoiled, torn, crashes>>

ReadCache(t) ==
    /\ At(t, "load") /\ file[IndexFile] = "whole"
    /\ index' = External
    /\ Loaded(t)
    /\ UNCHANGED <<file, op, name, hits, spoiled, torn, crashes>>

\* There is no cache file, or what it holds is no JSON because it was cut off.
MissCache(t) ==
    /\ At(t, "load") /\ file[IndexFile] # "whole"
    /\ Go(t, "download")
    /\ UNCHANGED <<up, index, file, op, name, hits, spoiled, torn, crashes>>

Download(t) ==
    /\ At(t, "download")
    /\ index' = External
    /\ Go(t, "open_index")
    /\ UNCHANGED <<up, file, op, name, hits, spoiled, torn, crashes>>

\* Any exception empties the global, also for the threads that are reading it.
DownloadFails(t) ==
    /\ At(t, "download")
    /\ index' = {}
    /\ Loaded(t)
    /\ spoiled' = [u \in Threads |-> spoiled[u] \/ ~At(u, "free")]
    /\ UNCHANGED <<file, op, name, hits, torn, crashes>>

Open(t, f, next) ==
    /\ file' = [file EXCEPT ![f] = "part"]
    /\ Go(t, next)
    /\ UNCHANGED <<up, index, op, name, hits, spoiled, torn, crashes>>

Fill(t, f) ==
    /\ file' = [file EXCEPT ![f] = "whole"]
    /\ torn' = torn \ {f}
    /\ UNCHANGED <<index, op, name, hits, spoiled, crashes>>

OpenIndex(t) == At(t, "open_index") /\ Open(t, IndexFile, "fill_index")

FillIndex(t) == At(t, "fill_index") /\ Fill(t, IndexFile) /\ Loaded(t)

Load(t) ==
    \/ ReadCache(t) \/ MissCache(t) \/ Download(t) \/ DownloadFails(t)
    \/ OpenIndex(t) \/ FillIndex(t)

-----------------------------------------------------------------------------
(***************************************************************************)
(* search_skills_catalog.                                                  *)
(***************************************************************************)
StartSearch(t) ==
    /\ up /\ At(t, "free")
    /\ Begin(t, "search", Unasked)
    /\ Go(t, "check")
    /\ UNCHANGED <<up, index, file, torn, crashes>>

\* "if not _EXTERNAL_INDEX", of a search and of a fetch.
Check(t) ==
    /\ At(t, "check")
    /\ Go(t, IF index = {} THEN "load" ELSE AfterLoad(t))
    /\ UNCHANGED <<up, index, file, op, name, hits, spoiled, torn, crashes>>

Earlier(n, names) == {m \in names : Position[m] < Position[n]}

\* (starts + contains)[:limit], of two sorted lists.
Cut(starts, contains, limit) ==
    {n \in starts : Cardinality(Earlier(n, starts)) < limit} \cup
    {n \in contains : Cardinality(starts) + Cardinality(Earlier(n, contains)) < limit}

LimitOf(t) == IF op[t] = "closest" THEN ClosestLimit ELSE Limit

\* An empty query lists the index; any other is answered in two scans of it.
ListAll(t) ==
    /\ At(t, "starts")
    /\ hits' = [hits EXCEPT ![t] = Cut(index, {}, LimitOf(t))]
    /\ Go(t, "answered")
    /\ UNCHANGED <<up, index, file, op, name, spoiled, torn, crashes>>

ScanStarts(t) ==
    /\ At(t, "starts")
    /\ hits' = [hits EXCEPT ![t] = index \cap Prefixed]
    /\ Go(t, "contains")
    /\ UNCHANGED <<up, index, file, op, name, spoiled, torn, crashes>>

ScanContains(t) ==
    /\ At(t, "contains")
    /\ hits' = [hits EXCEPT ![t] = Cut(@, (index \cap (Prefixed \cup Inside)) \ @, LimitOf(t))]
    /\ Go(t, "answered")
    /\ UNCHANGED <<up, index, file, op, name, spoiled, torn, crashes>>

-----------------------------------------------------------------------------
(***************************************************************************)
(* fetch_external_skill.                                                   *)
(***************************************************************************)
StartFetch(t, n) ==
    /\ up /\ At(t, "free")
    /\ Begin(t, "fetch", n)
    /\ Go(t, "check")
    /\ UNCHANGED <<up, index, file, torn, crashes>>

\* "if _EXTERNAL_INDEX and name not in _EXTERNAL_INDEX" reads the global twice.
CheckMember(t) ==
    /\ At(t, "check_member")
    /\ Go(t, IF index = {} THEN "cached" ELSE "member")
    /\ UNCHANGED <<up, index, file, op, name, hits, spoiled, torn, crashes>>

Member(t) ==
    /\ At(t, "member") /\ name[t] \in index
    /\ Go(t, "cached")
    /\ UNCHANGED <<up, index, file, op, name, hits, spoiled, torn, crashes>>

\* The ERROR names the closest matches, which is another search.
NoMember(t) ==
    /\ At(t, "member") /\ name[t] \notin index
    /\ Begin(t, "closest", Unasked)
    /\ Go(t, "check")
    /\ UNCHANGED <<up, index, file, torn, crashes>>

\* A file that exists is read, whoever is writing it.
Cached(t) ==
    /\ At(t, "cached") /\ name[t] \in External
    /\ file[name[t]] # "none"
    /\ Go(t, "answered")
    /\ UNCHANGED <<up, index, file, op, name, hits, spoiled, torn, crashes>>

Uncached(t) == At(t, "cached") /\ (name[t] \in External => file[name[t]] = "none")

\* Mutant: the file is opened for writing before the download.
GetIntoFile(t) ==
    /\ Uncached(t) /\ name[t] \in External
    /\ file' = [file EXCEPT ![name[t]] = "part"]
    /\ \E next \in {"fill", "answered"} : Go(t, next)
    /\ UNCHANGED <<up, index, op, name, hits, spoiled, torn, crashes>>

\* The whole body is in memory before the file is opened.
Get(t) ==
    /\ Uncached(t) /\ name[t] \in External
    /\ Go(t, "open")
    /\ UNCHANGED <<up, index, file, op, name, hits, spoiled, torn, crashes>>

\* An HTTPError is an ERROR for the model; no connection, or a timeout, leaves the tool.
GetFails(t) ==
    /\ Uncached(t)
    /\ \E end \in {"answered", "raised"} : Go(t, end)
    /\ UNCHANGED <<up, index, file, op, name, hits, spoiled, torn, crashes>>

OpenSkill(t) == At(t, "open") /\ Open(t, name[t], "fill")

FillSkill(t) == At(t, "fill") /\ Fill(t, name[t]) /\ Go(t, "answered") /\ UNCHANGED up

CatalogStep(t) ==
    \/ Check(t) \/ Load(t)
    \/ ListAll(t) \/ ScanStarts(t) \/ ScanContains(t)
    \/ CheckMember(t) \/ Member(t) \/ NoMember(t) \/ Cached(t)
    \/ Get(t) \/ GetFails(t) \/ OpenSkill(t) \/ FillSkill(t)

-----------------------------------------------------------------------------
(***************************************************************************)
(* The process.                                                            *)
(***************************************************************************)
\* skills.init() at the import of the program; the prepull is SkillCache's.
Boot(t) ==
    /\ ~up /\ \A u \in Threads : At(u, "free")
    /\ Begin(t, "boot", Unasked)
    /\ Go(t, "load")
    /\ UNCHANGED <<up, index, file, torn, crashes>>

\* The file a thread has opened and not yet filled.
Writing(t) ==
    IF At(t, "fill_index") THEN {IndexFile} ELSE IF At(t, "fill") THEN {name[t]} ELSE {}

\* The memory of the process is gone, what was written stays.
Die ==
    /\ crashes < MaxCrashes
    /\ crashes' = crashes + 1
    /\ torn' = torn \cup {f \in UNION {Writing(t) : t \in Threads} : file[f] = "part"}
    /\ up' = FALSE
    /\ index' = {}
    /\ doing' = [t \in Threads |-> "free"]
    /\ op' = [t \in Threads |-> "search"]
    /\ name' = [t \in Threads |-> Unasked]
    /\ hits' = [t \in Threads |-> {}]
    /\ spoiled' = [t \in Threads |-> FALSE]
    /\ UNCHANGED file

\* The thread goes on with the result of its call.
Return(t) ==
    /\ Begin(t, "search", Unasked)
    /\ Go(t, "free")
    /\ UNCHANGED <<up, index, file, torn, crashes>>

-----------------------------------------------------------------------------
CatalogTypeOK ==
    /\ up \in BOOLEAN
    /\ index \in {{}, External}
    /\ file \in [Files -> {"none", "part", "whole"}]
    /\ doing \in [Threads -> Phases]
    /\ op \in [Threads -> Ops]
    /\ name \in [Threads -> Names]
    /\ hits \in [Threads -> SUBSET External]
    /\ spoiled \in [Threads -> BOOLEAN]
    /\ torn \subseteq Files
    /\ crashes \in 0..MaxCrashes

\* A file that is cut off is being written at this moment or was torn by a crash: no
\* failed download leaves one (skills.py:233).
PartsHaveWriters ==
    \A f \in Files :
        file[f] = "part" => f \in torn \/ \E t \in Threads : f \in Writing(t)

\* found is a first page of the matches, the preferred ones before the others and each
\* in the order of names: it leaves a match out only if it is full of better ones.
FirstPage(found, preferred, others) ==
    /\ found \subseteq preferred \cup others
    /\ Cardinality(found) <= Limit
    /\ \A n \in (preferred \cup others) \ found :
          /\ Cardinality(found) = Limit
          /\ \A m \in found : \/ m \in preferred /\ n \notin preferred
                              \/ (m \in preferred <=> n \in preferred) /\ Position[m] < Position[n]

\* A search during which no load failed found every match, or the best of them up to the
\* limit, although the index may be loaded by several threads at once, from a cache file
\* that one of them is writing or that a crash has torn (skills.py:206).
SearchFindsBest ==
    \A t \in Threads :
        At(t, "answered") /\ op[t] = "search" /\ ~spoiled[t] =>
            FirstPage(hits[t], Prefixed, Inside) \/ FirstPage(hits[t], External, {})
=============================================================================
