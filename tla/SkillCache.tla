------------------------------ MODULE SkillCache ------------------------------
(***************************************************************************)
(* The registered skills of skills.py: init() copies or downloads their    *)
(* files into skills_cache/ when a program starts, and lists in _CATALOG   *)
(* what fetch_skill will read from there.  The process may die at any      *)
(* moment and be started again over the files it left.                     *)
(*                                                                         *)
(* init() goes on to the external index, which is SkillCatalog's and       *)
(* raises nothing.  Of a text only its length counts, and of a file that   *)
(* is cut off nothing.                                                     *)
(***************************************************************************)
EXTENDS Integers, SequencesExt

CONSTANTS
    Registry,        \* the names of SKILL_REGISTRY, in order
    Locals,          \* those with "local": their sources lie beside the program
    Files,           \* the files of all skills
    FilesOf,         \* per skill its declared files, or those its repository lists
    Length,          \* per file: the characters of its block, heading included
    Cap,             \* MAX_CONTENT_CHARS
    Mark,            \* the length of the truncation mark
    Join,            \* the length of what joins two blocks
    MaxRestarts      \* bound: how often the process dies

Skills == Range(Registry)

ASSUME CacheAssumption ==
    /\ Registry \in Seq(Skills) /\ Registry # <<>> /\ Locals \subseteq Skills
    /\ FilesOf \in [Skills -> Seq(Files)]
    /\ \A s1, s2 \in Skills : s1 # s2 => Range(FilesOf[s1]) \cap Range(FilesOf[s2]) = {}
    /\ Length \in [Files -> Nat \ {0}]
    /\ Cap \in Nat /\ Mark \in Nat /\ Join \in Nat /\ MaxRestarts \in Nat

VARIABLES
    boot,            \* where skills.init() stands
    todo,            \* the skills it still has to see to, the one at hand first
    paths,           \* files of that skill still to see to
    listed,          \* rel_files
    building,        \* the local dictionary catalog
    catalog,         \* _CATALOG, per skill the files listed
    disk,            \* what skills_cache/ holds of each file
    restarts

cacheVars == <<boot, todo, paths, listed, building, catalog, disk, restarts>>

-----------------------------------------------------------------------------
Boots     == {"off", "skill", "files", "write", "ready", "raised"}
NoListing == [s \in Skills |-> <<>>]

NothingBooted(where, skills) ==
    /\ boot' = where
    /\ todo' = skills
    /\ paths' = <<>>
    /\ listed' = <<>>
    /\ building' = NoListing

CacheInit ==
    /\ boot = "off"
    /\ todo = <<>>
    /\ paths = <<>>
    /\ listed = <<>>
    /\ building = NoListing
    /\ catalog = NoListing
    /\ disk = [f \in Files |-> "none"]
    /\ restarts = 0

StartInit == boot = "off" /\ NothingBooted("skill", Registry) /\ UNCHANGED <<catalog, disk, restarts>>

\* A local skill names its files, a repository lists them; an HTTPError of the tree
\* leaves none.
ListSkill ==
    /\ boot = "skill" /\ todo # <<>>
    /\ boot' = "files"
    /\ paths' \in {FilesOf[Head(todo)]} \cup IF Head(todo) \in Locals THEN {} ELSE {<<>>}
    /\ listed' = <<>>
    /\ UNCHANGED <<todo, building, catalog, disk, restarts>>

Seeing   == boot = "files" /\ paths # <<>>
IsLocal  == Head(todo) \in Locals
NextFile == Head(paths)

\* Mutant: a copy that exists is not compared with its source.
CurrentExisting == disk[NextFile] # "none"

\* A download that exists is taken as it is; a local copy is compared with its source.
Current == IF IsLocal THEN disk[NextFile] = "whole" ELSE disk[NextFile] # "none"

KeepFile ==
    /\ Seeing /\ Current
    /\ listed' = Append(listed, NextFile)
    /\ paths' = Tail(paths)
    /\ UNCHANGED <<boot, todo, building, catalog, disk, restarts>>

\* write_bytes opens the file, which empties it; a download is in memory by then.
OpenFile ==
    /\ Seeing /\ ~Current
    /\ disk' = [disk EXCEPT ![NextFile] = "part"]
    /\ boot' = "write"
    /\ UNCHANGED <<todo, paths, listed, building, catalog, restarts>>

FillFile ==
    /\ boot = "write"
    /\ disk' = [disk EXCEPT ![NextFile] = "whole"]
    /\ listed' = Append(listed, NextFile)
    /\ paths' = Tail(paths)
    /\ boot' = "files"
    /\ UNCHANGED <<todo, building, catalog, restarts>>

\* Mutant: a file that could not be downloaded is listed all the same.
PassFileListed ==
    /\ Seeing /\ ~Current
    /\ listed' = Append(listed, NextFile)
    /\ paths' = Tail(paths)
    /\ UNCHANGED <<boot, todo, building, catalog, disk, restarts>>

\* A missing local source, or an HTTPError of the download.
PassFile ==
    /\ Seeing /\ (IsLocal \/ ~Current)
    /\ paths' = Tail(paths)
    /\ UNCHANGED <<boot, todo, listed, building, catalog, disk, restarts>>

\* Of the first n files of a skill those that are there.
Kept(s) ==
    LET kept[n \in 0..Len(FilesOf[s])] ==
            IF n = 0 THEN <<>>
            ELSE IF disk[FilesOf[s][n]] = "none" THEN kept[n - 1]
            ELSE Append(kept[n - 1], FilesOf[s][n])
    IN kept

OnDisk(s) == Kept(s)[Len(FilesOf[s])]

\* "if network failed, fall back to whatever sits in the cache dir".
SkillDone ==
    /\ boot = "files" /\ paths = <<>>
    /\ building' = [building EXCEPT ![Head(todo)] =
                        IF listed = <<>> /\ ~IsLocal THEN OnDisk(Head(todo)) ELSE listed]
    /\ todo' = Tail(todo)
    /\ boot' = "skill"
    /\ UNCHANGED <<paths, listed, catalog, disk, restarts>>

InitDone ==
    /\ boot = "skill" /\ todo = <<>>
    /\ catalog' = building
    /\ NothingBooted("ready", <<>>)
    /\ UNCHANGED <<disk, restarts>>

\* No connection, or a timeout: a URLError that is no HTTPError leaves init().
InitRaises ==
    /\ \/ boot = "skill" /\ todo # <<>> /\ Head(todo) \notin Locals
       \/ Seeing /\ ~Current /\ ~IsLocal
    /\ NothingBooted("raised", <<>>)
    /\ UNCHANGED <<catalog, disk, restarts>>

CacheStep ==
    \/ ListSkill \/ KeepFile \/ OpenFile \/ FillFile \/ PassFile
    \/ SkillDone \/ InitDone \/ InitRaises

\* The process is gone, and is started again when somebody wants to.
CacheDies ==
    /\ boot # "off" /\ restarts < MaxRestarts
    /\ restarts' = restarts + 1
    /\ NothingBooted("off", <<>>)
    /\ catalog' = NoListing
    /\ UNCHANGED disk

-----------------------------------------------------------------------------
(***************************************************************************)
(* fetch_skill without a file: the blocks of the listed files, until the   *)
(* cap is reached.                                                         *)
(***************************************************************************)
\* The length of block[:end].
Cut(length, end) ==
    IF end < 0 THEN IF length + end < 0 THEN 0 ELSE length + end
    ELSE IF length < end THEN length ELSE end

BlockLength(f) == IF disk[f] = "whole" THEN Length[f] ELSE 0

Added(sum, length) == [sum EXCEPT !.length = @ + length, !.parts = @ + 1]

\* Mutant: what the blocks before take up is forgotten.
AddBlockUncounted(sum, f) ==
    IF sum.full \/ disk[f] = "none" THEN sum
    ELSE IF BlockLength(f) > Cap
    THEN [Added(sum, Cut(BlockLength(f), Cap) + Mark) EXCEPT !.full = TRUE]
    ELSE Added(sum, BlockLength(f))

AddBlock(sum, f) ==
    IF sum.full \/ disk[f] = "none" THEN sum
    ELSE IF sum.used + BlockLength(f) > Cap
    THEN [Added(sum, Cut(BlockLength(f), Cap - sum.used) + Mark) EXCEPT !.full = TRUE]
    ELSE [Added(sum, BlockLength(f)) EXCEPT !.used = @ + BlockLength(f)]

\* After the first n listed files: what is used of the cap, whether the loop has ended,
\* the characters of the parts and how many parts there are.
Fetched(s) ==
    LET sum[n \in 0..Len(catalog[s])] ==
            IF n = 0 THEN [used |-> 0, full |-> FALSE, length |-> 0, parts |-> 0]
            ELSE AddBlock(sum[n - 1], catalog[s][n])
    IN sum

AnswerLength(s) ==
    LET sum == Fetched(s)[Len(catalog[s])]
    IN sum.length + Join * (IF sum.parts = 0 THEN 0 ELSE sum.parts - 1)

-----------------------------------------------------------------------------
CacheTypeOK ==
    /\ boot \in Boots
    /\ todo \in Seq(Skills)
    /\ paths \in Seq(Files)
    /\ listed \in Seq(Files)
    /\ building \in [Skills -> Seq(Files)]
    /\ catalog \in [Skills -> Seq(Files)]
    /\ disk \in [Files -> {"none", "part", "whole"}]
    /\ restarts \in 0..MaxRestarts

\* After a boot, however earlier ones ended and whichever downloads failed, the catalog
\* lists only files that are there, lists some for a downloaded skill of which there is
\* any, and what it lists of a local skill is whole (skills.py:99 and 131).
CatalogMatchesDisk ==
    boot = "ready" =>
        \A s \in Skills :
            /\ \A f \in Range(catalog[s]) : disk[f] # "none"
            /\ s \notin Locals /\ OnDisk(s) # <<>> => catalog[s] # <<>>
            /\ s \in Locals => \A f \in Range(catalog[s]) : disk[f] = "whole"

\* An answer of fetch_skill is over MAX_CONTENT_CHARS by no more than the mark and the
\* joins, also when a block ends exactly there (skills.py:271).
AnswersAreCapped ==
    boot = "ready" =>
        \A s \in Skills :
            AnswerLength(s) <= Cap + Mark + Join * (IF catalog[s] = <<>> THEN 0 ELSE Len(catalog[s]) - 1)
=============================================================================
