----------------------------- MODULE StackDetect -----------------------------
(***************************************************************************)
(* detect_stack.py, one call of detect and suggest_skills: the tree of a   *)
(* repository shows some frameworks by the names of its files; each        *)
(* package.json is downloaded and adds frameworks with the versions it     *)
(* asks for, Python manifests add the frameworks they mention; from these  *)
(* follow the skills that the model is pointed to.                         *)
(*                                                                         *)
(* A tree and a package.json are whatever the repository holds, and are    *)
(* chosen when they are read.  Only frameworks with a skill count.  The    *)
(* texts of versions are left out but for the major version they begin     *)
(* with.  No file of Go names a framework that has a skill.                *)
(***************************************************************************)
EXTENDS Integers, FiniteSets, Sequences

CONSTANTS
    Techs,           \* frameworks of SKILL_RULES
    MinMajor,        \* the least major version a framework's skill is for, or NoMinimum
    Packages,        \* what a package.json may hold: see Content
    MaxPackages      \* bound: package.json files in the tree

NoMinimum == 0
Absent    == -2                         \* no section names the package
Unparsed  == -1                         \* a version without a number: "latest"
Sections  == <<"dependencies", "devDependencies", "peerDependencies">>
Versions  == Nat \cup {Absent, Unparsed}
Content   == [Techs -> [DOMAIN Sections -> Versions]]

ASSUME StackAssumption ==
    /\ MinMajor \in [Techs -> Nat]
    /\ Packages \subseteq Content
    /\ MaxPackages \in Nat

VARIABLES
    stage,           \* where detection stands
    left,            \* package.json files still to read
    frameworks,      \* the frameworks found
    majors,          \* Detection.majors, Absent where there is none
    suggested,       \* the frameworks whose skill is suggested
    asked            \* history: the major versions asked for by the files that were read

stackVars == <<stage, left, frameworks, majors, suggested, asked>>

-----------------------------------------------------------------------------
Stages == {"off", "tree", "packages", "skills", "known", "failed"}

NoStack(where) ==
    /\ stage' = where
    /\ left' = 0
    /\ frameworks' = {}
    /\ majors' = [t \in Techs |-> Absent]
    /\ suggested' = {}
    /\ asked' = [t \in Techs |-> {}]

StackInit ==
    /\ stage = "off"
    /\ left = 0
    /\ frameworks = {}
    /\ majors = [t \in Techs |-> Absent]
    /\ suggested = {}
    /\ asked = [t \in Techs |-> {}]

StartDetect  == stage = "off" /\ NoStack("tree")
ForgetDetect == NoStack("off")

\* list_tree, and the names of files that tell a framework.
ReadTree ==
    /\ stage = "tree"
    /\ stage' = "packages"
    /\ frameworks' \in SUBSET Techs
    /\ left' \in 0..MaxPackages
    /\ UNCHANGED <<majors, suggested, asked>>

\* The three sections are poured into one dictionary: the last one that names a
\* package decides its version.
Merged(package, t) ==
    LET naming == {n \in DOMAIN Sections : package[t][n] # Absent}
    IN IF naming = {} THEN Absent
       ELSE package[t][CHOOSE n \in naming : \A m \in naming : m <= n]

\* Mutant: the last file read decides.
HighestLast(old, version) == IF version >= 0 THEN version ELSE old

\* "keep highest observed major"; a version without a number tells nothing.
Highest(old, version) == IF version >= 0 /\ version > old THEN version ELSE old

ReadPackage ==
    /\ stage = "packages" /\ left > 0
    /\ \E package \in Packages :
          /\ frameworks' = frameworks \cup {t \in Techs : Merged(package, t) # Absent}
          /\ majors' = [t \in Techs |-> Highest(majors[t], Merged(package, t))]
          /\ asked' = [t \in Techs |-> asked[t] \cup ({Merged(package, t)} \ {Absent, Unparsed})]
    /\ left' = left - 1
    /\ UNCHANGED <<stage, suggested>>

\* An HTTPError, an empty file or no JSON: the file is passed over.
SkipPackage ==
    /\ stage = "packages" /\ left > 0
    /\ left' = left - 1
    /\ UNCHANGED <<stage, frameworks, majors, suggested, asked>>

\* pyproject.toml and requirements.txt: a framework whose name they mention is found.
ReadManifests ==
    /\ stage = "packages" /\ left = 0
    /\ \E mentioned \in SUBSET Techs : frameworks' = frameworks \cup mentioned
    /\ stage' = "skills"
    /\ UNCHANGED <<left, majors, suggested, asked>>

\* The skill is for the highest version found, or that is not known.
Fits(t) == MinMajor[t] = NoMinimum \/ majors[t] = Absent \/ majors[t] >= MinMajor[t]

SuggestSkills ==
    /\ stage = "skills"
    /\ suggested' = {t \in frameworks : Fits(t)}
    /\ stage' = "known"
    /\ UNCHANGED <<left, frameworks, majors, asked>>

\* No connection, a timeout, or JSON of another shape: detect raises.
DetectRaises ==
    /\ stage \in {"tree", "packages"}
    /\ NoStack("failed")

DetectStep ==
    \/ ReadTree \/ ReadPackage \/ SkipPackage \/ ReadManifests
    \/ SuggestSkills \/ DetectRaises

-----------------------------------------------------------------------------
StackTypeOK ==
    /\ stage \in Stages
    /\ left \in Nat
    /\ frameworks \subseteq Techs
    /\ majors \in [Techs -> Nat \cup {Absent}]
    /\ suggested \subseteq Techs
    /\ asked \in [Techs -> SUBSET Nat]

\* In whatever order the package.json files of a monorepo are read and whichever of
\* them cannot be read, a framework's skill is suggested exactly when no file that was
\* read asks for a version of it or one of them asks for a version the skill is for
\* (detect_stack.py:348).
SuggestedSkillFits ==
    stage = "known" =>
        \A t \in frameworks :
            t \in suggested <=>
                \/ MinMajor[t] = NoMinimum
                \/ asked[t] = {}
                \/ \E v \in asked[t] : v >= MinMajor[t]
=============================================================================
