--------------------------- MODULE SkillCacheProofs ---------------------------
(***************************************************************************)
(* What skills.py guarantees about its registered skills, for any registry *)
(* and any files: the catalog lists what is in skills_cache/, after any    *)
(* number of boots that ended anywhere, and no answer is over the cap.     *)
(*                                                                         *)
(* What the loops over the files of a skill compute is proved by induction *)
(* on the number of files read (NumberProofs).                             *)
(***************************************************************************)
EXTENDS SkillCache, NumberProofs, FiniteSetTheorems, FunctionTheorems, SequenceTheorems

-----------------------------------------------------------------------------
(***************************************************************************)
(* The files of a skill that are there.                                    *)
(***************************************************************************)
\* Kept satisfies the equation it is defined by.
LEMMA KeptIs ==
    ASSUME CacheTypeOK, NEW s \in Skills, NEW n, n = Len(FilesOf[s])
    PROVE  /\ n \in Nat
           /\ Kept(s) \in [0..n -> Seq(Files)]
           /\ Kept(s)[0] = <<>>
           /\ \A k \in 1..n :
                  Kept(s)[k] = IF disk[FilesOf[s][k]] = "none" THEN Kept(s)[k - 1]
                               ELSE Append(Kept(s)[k - 1], FilesOf[s][k])
<1> DEFINE V == Seq(Files)
           Step(k, q) == IF disk[FilesOf[s][k]] = "none" THEN q ELSE Append(q, FilesOf[s][k])
           next == [k \in 1..n |-> [q \in V |-> Step(k, q)]]
           Eq(h) == h = [k \in 0..n |-> IF k = 0 THEN <<>> ELSE Step(k, h[k - 1])]
<1>1. n \in Nat /\ <<>> \in V /\ \A k \in 1..n : FilesOf[s][k] \in Files
  BY CacheAssumption, EmptySeq, ElementOfSeq, LenProperties
<1>2. \A k \in 1..n, q \in V : Step(k, q) \in V
  BY <1>1, AppendProperties
<1> HIDE DEF V, Step
<1>3. next \in [1..n -> [V -> V]] /\ \A k \in 1..n, q \in V : next[k][q] = Step(k, q)
  BY <1>2
<1> HIDE DEF next
<1>4. PICK f \in [0..n -> V] : f[0] = <<>> /\ \A k \in 1..n : f[k] = next[k][f[k - 1]]
  <2>1. Recursions(n, V, <<>>, next) # {}
    BY <1>1, <1>3, Recursion
  <2> QED
    BY <2>1 DEF Recursions
<1>5. \A k \in 1..n : f[k - 1] \in V /\ f[k] = Step(k, f[k - 1])
  BY <1>1, <1>3, <1>4
<1>6. Eq(f)
  BY <1>1, <1>4, <1>5
<1>7. Kept(s) = CHOOSE h : Eq(h)
  BY DEF Kept, Step
<1>8. Eq(Kept(s))
  <2> HIDE DEF Eq
  <2> QED
    BY <1>6, <1>7
<1>9. Kept(s)[0] = <<>> /\ \A k \in 1..n : Kept(s)[k] = Step(k, Kept(s)[k - 1])
  BY <1>1, <1>8
<1>10. Kept(s) \in [0..n -> V]
  <2> DEFINE T == {k \in 0..n : Kept(s)[k] \in V}
  <2>1. 0 \in T /\ \A k \in 1..n : k - 1 \in T => k \in T
    BY <1>1, <1>2, <1>9
  <2>2. \A k \in 0..n : k \in T
    <3> HIDE DEF T
    <3> QED
      BY <1>1, <2>1, Induction
  <2>3. \A k \in 0..n : Kept(s)[k] \in V
    BY <2>2
  <2>4. Kept(s) = [k \in 0..n |-> Kept(s)[k]]
    BY <1>8
  <2> QED
    BY <2>3, <2>4
<1> QED
  BY <1>1, <1>9, <1>10 DEF V, Step

\* The elements of what the loops make of sequences.
LEMMA RangeEmpty == Range(<<>>) = {}
BY EmptySeq DEF Range

LEMMA RangeAppend ==
    ASSUME NEW S, NEW q \in Seq(S), NEW e \in S
    PROVE  Range(Append(q, e)) = Range(q) \cup {e}
<1> DEFINE a == Append(q, e)
<1>1. /\ a \in Seq(S) /\ Len(a) = Len(q) + 1 /\ Len(q) \in Nat
      /\ \A i \in 1..Len(q) : a[i] = q[i]
      /\ a[Len(q) + 1] = e
  BY AppendProperties, LenProperties
<1> HIDE DEF a
<1>2. DOMAIN a = 1..Len(q) + 1 /\ DOMAIN q = 1..Len(q)
  BY <1>1, LenProperties
<1>3. Range(a) = Range(q) \cup {e}
  BY <1>1, <1>2 DEF Range
<1> QED
  BY <1>3 DEF a

LEMMA RangeHeadTail ==
    ASSUME NEW S, NEW q \in Seq(S), q # <<>>
    PROVE  /\ Range(q) = {Head(q)} \cup Range(Tail(q))
           /\ Head(q) \in S /\ Tail(q) \in Seq(S)
<1> DEFINE t == Tail(q)
<1>1. /\ Head(q) \in S /\ t \in Seq(S) /\ Len(t) = Len(q) - 1
      /\ \A i \in 1..Len(t) : t[i] = q[i + 1]
  BY HeadTailProperties
<1>2. Head(q) = q[1] /\ Len(q) \in Nat \ {0}
  BY EmptySeq, LenProperties
<1> HIDE DEF t
<1>3. DOMAIN t = 1..Len(q) - 1 /\ DOMAIN q = 1..Len(q)
  BY <1>1, LenProperties
<1>4. \A i \in 1..Len(q) : i = 1 \/ (i - 1 \in 1..Len(t) /\ t[i - 1] = q[i])
  BY <1>1, <1>2
<1>5. Range(q) = {Head(q)} \cup Range(t)
  <2>1. ASSUME NEW i \in 1..Len(q) PROVE q[i] = Head(q) \/ q[i] \in Range(t)
    BY <1>1, <1>2, <1>3, <1>4 DEF Range
  <2>2. ASSUME NEW i \in 1..Len(q) - 1 PROVE t[i] \in Range(q)
    BY <1>1, <1>2, <1>3 DEF Range
  <2>3. Head(q) \in Range(q)
    BY <1>2, <1>3 DEF Range
  <2> QED
    BY <1>3, <2>1, <2>2, <2>3 DEF Range
<1> QED
  BY <1>1, <1>5 DEF t

\* What of a skill is found on the disk is there, and something is found when something
\* is there.
LEMMA OnDiskIsThere ==
    ASSUME CacheTypeOK, NEW s \in Skills
    PROVE  /\ OnDisk(s) \in Seq(Files)
           /\ \A f \in Range(OnDisk(s)) : f \in Range(FilesOf[s]) /\ disk[f] # "none"
           /\ OnDisk(s) # <<>> <=> \E f \in Range(FilesOf[s]) : disk[f] # "none"
<1> DEFINE n == Len(FilesOf[s])
           There(f) == f \in Range(FilesOf[s]) /\ disk[f] # "none"
           Good(k) == /\ Kept(s)[k] \in Seq(Files)
                      /\ \A f \in Range(Kept(s)[k]) : There(f)
                      /\ Kept(s)[k] # <<>> <=> \E i \in 1..k : disk[FilesOf[s][i]] # "none"
           T == {k \in 0..n : Good(k)}
<1>1. /\ n \in Nat /\ DOMAIN FilesOf[s] = 1..n
      /\ \A k \in 1..n : FilesOf[s][k] \in Files /\ FilesOf[s][k] \in Range(FilesOf[s])
  BY CacheAssumption, ElementOfSeq, LenProperties DEF Range
<1>2. 0 \in T
  <2>1. Kept(s)[0] = <<>>
    BY KeptIs
  <2>2. Good(0)
    BY <2>1, RangeEmpty, EmptySeq
  <2> HIDE DEF Good
  <2> QED
    BY <1>1, <2>2
<1>3. ASSUME NEW k \in 1..n, k - 1 \in T PROVE k \in T
  <2> DEFINE q == Kept(s)[k - 1]
             f == FilesOf[s][k]
  <2>1. Kept(s)[k] = IF disk[f] = "none" THEN q ELSE Append(q, f)
    BY KeptIs
  <2>2. q \in Seq(Files) /\ f \in Files /\ (\A g \in Range(q) : There(g))
    BY <1>1, <1>3
  <2>3. q # <<>> <=> \E i \in 1..k - 1 : disk[FilesOf[s][i]] # "none"
    BY <1>3
  <2>4. CASE disk[f] = "none"
    <3>1. (\E i \in 1..k : disk[FilesOf[s][i]] # "none") <=> q # <<>>
      BY <2>3, <2>4
    <3> HIDE DEF q
    <3> QED
      BY <2>1, <2>2, <2>4, <3>1
  <2>5. CASE disk[f] # "none"
    <3>1. /\ Kept(s)[k] \in Seq(Files) /\ Kept(s)[k] # <<>>
          /\ Range(Kept(s)[k]) = Range(q) \cup {f}
      <4> HIDE DEF q, f
      <4> QED
        BY <2>1, <2>2, <2>5, AppendProperties, RangeAppend
    <3>2. There(f)
      BY <1>1, <2>5
    <3>3. \E i \in 1..k : disk[FilesOf[s][i]] # "none"
      BY <2>5
    <3> HIDE DEF q, f
    <3> QED
      BY <2>2, <3>1, <3>2, <3>3
  <2> QED
    BY <2>4, <2>5
<1>4. n \in T
  <2> HIDE DEF T
  <2>1. \A k \in 1..n : k - 1 \in T => k \in T
    BY <1>3
  <2>2. \A k \in 0..n : k \in T
    BY <1>1, <1>2, <2>1, Induction
  <2> QED
    BY <1>1, <2>2
<1>5. Good(n) /\ OnDisk(s) = Kept(s)[n]
  BY <1>4 DEF OnDisk
<1>6. (\E i \in 1..n : disk[FilesOf[s][i]] # "none") <=> \E f \in Range(FilesOf[s]) : disk[f] # "none"
  BY <1>1 DEF Range
<1> QED
  BY <1>5, <1>6

-----------------------------------------------------------------------------
(***************************************************************************)
(* The answer of fetch_skill.                                              *)
(***************************************************************************)
Sums == [used : Nat, full : BOOLEAN, length : Nat, parts : Nat]
NoSum == [used |-> 0, full |-> FALSE, length |-> 0, parts |-> 0]

\* What the loop knows of its parts: until it has ended they are what is used of the cap.
Capped ==
    {sum \in Sums :
        /\ sum.used <= Cap
        /\ ~sum.full => sum.length = sum.used
        /\ sum.full => sum.length <= Cap + Mark}

LEMMA AddBlockCapped ==
    ASSUME CacheTypeOK, NEW f \in Files, NEW sum \in Capped
    PROVE  AddBlock(sum, f) \in Capped /\ AddBlock(sum, f).parts <= sum.parts + 1
<1> DEFINE b == BlockLength(f)
           c == Cut(b, Cap - sum.used)
<1>1. Cap \in Nat /\ Mark \in Nat /\ b \in Nat
  BY CacheAssumption DEF BlockLength
<1>2. sum \in Sums /\ sum.used \in Nat /\ sum.used <= Cap /\ sum.length \in Nat /\ sum.parts \in Nat
  BY DEF Capped, Sums
<1> HIDE DEF b
<1>3. c \in Nat /\ c <= Cap - sum.used
  BY <1>1, <1>2 DEF Cut
<1> HIDE DEF c
<1>4. CASE sum.full \/ disk[f] = "none"
  BY <1>2, <1>4 DEF AddBlock
<1>5. CASE ~sum.full /\ disk[f] # "none" /\ sum.used + b > Cap
  <2> DEFINE new == [used |-> sum.used, full |-> TRUE, length |-> sum.length + (c + Mark),
                     parts |-> sum.parts + 1]
  <2>1. AddBlock(sum, f) = new
    BY <1>2, <1>5 DEF AddBlock, Added, Sums, b, c
  <2>2. sum.length = sum.used
    BY <1>5 DEF Capped
  <2>3. new \in Capped /\ new.parts = sum.parts + 1
    BY <1>1, <1>2, <1>3, <2>2 DEF Capped, Sums
  <2> HIDE DEF new
  <2> QED
    BY <1>2, <2>1, <2>3
<1>6. CASE ~sum.full /\ disk[f] # "none" /\ ~(sum.used + b > Cap)
  <2> DEFINE new == [used |-> sum.used + b, full |-> FALSE, length |-> sum.length + b,
                     parts |-> sum.parts + 1]
  <2>1. AddBlock(sum, f) = new
    BY <1>2, <1>6 DEF AddBlock, Added, Sums, b
  <2>2. sum.length = sum.used
    BY <1>6 DEF Capped
  <2>3. new \in Capped /\ new.parts = sum.parts + 1
    BY <1>1, <1>2, <1>6, <2>2 DEF Capped, Sums
  <2> HIDE DEF new
  <2> QED
    BY <1>2, <2>1, <2>3
<1> QED
  BY <1>4, <1>5, <1>6

\* Fetched satisfies the equation it is defined by, and its sums stay capped.
LEMMA FetchedCapped ==
    ASSUME CacheTypeOK, NEW s \in Skills, NEW n, n = Len(catalog[s])
    PROVE  n \in Nat /\ Fetched(s)[n] \in Capped /\ Fetched(s)[n].parts <= n
<1> DEFINE Step(k, sum) == AddBlock(sum, catalog[s][k])
           next == [k \in 1..n |-> [sum \in Capped |-> Step(k, sum)]]
           Eq(h) == h = [k \in 0..n |-> IF k = 0 THEN NoSum ELSE Step(k, h[k - 1])]
<1>1. n \in Nat /\ \A k \in 1..n : catalog[s][k] \in Files
  <2>1. catalog[s] \in Seq(Files)
    BY DEF CacheTypeOK
  <2> QED
    BY <2>1, ElementOfSeq, LenProperties
<1>2. NoSum \in Capped /\ NoSum.parts = 0
  BY CacheAssumption DEF NoSum, Sums, Capped
<1>3. \A k \in 1..n, sum \in Capped : Step(k, sum) \in Capped /\ Step(k, sum).parts <= sum.parts + 1
  BY <1>1, AddBlockCapped
<1> HIDE DEF Step
<1>4. next \in [1..n -> [Capped -> Capped]]
  BY <1>3
<1>5. \A k \in 1..n, sum \in Capped : next[k][sum] = Step(k, sum)
  OBVIOUS
<1> HIDE DEF next
<1>6. PICK f \in [0..n -> Capped] : f[0] = NoSum /\ \A k \in 1..n : f[k] = next[k][f[k - 1]]
  <2>1. Recursions(n, Capped, NoSum, next) # {}
    BY <1>1, <1>2, <1>4, Recursion
  <2> QED
    BY <2>1 DEF Recursions
<1>7. \A k \in 1..n : f[k] = Step(k, f[k - 1])
  BY <1>1, <1>5, <1>6
<1>8. Eq(f)
  BY <1>1, <1>6, <1>7
<1> DEFINE h == Fetched(s)
<1>9. h = CHOOSE g : Eq(g)
  BY DEF Fetched, Step, NoSum
<1> HIDE DEF h
<1>10. Eq(h)
  <2> HIDE DEF Eq
  <2> QED
    BY <1>8, <1>9
<1>11. h[0] = NoSum /\ \A k \in 1..n : h[k] = Step(k, h[k - 1])
  BY <1>1, <1>10
<1> DEFINE T == {k \in 0..n : h[k] \in Capped /\ h[k].parts <= k}
<1>12. 0 \in T
  BY <1>1, <1>2, <1>11
<1>13. ASSUME NEW k \in 1..n, k - 1 \in T PROVE k \in T
  <2>1. h[k - 1] \in Capped /\ h[k - 1].parts \in Nat /\ h[k - 1].parts <= k - 1
    BY <1>13 DEF Capped, Sums
  <2>2. h[k] \in Capped /\ h[k].parts <= h[k - 1].parts + 1
    BY <1>3, <1>11, <2>1
  <2>3. h[k].parts \in Nat
    BY <2>2 DEF Capped, Sums
  <2> QED
    BY <1>1, <2>1, <2>2, <2>3
<1>14. n \in T
  <2> HIDE DEF T
  <2>1. \A k \in 1..n : k - 1 \in T => k \in T
    BY <1>13
  <2>2. \A k \in 0..n : k \in T
    BY <1>1, <1>12, <2>1, Induction
  <2> QED
    BY <1>1, <2>2
<1> QED
  BY <1>1, <1>14 DEF h

LEMMA Products ==
    ASSUME NEW a \in Nat, NEW b \in Nat, NEW j \in Nat, a <= b
    PROVE  j * a \in Nat /\ j * b \in Nat /\ j * a <= j * b
BY Z3

\* Whatever the catalog lists and the disk holds, no answer is over the cap.
LEMMA AnswerCapped ==
    ASSUME CacheTypeOK, NEW s \in Skills
    PROVE  AnswerLength(s) <= Cap + Mark + Join * (IF catalog[s] = <<>> THEN 0 ELSE Len(catalog[s]) - 1)
<1> DEFINE n == Len(catalog[s])
           sum == Fetched(s)[n]
           joins == IF sum.parts = 0 THEN 0 ELSE sum.parts - 1
           most == IF catalog[s] = <<>> THEN 0 ELSE n - 1
<1>1. n \in Nat /\ sum \in Capped /\ sum.parts <= n
  BY FetchedCapped
<1>2. n = 0 <=> catalog[s] = <<>>
  <2>1. catalog[s] \in Seq(Files)
    BY DEF CacheTypeOK
  <2> QED
    BY <2>1, EmptySeq, LenProperties
<1>3. AnswerLength(s) = sum.length + Join * joins
  BY DEF AnswerLength
<1> HIDE DEF sum, n
<1>4. /\ sum.length \in Nat /\ sum.parts \in Nat /\ Cap \in Nat /\ Mark \in Nat /\ Join \in Nat
      /\ sum.length <= Cap + Mark
  BY <1>1, CacheAssumption DEF Capped, Sums
<1>5. joins \in Nat /\ most \in Nat /\ joins <= most
  BY <1>1, <1>2, <1>4
<1> HIDE DEF joins, most
<1>6. Join * joins \in Nat /\ Join * most \in Nat /\ Join * joins <= Join * most
  BY <1>4, <1>5, Products
<1>7. sum.length + Join * joins <= Cap + Mark + Join * most
  BY <1>4, <1>6
<1> QED
  BY <1>3, <1>7 DEF most, n

-----------------------------------------------------------------------------
(***************************************************************************)
(* The boot.  A skill that init() has seen to is in order in the new       *)
(* catalog and stays so, as the skills have no file in common.             *)
(***************************************************************************)
InOrder(s, files) ==
    /\ \A f \in Range(files) : f \in Range(FilesOf[s]) /\ disk[f] # "none"
    /\ s \notin Locals /\ (\E f \in Range(FilesOf[s]) : disk[f] # "none") => files # <<>>
    /\ s \in Locals => \A f \in Range(files) : disk[f] = "whole"

CacheInv ==
    /\ CacheTypeOK
    /\ boot \in {"skill", "files", "write"} =>
           \A s \in Skills \ Range(todo) : InOrder(s, building[s])
    /\ boot \in {"files", "write"} =>
         /\ todo # <<>>
         /\ Range(paths) \subseteq Range(FilesOf[Head(todo)])
         /\ \A f \in Range(listed) : /\ f \in Range(FilesOf[Head(todo)]) /\ disk[f] # "none"
                                     /\ Head(todo) \in Locals => disk[f] = "whole"
    /\ boot = "write" => paths # <<>> /\ NextFile \notin Range(listed)
    /\ boot = "ready" => \A s \in Skills : InOrder(s, catalog[s])

LEMMA CacheStarts == CacheInit => CacheInv
<1> SUFFICES ASSUME CacheInit PROVE CacheInv
  OBVIOUS
<1> QED
  BY EmptySeq, CacheAssumption DEF CacheInit, CacheInv, CacheTypeOK, Boots, NoListing

LEMMA CacheBegins ==
    ASSUME CacheInv, StartInit \/ CacheDies
    PROVE  CacheInv'
<1>1. /\ boot' \in {"skill", "off"} /\ (boot' = "skill" => todo' = Registry)
      /\ todo' \in {Registry, <<>>} /\ paths' = <<>> /\ listed' = <<>> /\ building' = NoListing
      /\ catalog' \in {catalog, NoListing} /\ disk' = disk
  BY DEF StartInit, CacheDies, NothingBooted
<1>2. CacheTypeOK'
  <2> USE DEF CacheInv, CacheTypeOK
  <2>1. restarts' \in 0..MaxRestarts
    <3>1. restarts \in 0..MaxRestarts /\ MaxRestarts \in Nat
      BY CacheAssumption
    <3>2. restarts' = restarts \/ (restarts < MaxRestarts /\ restarts' = restarts + 1)
      BY DEF StartInit, CacheDies
    <3> QED
      BY ONLY <3>1, <3>2
  <2>2. NoListing \in [Skills -> Seq(Files)]
    BY EmptySeq DEF NoListing
  <2>3. Registry \in Seq(Skills) /\ <<>> \in Seq(Skills) /\ <<>> \in Seq(Files)
    BY EmptySeq, CacheAssumption
  <2> QED
    BY <1>1, <2>1, <2>2, <2>3 DEF Boots
<1>3. boot' = "skill" => Skills \ Range(todo') = {}
  BY <1>1 DEF Skills
<1> QED
  BY <1>1, <1>2, <1>3 DEF CacheInv

\* A skill without files of the one at hand is not touched by what is written.
LEMMA OthersStay ==
    ASSUME CacheTypeOK, NEW g \in Files, \A f \in Files \ {g} : disk'[f] = disk[f],
           NEW s \in Skills, g \notin Range(FilesOf[s]), NEW files, InOrder(s, files)
    PROVE  InOrder(s, files)'
<1>1. Range(FilesOf[s]) \subseteq Files
  BY CacheAssumption, RangeOfSeq
<1> QED
  BY <1>1 DEF InOrder

\* init() sees to a file of the skill at hand, or passes it.
LEMMA FileSeen ==
    ASSUME CacheInv, Seeing, paths' = Tail(paths), boot' = "files",
           UNCHANGED <<todo, building, catalog, disk, restarts>>,
           \/ listed' = listed
           \/ /\ listed' = Append(listed, NextFile) /\ disk[NextFile] # "none"
              /\ IsLocal => disk[NextFile] = "whole"
    PROVE  CacheInv'
<1> USE DEF CacheInv, Seeing
<1>1. /\ Range(paths) = {NextFile} \cup Range(Tail(paths))
      /\ NextFile \in Files /\ Tail(paths) \in Seq(Files)
  BY RangeHeadTail DEF NextFile, CacheTypeOK
<1>2. listed' \in Seq(Files) /\ Range(listed') \subseteq Range(listed) \cup {NextFile}
  <2>1. listed \in Seq(Files)
    BY DEF CacheTypeOK
  <2>2. /\ Append(listed, NextFile) \in Seq(Files)
        /\ Range(Append(listed, NextFile)) = Range(listed) \cup {NextFile}
    BY <1>1, <2>1, AppendProperties, RangeAppend
  <2>3. listed' \in {listed, Append(listed, NextFile)}
    OBVIOUS
  <2> QED
    BY ONLY <2>1, <2>2, <2>3
<1>3. CacheTypeOK'
  BY <1>1, <1>2 DEF CacheTypeOK
<1>4. \A f \in Range(listed') : /\ f \in Range(FilesOf[Head(todo)]) /\ disk[f] # "none"
                                /\ Head(todo) \in Locals => disk[f] = "whole"
  <2>1. CASE listed' = listed
    BY <2>1
  <2>2. CASE disk[NextFile] # "none" /\ (IsLocal => disk[NextFile] = "whole")
    BY <1>1, <1>2, <2>2 DEF IsLocal
  <2> QED
    BY <2>1, <2>2
<1>5. \A s \in Skills \ Range(todo) : InOrder(s, building[s])'
  BY DEF InOrder
<1> QED
  BY <1>1, <1>3, <1>4, <1>5

\* A write changes a file of the skill at hand that is not listed yet.
LEMMA FileWritten ==
    ASSUME CacheInv, boot \in {"files", "write"}, boot' \in {"files", "write"}, paths # <<>>,
           NextFile \notin Range(listed),
           NEW content \in {"part", "whole"}, disk' = [disk EXCEPT ![NextFile] = content],
           UNCHANGED <<todo, building, catalog, restarts>>,
           \/ content = "part" /\ boot' = "write" /\ UNCHANGED <<paths, listed>>
           \/ content = "whole" /\ boot' = "files" /\ paths' = Tail(paths)
              /\ listed' = Append(listed, NextFile)
    PROVE  CacheInv'
<1> USE DEF CacheInv
<1>1. /\ Range(paths) = {NextFile} \cup Range(Tail(paths))
      /\ NextFile \in Files /\ Tail(paths) \in Seq(Files)
  BY RangeHeadTail DEF NextFile, CacheTypeOK
<1>2. listed \in Seq(Files) /\ Append(listed, NextFile) \in Seq(Files)
      /\ Range(Append(listed, NextFile)) = Range(listed) \cup {NextFile}
  <2>1. listed \in Seq(Files)
    BY DEF CacheTypeOK
  <2> QED
    BY <1>1, <2>1, AppendProperties, RangeAppend
<1>3. disk' \in [Files -> {"none", "part", "whole"}] /\ disk'[NextFile] = content
      /\ \A f \in Files \ {NextFile} : disk'[f] = disk[f]
  BY <1>1 DEF CacheTypeOK
<1>4. CacheTypeOK'
  BY <1>1, <1>2, <1>3 DEF CacheTypeOK, Boots
<1>5. ASSUME NEW s \in Skills \ Range(todo) PROVE InOrder(s, building[s])'
  <2>1. Head(todo) \in Skills /\ Head(todo) \in Range(todo)
    BY RangeHeadTail DEF CacheTypeOK
  <2>2. NextFile \notin Range(FilesOf[s])
    BY <1>1, <2>1, CacheAssumption
  <2>3. InOrder(s, building[s]) /\ CacheTypeOK
    OBVIOUS
  <2> QED
    BY <1>1, <1>3, <2>2, <2>3, OthersStay
<1>6. ASSUME NEW f \in Range(listed')
      PROVE  /\ f \in Range(FilesOf[Head(todo)]) /\ disk'[f] # "none"
             /\ Head(todo) \in Locals => disk'[f] = "whole"
  <2>1. CASE f \in Range(listed)
    <3>1. f \in Files \ {NextFile}
      BY <1>2, <2>1, RangeOfSeq
    <3> QED
      BY <1>3, <2>1, <3>1
  <2>2. CASE f = NextFile /\ content = "whole"
    BY <1>1, <1>3, <2>2
  <2> QED
    BY <1>2, <1>6, <2>1, <2>2
<1>7. boot' = "write" => paths' # <<>> /\ NextFile' \notin Range(listed')
  BY DEF NextFile
<1>8. Range(paths') \subseteq Range(FilesOf[Head(todo)])
  BY <1>1
<1> QED
  BY <1>4, <1>5, <1>6, <1>7, <1>8

LEMMA CacheKeeps ==
    ASSUME CacheInv, CacheStep
    PROVE  CacheInv'
<1> USE DEF CacheInv
<1>1. CASE ListSkill
  <2> USE <1>1 DEF ListSkill
  <2>1. Head(todo) \in Skills /\ Head(todo) \in Range(todo)
    BY RangeHeadTail DEF CacheTypeOK
  <2>2. paths' \in {FilesOf[Head(todo)], <<>>} /\ FilesOf[Head(todo)] \in Seq(Files) /\ <<>> \in Seq(Files)
    BY <2>1, EmptySeq, CacheAssumption
  <2>3. CacheTypeOK'
    BY <2>2 DEF CacheTypeOK, Boots
  <2>4. Range(paths') \subseteq Range(FilesOf[Head(todo)]) /\ Range(listed') = {}
    BY <2>2, RangeEmpty
  <2>5. \A s \in Skills \ Range(todo) : InOrder(s, building[s])'
    BY DEF InOrder
  <2> QED
    BY <2>3, <2>4, <2>5
<1>2. CASE KeepFile
  <2>1. disk[NextFile] # "none" /\ (IsLocal => disk[NextFile] = "whole")
    BY <1>2 DEF KeepFile, Current
  <2> QED
    BY <1>2, <2>1, FileSeen DEF KeepFile, Seeing
<1>3. CASE PassFile
  BY <1>3, FileSeen DEF PassFile, Seeing
<1>4. CASE OpenFile
  <2>1. NextFile \notin Range(listed)
    BY <1>4 DEF OpenFile, Current, IsLocal, Seeing
  <2> QED
    BY <1>4, <2>1, FileWritten DEF OpenFile, Seeing
<1>5. CASE FillFile
  BY <1>5, FileWritten DEF FillFile
<1>6. CASE SkillDone
  <2> USE <1>6 DEF SkillDone
  <2> DEFINE s == Head(todo)
             files == IF listed = <<>> /\ ~IsLocal THEN OnDisk(s) ELSE listed
  <2>1. s \in Skills /\ Range(todo) = {s} \cup Range(Tail(todo)) /\ Tail(todo) \in Seq(Skills)
    BY RangeHeadTail DEF CacheTypeOK
  <2>2. files \in Seq(Files) /\ InOrder(s, files)
    <3>1. CASE listed = <<>> /\ ~IsLocal
      BY <2>1, <3>1, OnDiskIsThere DEF InOrder, IsLocal
    <3>2. CASE ~(listed = <<>> /\ ~IsLocal)
      <4>1. listed \in Seq(Files)
        BY DEF CacheTypeOK
      <4> QED
        BY <3>2, <4>1 DEF InOrder, IsLocal
    <3> QED
      BY <3>1, <3>2
  <2>3. building' = [building EXCEPT ![s] = files] /\ disk' = disk /\ todo' = Tail(todo) /\ boot' = "skill"
    OBVIOUS
  <2> HIDE DEF files, s
  <2>4. CacheTypeOK'
    BY <2>1, <2>2, <2>3 DEF CacheTypeOK, Boots
  <2>5. ASSUME NEW t \in Skills \ Range(todo') PROVE InOrder(t, building[t])'
    <3>1. CASE t = s
      <4>1. building'[t] = files
        BY <2>1, <2>3, <3>1 DEF CacheTypeOK
      <4> QED
        BY <2>2, <2>3, <3>1, <4>1 DEF InOrder
    <3>2. CASE t # s
      <4>1. t \notin Range(todo) /\ building'[t] = building[t]
        BY <2>1, <2>3, <2>5, <3>2 DEF CacheTypeOK
      <4>2. InOrder(t, building[t])
        BY <4>1
      <4> QED
        BY <2>3, <4>1, <4>2 DEF InOrder
    <3> QED
      BY <3>1, <3>2
  <2> QED
    BY <2>3, <2>4, <2>5
<1>7. CASE InitDone \/ InitRaises
  <2>1. /\ boot' \in {"ready", "raised"} /\ todo' = <<>> /\ paths' = <<>> /\ listed' = <<>>
        /\ building' = NoListing /\ catalog' \in {catalog, building} /\ UNCHANGED <<disk, restarts>>
    BY <1>7 DEF InitDone, InitRaises, NothingBooted
  <2>2. CacheTypeOK'
    BY <2>1, EmptySeq DEF CacheTypeOK, Boots, NoListing
  <2>3. boot' = "ready" => \A s \in Skills : InOrder(s, catalog[s])'
    <3> SUFFICES ASSUME boot' = "ready" PROVE \A s \in Skills : InOrder(s, catalog[s])'
      OBVIOUS
    <3>1. boot = "skill" /\ todo = <<>> /\ catalog' = building
      BY <1>7 DEF InitDone, InitRaises, NothingBooted
    <3>2. \A s \in Skills : InOrder(s, building[s])
      BY <3>1, RangeEmpty
    <3> QED
      BY <2>1, <3>1, <3>2 DEF InOrder
  <2> QED
    BY <2>1, <2>2, <2>3
<1> QED
  BY <1>1, <1>2, <1>3, <1>4, <1>5, <1>6, <1>7 DEF CacheStep

\* What the runs check follows.
LEMMA CacheInvImplies == CacheInv => CatalogMatchesDisk /\ AnswersAreCapped
<1> SUFFICES ASSUME CacheInv PROVE CatalogMatchesDisk /\ AnswersAreCapped
  OBVIOUS
<1>1. AnswersAreCapped
  BY AnswerCapped DEF CacheInv, AnswersAreCapped
<1>2. CatalogMatchesDisk
  <2> SUFFICES ASSUME boot = "ready", NEW s \in Skills
               PROVE  /\ \A f \in Range(catalog[s]) : disk[f] # "none"
                      /\ s \notin Locals /\ OnDisk(s) # <<>> => catalog[s] # <<>>
                      /\ s \in Locals => \A f \in Range(catalog[s]) : disk[f] = "whole"
    BY DEF CatalogMatchesDisk
  <2>1. InOrder(s, catalog[s])
    BY DEF CacheInv
  <2>2. OnDisk(s) # <<>> <=> \E f \in Range(FilesOf[s]) : disk[f] # "none"
    BY OnDiskIsThere DEF CacheInv
  <2> QED
    BY <2>1, <2>2 DEF InOrder
<1> QED
  BY <1>1, <1>2
=============================================================================
