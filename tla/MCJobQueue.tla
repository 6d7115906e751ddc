----------------------------- MODULE MCJobQueue -----------------------------
(***************************************************************************)
(* Instances of JobQueue for TLC: user ann has two POSTs (two tabs, or a   *)
(* second job after the first), user bob has one.                          *)
(***************************************************************************)
EXTENDS JobQueue, TLC

CONSTANTS ann, bob, a1, a2, b1, w1, w2

MCOwner == [j \in Jobs |-> IF j = b1 THEN bob ELSE ann]
MCNone  == {}
MCSlow  == {a1}
MCCrash == {"worker crash"}

\* a1 and a2 are interchangeable, and so are the workers.
Symmetry == Permutations({a1, a2} \cap Jobs) \cup Permutations({w1, w2} \cap Workers)
=============================================================================
