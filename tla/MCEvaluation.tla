----------------------------- MODULE MCEvaluation -----------------------------
(***************************************************************************)
(* An instance of Evaluation for TLC: a local skill of one file and a      *)
(* downloaded one of two, of which the second ends one short of the cap or *)
(* on it.                                                                  *)
(***************************************************************************)
EXTENDS Evaluation

CONSTANTS react, angular, skillmd, readme, guide, case1, case2

MCRegistry == <<react, angular>>
MCFilesOf  == [s \in {react, angular} |-> IF s = react THEN <<skillmd>> ELSE <<readme, guide>>]
MCLength   == [f \in {skillmd, readme, guide} |->
                  CASE f = skillmd -> 9 [] f = readme -> 6 [] f = guide -> 4]
MCCases    == <<case1, case2>>
MCDimensionOf == [c \in {case1, case2} |-> "Security"]
=============================================================================
