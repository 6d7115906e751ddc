---------------------------- MODULE MCFullReview ----------------------------
(***************************************************************************)
(* An instance of FullReview for TLC: two tools with one finding id each.  *)
(***************************************************************************)
EXTENDS FullReview

CONSTANTS lint, vuln

MCTools  == <<"ruff", "osv-scanner">>
MCToolOf == [id \in {lint, vuln} |-> IF id = lint THEN "ruff" ELSE "osv-scanner"]
=============================================================================
