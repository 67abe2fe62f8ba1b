----------------------------- MODULE MCApiUsage ----------------------------
(* The instance of ApiUsage that TLC checks. *)
EXTENDS ApiUsage
=============================================================================
