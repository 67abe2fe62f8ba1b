----------------------------- MODULE MCApiKeys -----------------------------
(* The instances of ApiKeys that TLC checks. *)
EXTENDS ApiKeys
=============================================================================
