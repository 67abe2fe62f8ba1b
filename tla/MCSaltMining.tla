---------------------------- MODULE MCSaltMining ----------------------------
(* The instances of SaltMining that TLC checks. *)
EXTENDS SaltMining
=============================================================================
