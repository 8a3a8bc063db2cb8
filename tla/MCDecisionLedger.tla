-------------------------- MODULE MCDecisionLedger --------------------------
(***************************************************************************)
(* Instances of DecisionLedger for TLC: a seat and a credential, judged by *)
(* two people.                                                             *)
(***************************************************************************)
EXTENDS DecisionLedger

CONSTANTS seat, key, suspended, gone, unsupported, ann, bob
=============================================================================
