---------------------------- MODULE MCOffboarding ----------------------------
(***************************************************************************)
(* Instances of Offboarding for TLC.                                       *)
(***************************************************************************)
EXTENDS Offboarding, TLC

CONSTANTS ann, p1, p2

Decided == Seats \X {"remove", "review"}
Recommended == {"unmapped", "suspended", "gone", "cannot"}
Alike == Permutations(Procs)
=============================================================================
