----------------------------- MODULE MCSeatCache -----------------------------
(* An instance of SeatCache for TLC. *)
EXTENDS SeatCache, TLC

CONSTANTS ann, key, p1, s1, s2, a1, v1

Alike == Permutations({s1, s2})
=============================================================================
