---------------------------- MODULE MCAuditTrail ----------------------------
(* Small instances of AuditTrail for TLC. *)
EXTENDS AuditTrail, TLC

CONSTANTS a1, a2, x, y, v1, v2

AuditSymmetry == Permutations({a1, a2}) \cup Permutations({x, y})
                     \cup Permutations({v1, v2})
=============================================================================
