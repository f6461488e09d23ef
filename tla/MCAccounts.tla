----------------------------- MODULE MCAccounts -----------------------------
(* Small instances of Accounts for TLC. *)
EXTENDS Accounts, TLC

CONSTANTS s1, s2

AccountsSymmetry == Permutations({s1, s2})
=============================================================================
