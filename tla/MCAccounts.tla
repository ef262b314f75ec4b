----------------------------- MODULE MCAccounts ----------------------------
(* Small instances of Accounts for TLC. *)
EXTENDS Accounts, TLC

\* The request slots are interchangeable.
Symmetric == Permutations(Requests)
=============================================================================
