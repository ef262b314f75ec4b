----------------------------- MODULE MCFriends -----------------------------
(* Small instances of Friends for TLC. *)
EXTENDS Friends

CONSTANTS alice, bob

\* Alice asks bob.
OnePair == {<<alice, bob>>}
=============================================================================
