----------------------------- MODULE MCMailbox -----------------------------
(* Small instances of Mailbox for TLC. *)
EXTENDS Mailbox, TLC

\* The request slots are interchangeable.
Symmetric == Permutations(Requests)
=============================================================================
