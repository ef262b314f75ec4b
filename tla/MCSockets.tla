----------------------------- MODULE MCSockets -----------------------------
(* Small instances of Sockets for TLC. *)
EXTENDS Sockets, TLC

\* Sockets are interchangeable (for safety only; channels are not).
SymmetricSockets == Permutations(Sockets)
=============================================================================
