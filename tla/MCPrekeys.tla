----------------------------- MODULE MCPrekeys -----------------------------
(* Small instances of Prekeys for TLC. *)
EXTENDS Prekeys, TLC

\* A first upload, and a later one that repeats prekey 1 (a client retry).
MCBatches == {<<1>>, <<1, 2>>}

\* The users, and the request slots, are interchangeable.
Symmetric == Permutations(Users) \cup Permutations(Requests)
=============================================================================
