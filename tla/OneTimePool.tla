---------------------------- MODULE OneTimePool ----------------------------
(***************************************************************************)
(* What the one_time_prekeys table promises its users ("Prekeys à usage    *)
(* unique pour X3DH"): a prekey enters the pool once, leaves it once, and  *)
(* is given to at most one requester.  A prekey may also be lost (account  *)
(* deleted, or a fetch that consumed it and failed) without being given.   *)
(***************************************************************************)
EXTENDS Naturals

CONSTANT Keys                 \* identities of prekeys (row ids of the table)

VARIABLES available,          \* prekeys that may still be given
          given               \* how many requesters received each prekey

poolVars == <<available, given>>

PoolInit == /\ available = {}
            /\ given = [k \in Keys |-> 0]

\* The owner deposits prekeys that were never given before.
Deposit == /\ \E S \in SUBSET Keys :
                  /\ \A k \in S : given[k] = 0
                  /\ available' = available \cup S
           /\ UNCHANGED given

\* A requester receives one available prekey, which leaves the pool.
Give == \E k \in available :
            /\ available' = available \ {k}
            /\ given' = [given EXCEPT ![k] = @ + 1]

\* Prekeys leave the pool without reaching a requester.
Lose == /\ available' \in SUBSET available
        /\ UNCHANGED given

PoolNext == Deposit \/ Give \/ Lose

PoolSpec == PoolInit /\ [][PoolNext]_poolVars
=============================================================================
